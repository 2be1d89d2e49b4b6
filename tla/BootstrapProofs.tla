--------------------------- MODULE BootstrapProofs ---------------------------
(***************************************************************************)
(* Theorems about Bootstrap, for any packages, recipes and phases' lists.  *)
(* The invariants of a build are those of BuilderProofs, kept by the lemmas *)
(* proved there; what is new is how the run goes through its packages.     *)
(***************************************************************************)
EXTENDS Bootstrap, BuilderProofs

BootSteps == {"idle", "next", "source", "resource", "merge", "done"}

(* The types, where Builder's hold of the running build alone.              *)
BootTypeOK ==
    /\ marks \in [Package -> SUBSET Phase]
    /\ src \in [Package -> {"empty", "partial", "whole"}]
    /\ placed \in [Package -> SUBSET Place]
    /\ prot \in [Package -> {"none", "good", "bad"}]
    /\ named \in [Package -> {"none", "good", "bad"}]
    /\ sound \in [Package -> SUBSET Phase]
    /\ tainted \subseteq Package
    /\ pc \in BuildSteps \cup BootSteps
    /\ pc \in BuildSteps => TypeOK
    /\ boot \in Boots
    /\ unmerged \in BOOLEAN

(* Between the choice of a package and its end.                             *)
OnPackage == pc \in BuildSteps \cup {"source", "resource", "merge"}

(* The run is that of the first package still to do, for its place; before  *)
(* its sources are there nothing of it has begun.                           *)
OfPackage == OnPackage =>
    /\ boot.todo # <<>> /\ run \in Run
    /\ pkg = Head(boot.todo) /\ pkg \in Recipe
    /\ run.clean = boot.clean
    /\ run.place = IF Base THEN "pkg" ELSE "base"
    /\ pc \in {"source", "resource"} =>
         HasVacuole /\ run = NewRun(pkg, boot.clean, IF Base THEN "pkg" ELSE "base")
    /\ pc = "merge" => Base

(* What is still to do is of the phase it is at, one of those asked for.    *)
OfPhase ==
    /\ Range(boot.left) \subseteq boot.phases
    /\ boot.todo # <<>> => boot.at \in BPhase
    /\ boot.at \in BPhase => Range(boot.todo) \subseteq Range(Packages[boot.at])
    /\ pc = "done" /\ ~boot.failed => boot.left = <<>> /\ boot.todo = <<>>
    /\ pc = "idle" => boot = NoBoot

(* A build of bootstrap has the whole sources from its start.               *)
WholeFromStart == HasVacuole /\ pc \in BuildSteps => pc # "unpack" /\ src[pkg] = "whole"

(* Its parts, of those packages for which they hold.                        *)
BuildsSound == OnPackage /\ SrcPhases[pkg] = {} => HandledSound
BuildsInPlace == OnPackage /\ (run.clean \/ pkg \notin InSysroot) => InPlace
MarksHold == \A b \in Package :
    /\ SrcPhases[b] = {} => MarkedSound(b)
    /\ b \notin InSysroot => MarkedPlaced(b, "base")

(* What the phases so far should have installed is in place or still to do, *)
(* unless the run has failed.                                               *)
ToolsSoFar == ~boot.failed =>
    \A bp \in boot.phases \ (Range(boot.left) \cup {"base-system"}) :
        \A b \in (Range(Packages[bp]) \cap Recipe) \ (InSysroot \cup tainted) :
            "base" \in placed[b] \/ b \in Range(boot.todo)

CleanSoFar ==
    /\ ~boot.failed /\ boot.clean /\ ~unmerged /\ "base-system" \in boot.phases \ Range(boot.left) =>
         \A b \in InSysroot \cap Recipe :
             "sysroot" \in placed[b] \/ (Base /\ b \in Range(boot.todo))
    /\ pc = "merge" /\ boot.clean => "pkg" \in placed[pkg]

BootInv == /\ BootTypeOK /\ OfPackage /\ OfPhase /\ WholeFromStart
           /\ InOrder /\ RunsUnmarked
           /\ BuildsSound /\ BuildsInPlace /\ MarksHold
           /\ ToolsSoFar /\ CleanSoFar

-----------------------------------------------------------------------------
(* The first of a sequence and the rest of it.                              *)
LEMMA HeadAndTail ==
  ASSUME NEW S, NEW s \in Seq(S), s # <<>>
  PROVE  Head(s) \in S /\ Tail(s) \in Seq(S) /\ Range(s) = {Head(s)} \cup Range(Tail(s))
<1>1. Len(s) \in Nat \ {0} /\ DOMAIN s = 1..Len(s) /\ Head(s) = s[1] /\ Head(s) \in S
  OBVIOUS
<1>2. /\ Tail(s) \in Seq(S) /\ DOMAIN Tail(s) = 1..(Len(s) - 1)
      /\ \A i \in 1..(Len(s) - 1) : Tail(s)[i] = s[i + 1]
  BY <1>1
<1>3. ASSUME NEW i \in 1..Len(s) PROVE s[i] \in {Head(s)} \cup Range(Tail(s))
  <2>1. CASE i = 1
    BY <1>1, <2>1
  <2>2. CASE i # 1
    <3>1. i - 1 \in 1..(Len(s) - 1) /\ Tail(s)[i - 1] = s[i]
      BY <1>1, <1>2, <2>2
    <3>2. QED
      BY <1>2, <3>1 DEF Range
  <2>3. QED
    BY <2>1, <2>2
<1>4. ASSUME NEW i \in 1..(Len(s) - 1) PROVE Tail(s)[i] \in Range(s)
  BY <1>1, <1>2 DEF Range
<1>5. Head(s) \in Range(s)
  BY <1>1 DEF Range
<1>6. Range(s) \subseteq {Head(s)} \cup Range(Tail(s))
  BY <1>1, <1>3 DEF Range
<1>7. Range(Tail(s)) \subseteq Range(s)
  BY <1>2, <1>4 DEF Range
<1>8. QED
  BY <1>1, <1>2, <1>5, <1>6, <1>7

LEMMA EmptyRange == Range(<<>>) = {}
BY DEF Range

LEMMA RangeIn == ASSUME NEW S, NEW s \in Seq(S) PROVE Range(s) \subseteq S
BY DEF Range

(* The fields of the running bootstrap.                                     *)
LEMMA BootFields ==
  ASSUME boot \in Boots
  PROVE  /\ boot.left \in Seq(BPhase) /\ boot.at \in BPhase \cup {"none"}
         /\ boot.todo \in Seq(Package) /\ boot.phases \subseteq BPhase
         /\ boot.clean \in BOOLEAN /\ boot.keep \in BOOLEAN /\ boot.failed \in BOOLEAN
BY DEF Boots

(* The first package still to do is one of the phase it is at.              *)
LEMMA FirstPackage ==
  ASSUME BootTypeOK, OfPhase, boot.todo # <<>>
  PROVE  /\ Head(boot.todo) \in Package /\ Head(boot.todo) \in Range(boot.todo)
         /\ boot.at \in BPhase /\ Head(boot.todo) \in Range(Packages[boot.at])
         /\ Base <=> boot.at = "base-system"
         /\ Base => Head(boot.todo) \in InSysroot
<1>1. Head(boot.todo) \in Package /\ Head(boot.todo) \in Range(boot.todo)
  BY BootFields, HeadAndTail DEF BootTypeOK
<1>2. QED
  BY <1>1 DEF OfPhase, Base, InSysroot

-----------------------------------------------------------------------------
(* A step after which no package is being done keeps what is said of the    *)
(* builds, if it takes nothing out of the base.                             *)
LEMMA BetweenPackages ==
  ASSUME BootInv, pc' \in {"idle", "next", "done"},
         UNCHANGED <<marks, src, prot, named, sound, tainted>>,
         placed' \in [Package -> SUBSET Place],
         \A b \in Package : "base" \in placed[b] => "base" \in placed'[b],
         boot' \in Boots, unmerged' \in BOOLEAN
  PROVE  /\ BootTypeOK' /\ OfPackage' /\ WholeFromStart' /\ InOrder' /\ RunsUnmarked'
         /\ BuildsSound' /\ BuildsInPlace' /\ MarksHold'
<1> USE DEF BuildSteps, BootSteps, BootInv
<1>1. BootTypeOK'
  BY DEF BootTypeOK
<1>2. pc' \notin BuildSteps /\ ~OnPackage'
  BY DEF OnPackage
<1>3. OfPackage' /\ WholeFromStart' /\ InOrder' /\ RunsUnmarked' /\ BuildsSound' /\ BuildsInPlace'
  BY <1>2 DEF OfPackage, WholeFromStart, InOrder, RunsUnmarked, BuildsSound, BuildsInPlace
<1>4. MarksHold'
  BY DEF MarksHold, MarkedSound, MarkedPlaced, InSysroot
<1>5. QED
  BY <1>1, <1>3, <1>4

(* On to the next package, once this one has what its phase promises.       *)
LEMMA Advancing ==
  ASSUME BootInv, boot.todo # <<>>, Advance, pc' = "next",
         UNCHANGED <<marks, src, prot, named, sound, tainted>>,
         placed' \in [Package -> SUBSET Place],
         \A b \in Package : placed[b] \cap {"base", "sysroot"} \subseteq placed'[b],
         unmerged' \in BOOLEAN, unmerged => unmerged',
         Head(boot.todo) \in Recipe \ (InSysroot \cup tainted)
           => "base" \in placed'[Head(boot.todo)],
         Base /\ boot.clean /\ ~unmerged' /\ Head(boot.todo) \in Recipe
           => "sysroot" \in placed'[Head(boot.todo)]
  PROVE  BootInv'
<1> DEFINE b == Head(boot.todo)
<1>1. boot \in Boots /\ BootTypeOK /\ OfPhase
  BY DEF BootInv, BootTypeOK
<1>2. /\ boot'.left = boot.left /\ boot'.at = boot.at /\ boot'.todo = Tail(boot.todo)
      /\ boot'.clean = boot.clean /\ boot'.failed = boot.failed /\ boot'.phases = boot.phases
      /\ boot' \in Boots
  BY <1>1, BootFields, HeadAndTail DEF Boots, Advance
<1>3. Range(boot.todo) = {b} \cup Range(Tail(boot.todo))
  BY <1>1, BootFields, HeadAndTail
<1>4. BootTypeOK' /\ OfPackage' /\ WholeFromStart' /\ InOrder' /\ RunsUnmarked'
      /\ BuildsSound' /\ BuildsInPlace' /\ MarksHold'
  BY <1>2, BetweenPackages
<1>5. OfPhase'
  BY <1>1, <1>2, <1>3, FirstPackage DEF OfPhase
<1>6. ToolsSoFar'
  <2> SUFFICES ASSUME ~boot'.failed,
                      NEW bp \in boot'.phases \ (Range(boot'.left) \cup {"base-system"}),
                      NEW a \in (Range(Packages[bp]) \cap Recipe) \ (InSysroot \cup tainted'),
                      a \notin Range(boot'.todo)
               PROVE  "base" \in placed'[a]
    BY DEF ToolsSoFar, InSysroot
  <2>1. a \in Package
    BY PackagesAssumption
  <2>2. "base" \in placed[a] \/ a \in Range(boot.todo)
    BY <1>2 DEF BootInv, ToolsSoFar
  <2>3. CASE a = b
    BY <2>3
  <2>4. CASE a # b
    BY <1>2, <1>3, <2>1, <2>2, <2>4
  <2>5. QED
    BY <2>3, <2>4
<1>7. CleanSoFar'
  <2> SUFFICES ASSUME ~boot'.failed, boot'.clean, ~unmerged',
                      "base-system" \in boot'.phases \ Range(boot'.left),
                      NEW a \in InSysroot \cap Recipe,
                      ~(Base' /\ a \in Range(boot'.todo))
               PROVE  "sysroot" \in placed'[a]
    BY DEF CleanSoFar, InSysroot
  <2>1. a \in Package
    BY PackagesAssumption
  <2>2. "sysroot" \in placed[a] \/ (Base /\ a \in Range(boot.todo))
    BY <1>2 DEF BootInv, CleanSoFar
  <2>3. CASE Base /\ a = b
    BY <1>2, <2>3
  <2>4. CASE ~Base \/ a # b
    BY <1>2, <1>3, <2>1, <2>2, <2>4 DEF Base
  <2>5. QED
    BY <2>3, <2>4
<1>8. QED
  BY <1>4, <1>5, <1>6, <1>7 DEF BootInv

(* The run ends, or fails: nothing is promised but what is on disk.         *)
LEMMA Ending ==
  ASSUME BootInv, pc' \in {"idle", "next", "done"},
         UNCHANGED <<marks, src, placed, prot, named, sound, tainted>>, unmerged' \in BOOLEAN,
         \/ boot' = NoBoot
         \/ boot' = [boot EXCEPT !.failed = TRUE] /\ pc' = "done"
         \/ boot' = [boot EXCEPT !.failed = TRUE, !.todo = Tail(@)] /\ boot.todo # <<>> /\ pc' # "idle",
         pc' = "idle" => boot' = NoBoot
  PROVE  BootInv'
<1>1. boot \in Boots /\ BootTypeOK /\ OfPhase
  BY DEF BootInv, BootTypeOK
<1>2. CASE boot' = NoBoot
  <2>1. /\ boot' \in Boots /\ boot'.left = <<>> /\ boot'.todo = <<>> /\ boot'.phases = {}
        /\ boot'.at \notin BPhase
    BY <1>2 DEF NoBoot, Boots, BPhase
  <2>2. OfPhase' /\ ToolsSoFar' /\ CleanSoFar'
    BY <1>2, <2>1, EmptyRange DEF OfPhase, ToolsSoFar, CleanSoFar
  <2>3. QED
    BY <2>1, <2>2, BetweenPackages DEF BootInv, BootTypeOK
<1>3. CASE boot' # NoBoot
  <2>1. /\ boot' \in Boots /\ boot'.failed /\ boot'.left = boot.left /\ boot'.at = boot.at
        /\ boot'.phases = boot.phases
        /\ boot'.todo = boot.todo \/ (boot'.todo = Tail(boot.todo) /\ boot.todo # <<>>)
    <3>1. boot.todo # <<>> => Tail(boot.todo) \in Seq(Package)
      BY <1>1, BootFields, HeadAndTail
    <3>2. CASE boot' = [boot EXCEPT !.failed = TRUE]
      BY <1>1, <3>2 DEF Boots
    <3>3. CASE boot' = [boot EXCEPT !.failed = TRUE, !.todo = Tail(@)] /\ boot.todo # <<>>
      <4>1. boot' \in Boots
        BY <1>1, <3>1, <3>3 DEF Boots
      <4>2. /\ boot'.failed /\ boot'.left = boot.left /\ boot'.at = boot.at
            /\ boot'.phases = boot.phases /\ boot'.todo = Tail(boot.todo)
        BY <1>1, <3>3 DEF Boots
      <4>3. QED
        BY <3>3, <4>1, <4>2
    <3>4. QED
      BY <1>3, <3>2, <3>3
  <2>2. boot'.todo # <<>> => boot.todo # <<>>
    BY <2>1
  <2>3. Range(boot'.todo) \subseteq Range(boot.todo)
    BY <1>1, <2>1, BootFields, HeadAndTail
  <2>4. OfPhase'
    BY <1>1, <1>3, <2>1, <2>2, <2>3 DEF OfPhase
  <2>5. ToolsSoFar' /\ CleanSoFar'
    BY <2>1 DEF ToolsSoFar, CleanSoFar
  <2>6. QED
    BY <2>1, <2>4, <2>5, BetweenPackages DEF BootInv, BootTypeOK
<1>4. QED
  BY <1>2, <1>3

LEMMA BootstrapInv ==
  ASSUME BootInv, NEW phases \in Seq(BPhase), NEW clean \in BOOLEAN, NEW keep \in BOOLEAN,
         Bootstrap(phases, clean, keep)
  PROVE  BootInv'
<1>1. /\ boot' \in Boots /\ boot'.left = phases /\ boot'.todo = <<>> /\ boot'.at = "none"
      /\ boot'.phases = Range(phases) /\ ~boot'.failed
  <2>1. Range(phases) \subseteq BPhase /\ <<>> \in Seq(Package)
    BY RangeIn
  <2>2. boot' = [left |-> phases, at |-> "none", todo |-> <<>>, clean |-> clean, keep |-> keep,
                 failed |-> FALSE, phases |-> Range(phases)]
    BY DEF Bootstrap, NoBoot
  <2>3. QED
    BY <2>1, <2>2 DEF Boots
<1>2. pc' = "next" /\ UNCHANGED <<disk, history>> /\ unmerged' = FALSE
  BY DEF Bootstrap
<1>3. OfPhase'
  BY <1>1, <1>2, EmptyRange DEF OfPhase, BPhase
<1>4. ToolsSoFar' /\ CleanSoFar'
  BY <1>1, <1>2 DEF ToolsSoFar, CleanSoFar
<1>5. QED
  BY <1>1, <1>2, <1>3, <1>4, BetweenPackages DEF BootInv, BootTypeOK, disk, history

(* A phase begins with all its packages to do, and those of the phases      *)
(* before it done.                                                          *)
LEMMA BeginPhaseInv == ASSUME BootInv, BeginPhase PROVE BootInv'
<1> DEFINE bp == Head(boot.left)
<1>1. boot \in Boots /\ BootTypeOK /\ OfPhase
  BY DEF BootInv, BootTypeOK
<1>2. /\ pc = "next" /\ pc' = "next" /\ boot.todo = <<>> /\ boot.left # <<>>
      /\ UNCHANGED <<disk, history, unmerged>>
  BY DEF BeginPhase
<1>3. bp \in BPhase /\ Range(boot.left) = {bp} \cup Range(Tail(boot.left))
      /\ Tail(boot.left) \in Seq(BPhase)
  BY <1>1, <1>2, BootFields, HeadAndTail
<1>4. /\ boot' \in Boots /\ boot'.left = Tail(boot.left) /\ boot'.at = bp
      /\ boot'.todo = Packages[bp] /\ boot'.clean = boot.clean /\ boot'.failed = boot.failed
      /\ boot'.phases = boot.phases
  BY <1>1, <1>3, BootFields, PackagesAssumption DEF BeginPhase, Boots
<1>5. OfPhase'
  BY <1>1, <1>2, <1>3, <1>4 DEF OfPhase
<1>6. ToolsSoFar'
  <2> SUFFICES ASSUME ~boot'.failed,
                      NEW q \in boot'.phases \ (Range(boot'.left) \cup {"base-system"}),
                      NEW a \in (Range(Packages[q]) \cap Recipe) \ (InSysroot \cup tainted'),
                      a \notin Range(boot'.todo)
               PROVE  "base" \in placed'[a]
    BY DEF ToolsSoFar, InSysroot
  <2>1. q # bp /\ q \notin Range(boot.left)
    BY <1>3, <1>4
  <2>2. "base" \in placed[a] \/ a \in Range(boot.todo)
    BY <1>2, <1>4, <2>1 DEF BootInv, ToolsSoFar, history
  <2>3. QED
    BY <1>2, <2>2, EmptyRange DEF disk
<1>7. CleanSoFar'
  <2> SUFFICES ASSUME ~boot'.failed, boot'.clean, ~unmerged',
                      "base-system" \in boot'.phases \ Range(boot'.left),
                      NEW a \in InSysroot \cap Recipe,
                      ~(Base' /\ a \in Range(boot'.todo))
               PROVE  "sysroot" \in placed'[a]
    BY <1>2 DEF CleanSoFar, InSysroot
  <2>1. bp # "base-system"
    BY <1>4 DEF Base, InSysroot
  <2>2. "sysroot" \in placed[a] \/ a \in Range(boot.todo)
    BY <1>2, <1>3, <1>4, <2>1 DEF BootInv, CleanSoFar
  <2>3. QED
    BY <1>2, <2>2, EmptyRange DEF disk
<1>8. QED
  BY <1>1, <1>2, <1>4, <1>5, <1>6, <1>7, BetweenPackages DEF BootInv, BootTypeOK, disk, history

(* Steps between packages that start none.                                  *)
LEMMA NextInv ==
  ASSUME BootInv, NoRecipe \/ SkipComplete \/ ParseFails \/ Abort \/ Finish \/ Report \/ Kill
  PROVE  BootInv'
<1> USE DEF disk, history
<1>1. boot \in Boots /\ BootTypeOK /\ OfPhase /\ MarksHold
  BY DEF BootInv, BootTypeOK
<1>2. placed \in [Package -> SUBSET Place] /\ unmerged \in BOOLEAN
  BY <1>1 DEF BootTypeOK
<1>3. CASE NoRecipe
  BY <1>2, <1>3, Advancing DEF NoRecipe
<1>4. CASE SkipComplete
  <2>1. /\ boot.todo # <<>> /\ Advance /\ pc' = "next" /\ UNCHANGED <<disk, history, unmerged>>
        /\ ~boot.clean /\ Scripts[Head(boot.todo)] \subseteq marks[Head(boot.todo)]
    BY <1>4 DEF SkipComplete, IsBuildComplete
  <2>2. Head(boot.todo) \in Package
    BY <1>1, <2>1, FirstPackage
  <2>3. Head(boot.todo) \in Recipe \ (InSysroot \cup tainted) => "base" \in placed[Head(boot.todo)]
    BY <1>1, <2>1, <2>2, RecipeAssumption DEF MarksHold, MarkedPlaced
  <2>4. QED
    BY <1>2, <2>1, <2>3, Advancing
<1>5. CASE ParseFails
  <2>1. /\ boot.todo # <<>> /\ UNCHANGED <<disk, history, unmerged>>
        /\ pc' = IF boot.keep THEN "next" ELSE "done"
        /\ boot' = [boot EXCEPT !.failed = TRUE, !.todo = IF boot.keep THEN Tail(@) ELSE @]
    BY <1>5 DEF ParseFails, Fail
  <2>2. CASE boot.keep
    BY <1>2, <2>1, <2>2, Ending
  <2>3. CASE ~boot.keep
    <3>1. boot' = [boot EXCEPT !.failed = TRUE]
      BY <1>1, <2>1, <2>3 DEF Boots
    <3>2. QED
      BY <1>2, <2>1, <2>3, <3>1, Ending
  <2>4. QED
    BY <2>2, <2>3
<1>6. CASE Abort
  BY <1>2, <1>6, Ending DEF Abort
<1>7. CASE Finish
  <2>1. /\ pc = "next" /\ pc' = "done" /\ boot.todo = <<>> /\ boot.left = <<>>
        /\ UNCHANGED <<disk, history, boot, unmerged>>
    BY <1>7 DEF Finish
  <2>2. OfPhase'
    BY <1>1, <2>1 DEF OfPhase
  <2>3. ToolsSoFar' /\ CleanSoFar'
    BY <2>1 DEF BootInv, ToolsSoFar, CleanSoFar, InSysroot, Base
  <2>4. QED
    BY <1>1, <1>2, <2>1, <2>2, <2>3, BetweenPackages DEF BootInv
<1>8. CASE Report
  BY <1>2, <1>8, Ending DEF Report
<1>9. CASE Kill
  BY <1>2, <1>9, Ending DEF Kill
<1>10. QED
  BY <1>3, <1>4, <1>5, <1>6, <1>7, <1>8, <1>9

-----------------------------------------------------------------------------
(* A step of the build that the bootstrap runs.  It touches neither the     *)
(* sysroot nor a whole source tree.                                         *)
LEMMA BuildTouches ==
  ASSUME TypeOK, BuildNext
  PROVE  /\ \A b \in Package : "sysroot" \in placed[b] => "sysroot" \in placed'[b]
         /\ pc # "unpack" /\ src[pkg] = "whole" => pc' # "unpack" /\ UNCHANGED src
<1> USE DEF disk, history, TypeOK
<1>1. run.place \in {"pkg", "base"}
  BY Building DEF Run
<1>2. ASSUME NEW ph \in Phase, CleanMarker(ph) \/ RunPhase(ph)
      PROVE  /\ \A b \in Package : "sysroot" \in placed[b] => "sysroot" \in placed'[b]
             /\ pc' # "unpack" /\ UNCHANGED src
  BY <1>1, <1>2 DEF CleanMarker, RunPhase
<1>3. ASSUME Cleaned \/ SkipExtract \/ PhaseDone \/ Mark \/ MarkFails
      PROVE  /\ \A b \in Package : "sysroot" \in placed[b] => "sysroot" \in placed'[b]
             /\ pc' # "unpack" /\ UNCHANGED src
  BY <1>1, <1>3 DEF Cleaned, SkipExtract, PhaseDone, Mark, MarkFails
<1>4. ASSUME PhaseFails \/ AllDone \/ Pack \/ PackFails \/ Store \/ StoreFails
      PROVE  UNCHANGED placed /\ pc' # "unpack" /\ UNCHANGED src
  BY <1>1, <1>4 DEF PhaseFails, AllDone, Pack, PackFails, Store, StoreFails, Ends
<1>5. ASSUME Extract \/ Unpacked \/ ExtractFails
      PROVE  UNCHANGED placed /\ (pc = "unpack" \/ src[pkg] = "empty")
  BY <1>5 DEF Extract, Unpacked, ExtractFails
<1>6. QED
  BY <1>2, <1>3, <1>4, <1>5 DEF BuildNext

LEMMA BuildingInv == ASSUME BootInv, BuildNext, UNCHANGED <<boot, unmerged>> PROVE BootInv'
<1>1. pc \in BuildSteps
  BY DEF BuildSteps, BuildNext, CleanMarker, RunPhase, Cleaned, SkipExtract, Extract, Unpacked,
     ExtractFails, PhaseDone, Mark, MarkFails, PhaseFails, AllDone, Pack, PackFails, Store, StoreFails
<1>2. OnPackage /\ TypeOK /\ BootTypeOK /\ OfPackage /\ OfPhase /\ InOrder /\ RunsUnmarked
  BY <1>1 DEF BootInv, BootTypeOK, OnPackage
<1>3. /\ boot.todo # <<>> /\ pkg = Head(boot.todo) /\ pkg \in Recipe /\ pkg \in Package
      /\ pkg \in Range(boot.todo)
      /\ run.place = IF Base THEN "pkg" ELSE "base"
      /\ pkg \notin InSysroot => ~Base
  BY <1>2, FirstPackage DEF OfPackage
<1>4. /\ pc' \in BuildSteps
      /\ run'.pkg = run.pkg /\ run'.clean = run.clean /\ run'.place = run.place
      /\ \A b \in Package \ {pkg} :
            /\ marks'[b] = marks[b] /\ placed'[b] = placed[b] /\ sound'[b] = sound[b]
            /\ src'[b] = src[b]
      /\ tainted \subseteq tainted'
  BY <1>2, BuildGoesOn
<1>5. pkg' = pkg
  BY <1>4 DEF pkg
<1>6. TypeOK' /\ InOrder' /\ RunsUnmarked'
  BY <1>2, TypeBuild, OrderBuild, UnmarkedBuild
<1>7. pc' # "idle" /\ pc' \notin {"source", "resource", "merge", "next", "done"}
  BY <1>4 DEF BuildSteps
<1>8. BootTypeOK'
  BY <1>2, <1>4, <1>6 DEF BootTypeOK, TypeOK, Boots
<1>9. OfPackage'
  BY <1>2, <1>3, <1>4, <1>5, <1>6, <1>7 DEF OfPackage, OnPackage, TypeOK, Base
<1>10. OfPhase'
  BY <1>2, <1>7 DEF OfPhase
<1>11. WholeFromStart'
  BY <1>1, <1>2, <1>5, BuildTouches DEF BootInv, WholeFromStart
<1>12. BuildsSound'
  <2>1. ASSUME SrcPhases[pkg] = {} PROVE HandledSound'
    <3>1. HandledSound /\ MarkedSound(pkg)
      BY <1>2, <1>3, <2>1 DEF BootInv, BuildsSound, MarksHold
    <3>2. QED
      BY <1>2, <3>1, HandledBuild
  <2>2. QED
    BY <1>5, <2>1 DEF BuildsSound
<1>13. BuildsInPlace'
  <2>1. ASSUME run.clean \/ pkg \notin InSysroot PROVE InPlace'
    <3>1. InPlace
      BY <1>2, <2>1 DEF BootInv, BuildsInPlace
    <3>2. run.clean \/ MarkedPlaced(pkg, run.place)
      BY <1>3, <2>1 DEF BootInv, MarksHold
    <3>3. QED
      BY <1>2, <3>1, <3>2, InPlaceBuild
  <2>2. QED
    BY <1>4, <1>5, <2>1 DEF BuildsInPlace, InSysroot
<1>14. MarksHold'
  <2>1. ASSUME NEW b \in Package, SrcPhases[b] = {} PROVE MarkedSound(b)'
    <3>1. MarkedSound(b)
      BY <2>1 DEF BootInv, MarksHold
    <3>2. CASE b = pkg
      <4>1. HandledSound
        BY <1>2, <2>1, <3>2 DEF BootInv, BuildsSound
      <4>2. QED
        BY <1>2, <3>1, <4>1, MarkedSoundBuild
    <3>3. CASE b # pkg
      BY <1>4, <3>1, <3>3 DEF MarkedSound
    <3>4. QED
      BY <3>2, <3>3
  <2>2. ASSUME NEW b \in Package, b \notin InSysroot PROVE MarkedPlaced(b, "base")'
    <3>1. MarkedPlaced(b, "base")
      BY <2>2 DEF BootInv, MarksHold
    <3>2. CASE b = pkg
      <4>1. InPlace /\ run.place = "base"
        BY <1>2, <1>3, <2>2, <3>2 DEF BootInv, BuildsInPlace
      <4>2. QED
        BY <1>2, <3>1, <4>1, MarkedPlacedBuild
    <3>3. CASE b # pkg
      BY <1>4, <3>1, <3>3 DEF MarkedPlaced
    <3>4. QED
      BY <3>2, <3>3
  <2>3. QED
    BY <2>1, <2>2 DEF MarksHold, InSysroot, MarkedSound, MarkedPlaced
<1>15. ToolsSoFar'
  <2> SUFFICES ASSUME ~boot.failed,
                      NEW bp \in boot.phases \ (Range(boot.left) \cup {"base-system"}),
                      NEW a \in (Range(Packages[bp]) \cap Recipe) \ (InSysroot \cup tainted'),
                      a \notin Range(boot.todo)
               PROVE  "base" \in placed'[a]
    BY DEF ToolsSoFar, InSysroot
  <2>1. a \in Package /\ a # pkg
    BY <1>3, PackagesAssumption
  <2>2. "base" \in placed[a]
    BY <1>4 DEF BootInv, ToolsSoFar
  <2>3. QED
    BY <1>4, <2>1, <2>2
<1>16. CleanSoFar'
  <2>1. \A b \in Package : "sysroot" \in placed[b] => "sysroot" \in placed'[b]
    BY <1>2, BuildTouches
  <2>2. QED
    BY <1>7, <2>1, PackagesAssumption DEF BootInv, CleanSoFar, InSysroot, Base
<1>17. QED
  BY <1>6, <1>8, <1>9, <1>10, <1>11, <1>12, <1>13, <1>14, <1>15, <1>16 DEF BootInv

-----------------------------------------------------------------------------
\* A step that begins or prepares the build of a package, and no more than that, keeps
\* what is said of the phases, ...
LEMMA PhasesKept ==
  ASSUME BootInv, UNCHANGED <<placed, tainted, boot, unmerged>>, pc' \notin {"idle", "done", "merge"}
  PROVE  OfPhase' /\ ToolsSoFar' /\ CleanSoFar'
BY DEF BootInv, OfPhase, ToolsSoFar, CleanSoFar, InSysroot, Base

\* ... and a build that begins has done nothing.
LEMMA Beginning ==
  ASSUME NEW b \in Package, NEW clean \in BOOLEAN, NEW place \in {"pkg", "base"},
         run' = NewRun(b, clean, place), pc' = Begin(clean) \/ pc' \in {"source", "resource"}
  PROVE  /\ run' \in Run /\ pkg' = b /\ run'.clean = clean /\ run'.place = place
         /\ pc' \notin {"idle", "next", "merge", "done", "running", "mark", "unpack"}
         /\ InOrder' /\ RunsUnmarked' /\ HandledSound' /\ InPlace'
<1>1. /\ run' \in Run /\ pkg' = b /\ run'.clean = clean /\ run'.place = place
      /\ run'.todo = Scripts[b] /\ run'.ok = FALSE
  BY RecipeAssumption DEF NewRun, Run, pkg
<1>2. pc' \in {"clean", "extract", "source", "resource"} /\ (clean /\ pc' \in BuildSteps => pc' = "clean")
  BY DEF Begin, BuildSteps
<1>3. InOrder' /\ RunsUnmarked' /\ HandledSound' /\ InPlace'
  BY <1>1, <1>2 DEF InOrder, RunsUnmarked, HandledSound, InPlace, Handled, pkg
<1>4. QED
  BY <1>1, <1>2, <1>3

LEMMA StartPackageInv == ASSUME BootInv, StartPackage PROVE BootInv'
<1> USE DEF disk, history
<1> DEFINE b == Head(boot.todo)
           place == IF Base THEN "pkg" ELSE "base"
<1>1. /\ boot.todo # <<>> /\ b \in Recipe /\ run' = NewRun(b, boot.clean, place)
      /\ pc' = IF HasVacuole THEN "source" ELSE Begin(boot.clean)
      /\ UNCHANGED <<disk, history, boot, unmerged>>
  BY DEF StartPackage
<1>2. BootTypeOK /\ OfPhase /\ MarksHold
  BY DEF BootInv
<1>3. b \in Package /\ boot.clean \in BOOLEAN
  BY <1>1, <1>2, FirstPackage, BootFields DEF BootTypeOK
<1>4. /\ run' \in Run /\ pkg' = b /\ run'.clean = boot.clean /\ run'.place = place
      /\ pc' \notin {"idle", "next", "merge", "done", "running", "mark", "unpack"}
      /\ InOrder' /\ RunsUnmarked' /\ HandledSound' /\ InPlace'
  BY <1>1, <1>3, Beginning
<1>5. pc' \in {"source", "clean", "extract"} /\ (HasVacuole <=> pc' = "source")
  BY <1>1, RecipeAssumption DEF Begin
<1>6. BootTypeOK'
  BY <1>1, <1>2, <1>4, <1>5 DEF BootTypeOK, TypeOK, BuildSteps, BootSteps
<1>7. OfPackage' /\ WholeFromStart'
  BY <1>1, <1>4, <1>5, RecipeAssumption DEF OfPackage, WholeFromStart, BuildSteps, Base
<1>8. BuildsSound' /\ BuildsInPlace' /\ MarksHold'
  BY <1>1, <1>2, <1>4 DEF BuildsSound, BuildsInPlace, MarksHold, MarkedSound, MarkedPlaced, InSysroot
<1>9. OfPhase' /\ ToolsSoFar' /\ CleanSoFar'
  BY <1>1, <1>4, PhasesKept
<1>10. QED
  BY <1>4, <1>6, <1>7, <1>8, <1>9 DEF BootInv

LEMMA SourceInv == ASSUME BootInv, ExtractSource \/ SourceExtracted PROVE BootInv'
<1> USE DEF disk, history
<1> DEFINE place == IF Base THEN "pkg" ELSE "base"
<1>1. BootTypeOK /\ OfPackage /\ OfPhase /\ MarksHold
  BY DEF BootInv
<1>2. /\ pc \in {"source", "resource"}
      /\ pc' = "resource" \/ (pc' = Begin(run.clean) /\ src' = [src EXCEPT ![pkg] = "whole"])
      /\ UNCHANGED <<marks, placed, prot, named, run, tainted, boot, unmerged>>
  BY DEF ExtractSource, SourceExtracted
<1>3. /\ boot.todo # <<>> /\ pkg = Head(boot.todo) /\ pkg \in Recipe /\ HasVacuole
      /\ run = NewRun(pkg, boot.clean, place) /\ run.clean = boot.clean
  BY <1>1, <1>2 DEF OfPackage, OnPackage
<1>4. pkg \in Package /\ boot.clean \in BOOLEAN
  BY <1>1, <1>3, FirstPackage, BootFields DEF BootTypeOK
<1>5. /\ run' \in Run /\ pkg' = pkg /\ run'.clean = boot.clean /\ run'.place = place
      /\ pc' \notin {"idle", "next", "merge", "done", "running", "mark", "unpack"}
      /\ InOrder' /\ RunsUnmarked' /\ HandledSound' /\ InPlace'
  BY <1>2, <1>3, <1>4, Beginning
<1>6. src' \in [Package -> {"empty", "partial", "whole"}] /\ sound' \in [Package -> SUBSET Phase]
  BY <1>1 DEF ExtractSource, SourceExtracted, BootTypeOK
<1>7. pc' \in {"resource", "clean", "extract"}
  BY <1>2 DEF Begin
<1>8. BootTypeOK'
  BY <1>1, <1>2, <1>5, <1>6, <1>7 DEF BootTypeOK, TypeOK, BuildSteps, BootSteps
<1>9. OfPackage'
  BY <1>2, <1>3, <1>5, <1>7 DEF OfPackage, Base
<1>10. WholeFromStart'
  BY <1>1, <1>2, <1>4, <1>5 DEF WholeFromStart, BootTypeOK, BuildSteps
<1>11. MarksHold'
  <2>1. ASSUME NEW b \in Package, SrcPhases[b] = {} PROVE sound'[b] = sound[b]
    <3>1. sound \in [Package -> SUBSET Phase]
      BY <1>1 DEF BootTypeOK
    <3>2. CASE ExtractSource
      BY <2>1, <3>1, <3>2 DEF ExtractSource
    <3>3. CASE SourceExtracted
      BY <3>3 DEF SourceExtracted
    <3>4. QED
      BY <3>2, <3>3
  <2>2. QED
    BY <1>1, <1>2, <2>1 DEF MarksHold, MarkedSound, MarkedPlaced, InSysroot
<1>12. BuildsSound' /\ BuildsInPlace'
  BY <1>5 DEF BuildsSound, BuildsInPlace
<1>13. OfPhase' /\ ToolsSoFar' /\ CleanSoFar'
  BY <1>2, <1>5, PhasesKept
<1>14. QED
  BY <1>5, <1>8, <1>9, <1>10, <1>11, <1>12, <1>13 DEF BootInv

(* The end of a package: a success has what it should where it should.      *)
LEMMA StartMergeInv == ASSUME BootInv, StartMerge PROVE BootInv'
<1> USE DEF disk, history
<1>1. BootTypeOK /\ OfPackage /\ OfPhase /\ MarksHold /\ TypeOK
  BY DEF BootInv, BootTypeOK, StartMerge, BuildSteps
<1>2. /\ pc = "ended" /\ pc' = "merge" /\ run.ok /\ Base
      /\ placed' = [placed EXCEPT ![pkg] = @ \ {"sysroot"}]
      /\ UNCHANGED <<marks, src, prot, named, run, sound, tainted, boot, unmerged>>
  BY DEF StartMerge
<1>3. /\ boot.todo # <<>> /\ pkg = Head(boot.todo) /\ pkg \in Recipe /\ run \in Run
      /\ run.clean = boot.clean /\ run.place = "pkg" /\ OnPackage
  BY <1>1, <1>2 DEF OfPackage, OnPackage, BuildSteps
<1>4. pkg \in Package /\ pkg \in Range(boot.todo)
  BY <1>1, <1>3, FirstPackage
<1>5. /\ placed' \in [Package -> SUBSET Place]
      /\ \A b \in Package : placed[b] \ {"sysroot"} \subseteq placed'[b]
      /\ \A b \in Package \ {pkg} : placed'[b] = placed[b]
  BY <1>1, <1>2 DEF TypeOK
<1>6. BootTypeOK'
  BY <1>1, <1>2, <1>5 DEF BootTypeOK, BootSteps, BuildSteps
<1>7. /\ OfPackage' /\ OfPhase' /\ WholeFromStart' /\ InOrder' /\ RunsUnmarked'
  BY <1>1, <1>2, <1>3 DEF OfPackage, OfPhase, WholeFromStart, InOrder, RunsUnmarked, BuildSteps, Base, pkg
<1>8. BuildsSound' /\ BuildsInPlace'
  BY <1>2 DEF BuildsSound, BuildsInPlace, HandledSound, InPlace, BuildSteps
<1>9. MarksHold'
  BY <1>1, <1>2, <1>5 DEF MarksHold, MarkedSound, MarkedPlaced, InSysroot
<1>10. ToolsSoFar'
  BY <1>2, <1>5, PackagesAssumption DEF BootInv, ToolsSoFar, InSysroot
<1>11. CleanSoFar'
  <2>1. boot.clean => "pkg" \in placed[pkg]
    BY <1>2, <1>3 DEF BootInv, BuildsInPlace, InPlace, BuildSteps
  <2>2. boot'.clean => "pkg" \in placed'[pkg']
    BY <1>2, <1>4, <1>5, <2>1 DEF pkg
  <2>3. QED
    BY <1>2, <1>4, <1>5, <2>2, PackagesAssumption DEF BootInv, CleanSoFar, InSysroot, Base
<1>12. QED
  BY <1>6, <1>7, <1>8, <1>9, <1>10, <1>11 DEF BootInv

LEMMA PackageEndsInv ==
  ASSUME BootInv, BuildFailed \/ Built \/ Merged \/ MergeFails
  PROVE  BootInv'
<1> USE DEF disk, history
<1>1. /\ BootTypeOK /\ OfPackage /\ OfPhase /\ boot \in Boots /\ unmerged \in BOOLEAN
      /\ placed \in [Package -> SUBSET Place]
  BY DEF BootInv, BootTypeOK
<1>2. pc \in {"ended", "merge"} /\ OnPackage
  BY DEF BuildFailed, Built, Merged, MergeFails, OnPackage, BuildSteps
<1>3. /\ boot.todo # <<>> /\ pkg = Head(boot.todo) /\ pkg \in Recipe
      /\ run.clean = boot.clean /\ run.place = IF Base THEN "pkg" ELSE "base"
      /\ pc = "merge" => Base
  BY <1>1, <1>2 DEF OfPackage
<1>4. pkg \in Package /\ (Base => pkg \in InSysroot)
  BY <1>1, <1>3, FirstPackage
<1>5. CASE BuildFailed
  <2>1. /\ UNCHANGED <<disk, history, unmerged>>
        /\ pc' = IF boot.keep THEN "next" ELSE "done"
        /\ boot' = [boot EXCEPT !.failed = TRUE, !.todo = IF boot.keep THEN Tail(@) ELSE @]
    BY <1>5 DEF BuildFailed, Fail
  <2>2. CASE boot.keep
    BY <1>1, <1>3, <2>1, <2>2, Ending
  <2>3. CASE ~boot.keep
    <3>1. boot' = [boot EXCEPT !.failed = TRUE]
      BY <1>1, <2>1, <2>3 DEF Boots
    <3>2. QED
      BY <1>1, <2>1, <2>3, <3>1, Ending
  <2>4. QED
    BY <2>2, <2>3
<1>6. CASE Built
  <2>1. pc = "ended" /\ run.ok /\ ~Base /\ Advance /\ pc' = "next" /\ UNCHANGED <<disk, history, unmerged>>
    BY <1>6 DEF Built
  <2>2. pkg \notin InSysroot \cup tainted => "base" \in placed[pkg]
    BY <1>2, <1>3, <2>1 DEF BootInv, BuildsInPlace, InPlace, BuildSteps
  <2>3. QED
    BY <1>1, <1>3, <2>1, <2>2, Advancing
<1>7. CASE Merged
  <2>1. /\ pc = "merge" /\ Advance /\ pc' = "next"
        /\ placed' = [placed EXCEPT ![pkg] = @ \cup IF "pkg" \in @ THEN {"sysroot"} ELSE {}]
        /\ UNCHANGED <<marks, src, prot, named, history, unmerged>>
    BY <1>7 DEF Merged
  <2>2. /\ placed' \in [Package -> SUBSET Place]
        /\ \A b \in Package : placed[b] \subseteq placed'[b]
        /\ "pkg" \in placed[pkg] => "sysroot" \in placed'[pkg]
    BY <1>1, <1>4, <2>1 DEF Place
  <2>3. boot.clean => "sysroot" \in placed'[pkg]
    BY <2>1, <2>2 DEF BootInv, CleanSoFar
  <2>4. QED
    BY <1>1, <1>3, <1>4, <2>1, <2>2, <2>3, Advancing
<1>8. CASE MergeFails
  <2>1. pc = "merge" /\ Advance /\ pc' = "next" /\ UNCHANGED <<disk, history>> /\ unmerged' = TRUE
    BY <1>8 DEF MergeFails
  <2>2. QED
    BY <1>1, <1>3, <1>4, <2>1, Advancing
<1>9. QED
  BY <1>5, <1>6, <1>7, <1>8

-----------------------------------------------------------------------------
LEMMA BootInitInv == BootInit => BootInv
<1> SUFFICES ASSUME BootInit PROVE BootInv
  OBVIOUS
<1>1. /\ boot \in Boots /\ boot.left = <<>> /\ boot.todo = <<>> /\ boot.phases = {}
      /\ boot.at \notin BPhase
  BY DEF BootInit, NoBoot, Boots, BPhase
<1>2. BootTypeOK
  BY <1>1 DEF BootInit, Init, BootTypeOK, BuildSteps, BootSteps
<1>3. /\ OfPackage /\ WholeFromStart /\ InOrder /\ RunsUnmarked /\ BuildsSound /\ BuildsInPlace
      /\ MarksHold
  BY DEF BootInit, Init, OfPackage, OnPackage, WholeFromStart, InOrder, RunsUnmarked, BuildsSound,
     BuildsInPlace, MarksHold, MarkedSound, MarkedPlaced, BuildSteps
<1>4. OfPhase /\ ToolsSoFar /\ CleanSoFar
  BY <1>1, EmptyRange DEF BootInit, Init, OfPhase, ToolsSoFar, CleanSoFar
<1>5. QED
  BY <1>2, <1>3, <1>4 DEF BootInv

(* The invariant holds in every state of every bootstrap.                   *)
LEMMA BootInvariance == BootSpec => []BootInv
<1>1. BootInv /\ [BootNext]_vars => BootInv'
  <2> SUFFICES ASSUME BootInv, [BootNext]_vars PROVE BootInv'
    OBVIOUS
  <2>1. ASSUME NEW clean \in BOOLEAN, NEW keep \in BOOLEAN, NEW bp \in BPhase,
               Bootstrap(Phases, clean, keep) \/ Bootstrap(<<bp>>, clean, keep)
        PROVE  BootInv'
    <3>1. Phases \in Seq(BPhase) /\ <<bp>> \in Seq(BPhase)
      BY DEF Phases, BPhase
    <3>2. QED
      BY <2>1, <3>1, BootstrapInv
  <2>2. CASE BeginPhase
    BY <2>2, BeginPhaseInv
  <2>3. CASE NoRecipe \/ SkipComplete \/ ParseFails \/ Abort \/ Finish \/ Report \/ Kill
    BY <2>3, NextInv
  <2>4. CASE StartPackage
    BY <2>4, StartPackageInv
  <2>5. CASE ExtractSource \/ SourceExtracted
    BY <2>5, SourceInv
  <2>6. CASE BuildNext /\ UNCHANGED <<boot, unmerged>>
    BY <2>6, BuildingInv
  <2>7. CASE BuildFailed \/ Built \/ Merged \/ MergeFails
    BY <2>7, PackageEndsInv
  <2>8. CASE StartMerge
    BY <2>8, StartMergeInv
  <2>9. CASE UNCHANGED vars
    BY <2>9 DEF vars, buildVars, BootInv, BootTypeOK, TypeOK, OfPackage, OnPackage, OfPhase,
       WholeFromStart, InOrder, RunsUnmarked, BuildsSound, BuildsInPlace, MarksHold, ToolsSoFar,
       CleanSoFar, HandledSound, InPlace, MarkedSound, MarkedPlaced, Trusted, Handled, Sound, pkg,
       Base, InSysroot
  <2>10. "kernel" \in BPhase
    BY DEF BPhase
  <2>11. QED
    BY <2>1, <2>2, <2>3, <2>4, <2>5, <2>6, <2>7, <2>8, <2>9, <2>10 DEF BootNext
<1>2. QED
  BY <1>1, BootInitInv, PTL DEF BootSpec

(* Every reachable state has the declared types, those of the running build *)
(* included.                                                                *)
THEOREM BootTypeCorrect == BootSpec => []BootTypeOK
<1>1. BootInv => BootTypeOK
  BY DEF BootInv
<1>2. QED
  BY <1>1, BootInvariance, PTL

(* A bootstrap that reports success has every package of its toolchain,     *)
(* tools and kernel phases in the base, whatever happened to earlier runs.  *)
THEOREM ToolsInstalledTheorem == BootSpec => []ToolsInstalled
<1>1. BootInv => ToolsInstalled
  <2> SUFFICES ASSUME BootInv, NEW bp \in BPhase \ {"base-system"}, Success(bp),
                      NEW b \in (Range(Packages[bp]) \cap Recipe) \ (InSysroot \cup tainted)
               PROVE  "base" \in placed[b]
    BY DEF ToolsInstalled
  <2>1. boot.left = <<>> /\ boot.todo = <<>> /\ ~boot.failed /\ bp \in boot.phases
    BY DEF BootInv, OfPhase, Success
  <2>2. QED
    BY <2>1, EmptyRange DEF BootInv, ToolsSoFar
<1>2. QED
  BY <1>1, BootInvariance, PTL

(* A bootstrap --clean that reports success has merged every package of     *)
(* base-system, if no merge failed.                                         *)
THEOREM CleanInstallsTheorem == BootSpec => []CleanInstalls
<1>1. BootInv => CleanInstalls
  <2> SUFFICES ASSUME BootInv, Success("base-system"), boot.clean, ~unmerged,
                      NEW b \in InSysroot \cap Recipe
               PROVE  "sysroot" \in placed[b]
    BY DEF CleanInstalls
  <2>1. boot.left = <<>> /\ boot.todo = <<>> /\ ~boot.failed /\ "base-system" \in boot.phases
    BY DEF BootInv, OfPhase, Success
  <2>2. QED
    BY <2>1, EmptyRange DEF BootInv, CleanSoFar
<1>2. QED
  BY <1>1, BootInvariance, PTL

(* A build that bootstrap resumes ends with what an uninterrupted one       *)
(* makes, of a recipe that leaves nothing in SRCDIR.                        *)
THEOREM BuiltSoundTheorem == BootSpec => []BuiltSound
<1>1. BootInv => BuiltSound
  BY DEF BootInv, BuildsSound, HandledSound, Trusted, BuiltSound, OnPackage, BuildSteps
<1>2. QED
  BY <1>1, BootInvariance, PTL

(* No phase of a bootstrap runs without the whole sources.  (Without a      *)
(* vacuole there are none: bootstrap then goes on with what is there.)      *)
THEOREM SourcesWholeTheorem == ASSUME HasVacuole PROVE BootSpec => SourcesWhole
<1>1. BootInv /\ [BootNext]_vars => [\A ph \in Phase : RunPhase(ph) => src[pkg] = "whole"]_vars
  BY DEF RunPhase, BootInv, WholeFromStart, BuildSteps
<1>2. QED
  BY <1>1, BootInvariance, PTL DEF BootSpec, SourcesWhole
=============================================================================
