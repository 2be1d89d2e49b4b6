---------------------------- MODULE BuilderProofs ----------------------------
(***************************************************************************)
(* Theorems about Builder, for any packages and recipes.                   *)
(***************************************************************************)
EXTENDS Builder, TLAPS

(* What the running build made is trusted: nothing went wrong with its      *)
(* package, or it runs every script anew over whole sources.                *)
Trusted == pkg \notin tainted \/ (run.clean /\ src[pkg] = "whole")

(* The phases that the running build has behind it.                         *)
Handled == {ph \in Scripts[pkg] : ph \notin run.todo /\ (pc = "running" => ph # run.phase)}

(* How a build goes through its scripts: in order, and successfully only to *)
(* the end.                                                                 *)
InOrder == pc \in BuildSteps =>
    /\ run.todo \subseteq Scripts[pkg]
    /\ pc \in {"clean", "extract", "unpack"} => run.todo = Scripts[pkg]
    /\ pc \in {"running", "mark"} => /\ run.phase \notin run.todo
                                     /\ Before(run.phase) \cap run.todo = {}
    /\ pc \in {"pack", "store"} => run.place = "pkg"
    /\ run.ok => pc = "ended"

(* What it has behind it is sound, and when it packs everything is.         *)
HandledSound == pc \in BuildSteps /\ Trusted =>
    /\ pc # "ended" => Handled \subseteq sound[pkg]
    /\ pc \in {"pack", "store"} \/ run.ok => Sound(pkg)

(* A script runs over whole sources, and no marker stands for what it is    *)
(* about to overwrite.                                                      *)
RunsUnmarked == pc \in BuildSteps /\ pkg \notin tainted =>
    /\ pc = "running" => src[pkg] = "whole"
    /\ pc \in {"running", "mark"} => run.phase \notin marks[pkg]
    /\ run.clean /\ pc # "clean" => marks[pkg] \cap run.todo = {}

(* What it has installed is in place.                                       *)
InPlace ==
    /\ pc \in BuildSteps /\ (run.clean \/ pkg \notin tainted)
    /\ \/ pc # "ended" /\ "install" \in Handled
       \/ pc \in {"pack", "store"}
       \/ run.ok
    => run.place \in placed[pkg]

(* A marker is only there for work that is sound ...                        *)
MarkedSound(b) == b \notin tainted => marks[b] \subseteq sound[b]

(* ... and, that of install, for what is in place.                          *)
MarkedPlaced(b, place) == b \notin tainted /\ "install" \in marks[b] => place \in placed[b]

IInv == /\ TypeOK /\ InOrder /\ RunsUnmarked /\ HandledSound /\ InPlace
        /\ pc # "idle" => run.place = "pkg"
        /\ \A b \in Package : MarkedSound(b) /\ MarkedPlaced(b, "pkg")
        /\ PackagesSound

-----------------------------------------------------------------------------
(* The phases, and the ones before a phase, which are all before the next.  *)
LEMMA PhaseFacts ==
    /\ Phase = {"prepare", "compile", "check", "install"}
    /\ \A ph \in Phase : Before(ph) \subseteq Phase \ {ph, "install"}
    /\ \A ph, q \in Phase : q \in Before(ph) => Before(q) \subseteq Before(ph)
<1>1. Phase = {"prepare", "compile", "check", "install"}
  BY DEF Phase, Rank
<1>2. /\ Before("prepare") = {}
      /\ Before("compile") = {"prepare"}
      /\ Before("check") = {"prepare", "compile"}
      /\ Before("install") = {"prepare", "compile", "check"}
  BY <1>1 DEF Before, Rank
<1>3. QED
  BY <1>1, <1>2

(* The steps of a build belong to a build.                                  *)
LEMMA Building ==
  ASSUME TypeOK, BuildNext
  PROVE  /\ pc \in BuildSteps /\ run \in Run /\ pkg \in Package
         /\ run.todo \subseteq Phase /\ run.ok \in BOOLEAN
<1>1. pc \in BuildSteps /\ pc # "idle"
  BY DEF BuildSteps, BuildNext, CleanMarker, RunPhase, Cleaned, SkipExtract, Extract, Unpacked,
     ExtractFails, PhaseDone, Mark, MarkFails, PhaseFails, AllDone, Pack, PackFails, Store, StoreFails
<1>2. QED
  BY <1>1 DEF TypeOK, Run, pkg

(* They keep it going, on the same package.                                 *)
LEMMA BuildGoesOn ==
  ASSUME TypeOK, BuildNext
  PROVE  /\ pc' \in BuildSteps
         /\ run'.pkg = run.pkg /\ run'.clean = run.clean /\ run'.place = run.place
         /\ \A b \in Package \ {pkg} :
               /\ marks'[b] = marks[b] /\ placed'[b] = placed[b] /\ sound'[b] = sound[b]
               /\ src'[b] = src[b]
         /\ tainted \subseteq tainted'
<1> USE DEF disk, history, TypeOK, BuildSteps
<1>1. run \in Run
  BY Building
<1>2. ASSUME NEW ph \in Phase, CleanMarker(ph) PROVE UNCHANGED run
  BY <1>2 DEF CleanMarker
<1>3. ASSUME NEW ph \in Phase, RunPhase(ph)
      PROVE  run'.pkg = run.pkg /\ run'.clean = run.clean /\ run'.place = run.place
  BY <1>1, <1>3 DEF RunPhase, Run
<1>4. ASSUME PhaseFails \/ AllDone \/ PackFails \/ Store \/ StoreFails
      PROVE  run'.pkg = run.pkg /\ run'.clean = run.clean /\ run'.place = run.place
  BY <1>1, <1>4 DEF PhaseFails, AllDone, PackFails, Store, StoreFails, Ends, Run
<1>5. ASSUME Cleaned \/ SkipExtract \/ Extract \/ Unpacked \/ ExtractFails \/ PhaseDone
             \/ Mark \/ MarkFails \/ Pack
      PROVE  UNCHANGED run
  BY <1>5 DEF Cleaned, SkipExtract, Extract, Unpacked, ExtractFails, PhaseDone, Mark, MarkFails, Pack
<1>6. /\ \A b \in Package \ {pkg} :
            /\ marks'[b] = marks[b] /\ placed'[b] = placed[b] /\ sound'[b] = sound[b]
            /\ src'[b] = src[b]
      /\ tainted \subseteq tainted' /\ pc' \in BuildSteps
  <2>1. ASSUME NEW ph \in Phase, CleanMarker(ph) \/ RunPhase(ph)
        PROVE  /\ \A b \in Package \ {pkg} :
                     /\ marks'[b] = marks[b] /\ placed'[b] = placed[b] /\ sound'[b] = sound[b]
                     /\ src'[b] = src[b]
               /\ tainted \subseteq tainted' /\ pc' \in BuildSteps
    BY <2>1 DEF CleanMarker, RunPhase
  <2>2. CASE \/ Cleaned \/ SkipExtract \/ Extract \/ Unpacked \/ ExtractFails \/ PhaseDone
             \/ Mark \/ MarkFails
    BY <2>2 DEF Cleaned, SkipExtract, Extract, Unpacked, ExtractFails, PhaseDone, Mark, MarkFails
  <2>3. CASE PhaseFails \/ AllDone \/ Pack \/ PackFails \/ Store \/ StoreFails
    BY <2>3 DEF PhaseFails, AllDone, Pack, PackFails, Store, StoreFails, Ends
  <2>4. QED
    BY <2>1, <2>2, <2>3 DEF BuildNext
<1>7. QED
  BY <1>2, <1>3, <1>4, <1>5, <1>6 DEF BuildNext

(* They keep the types.                                                     *)
LEMMA TypeBuild == ASSUME TypeOK, InOrder, BuildNext PROVE TypeOK'
<1> USE DEF TypeOK, disk, history, BuildSteps, pkg
<1>1. run \in Run /\ pkg \in Package /\ pc # "idle"
  BY Building
<1>2. ASSUME NEW ph \in Phase, CleanMarker(ph) PROVE TypeOK'
  BY <1>1, <1>2 DEF CleanMarker
<1>3. ASSUME NEW ph \in Phase, RunPhase(ph) PROVE TypeOK'
  <2>1. run' = [run EXCEPT !.phase = ph, !.todo = run.todo \ (Before(ph) \cup {ph})]
    BY <1>3 DEF RunPhase
  <2>2. run' \in Run /\ run'.pkg = pkg /\ run'.phase = ph
    BY <1>1, <2>1 DEF Run
  <2>3. ph \in Scripts[pkg]
    BY <1>1, <1>3 DEF RunPhase, Needed, InOrder
  <2>4. placed' \in [Package -> SUBSET Place]
    BY <1>1, <1>3 DEF RunPhase
  <2>5. sound' \in [Package -> SUBSET Phase] /\ tainted' \subseteq Package
    BY <1>1, <1>3 DEF RunPhase
  <2>6. pc' = "running" /\ UNCHANGED <<marks, src, prot, named>>
    BY <1>3 DEF RunPhase
  <2>7. QED
    BY <2>2, <2>3, <2>4, <2>5, <2>6
<1>4. CASE PhaseDone
  <2>1. placed' \in [Package -> SUBSET Place]
    BY <1>1, <1>4 DEF PhaseDone, Place, Run
  <2>2. run.phase \in Phase
    BY <1>1, <1>4, RecipeAssumption DEF PhaseDone
  <2>3. sound' \in [Package -> SUBSET Phase]
    BY <1>1, <1>4, <2>2 DEF PhaseDone
  <2>4. QED
    BY <1>1, <1>4, <2>1, <2>3 DEF PhaseDone
<1>5. CASE Mark
  <2>1. run.phase \in Phase
    BY <1>1, <1>5, RecipeAssumption DEF Mark
  <2>2. QED
    BY <1>1, <1>5, <2>1 DEF Mark
<1>6. CASE Cleaned \/ SkipExtract \/ Extract \/ Unpacked \/ ExtractFails \/ MarkFails
  BY <1>1, <1>6 DEF Cleaned, SkipExtract, Extract, Unpacked, ExtractFails, MarkFails
<1>7. CASE Pack \/ Store
  <2>1. CASE Pack
    BY <1>1, <2>1 DEF Pack
  <2>2. CASE Store
    <3>1. run' \in Run
      BY <1>1, <2>2 DEF Store, Ends, Run
    <3>2. QED
      BY <1>1, <2>2, <3>1 DEF Store, Ends
  <2>3. QED
    BY <1>7, <2>1, <2>2
<1>8. CASE PhaseFails \/ PackFails \/ StoreFails \/ AllDone
  BY <1>1, <1>8 DEF PhaseFails, PackFails, StoreFails, AllDone, Ends, Run
<1>9. QED
  BY <1>2, <1>3, <1>4, <1>5, <1>6, <1>7, <1>8 DEF BuildNext

(* They keep the order of the scripts.                                      *)
LEMMA OrderBuild == ASSUME TypeOK, InOrder, BuildNext PROVE InOrder'
<1> USE PhaseFacts, RecipeAssumption DEF disk, history, pkg, InOrder, BuildSteps
<1>1. pc \in BuildSteps /\ run \in Run /\ pkg \in Package /\ run.todo \subseteq Phase /\ run.ok \in BOOLEAN
  BY Building
<1>2. ASSUME NEW ph \in Phase, CleanMarker(ph) PROVE InOrder'
  BY <1>1, <1>2 DEF CleanMarker
<1>3. ASSUME NEW ph \in Phase, RunPhase(ph) PROVE InOrder'
  <2>1. /\ run'.pkg = run.pkg /\ run'.ok = run.ok
        /\ run'.phase = ph /\ run'.todo = run.todo \ (Before(ph) \cup {ph})
    BY <1>1, <1>3 DEF RunPhase, Run
  <2>2. pc = "phase" /\ pc' = "running"
    BY <1>3 DEF RunPhase
  <2>3. QED
    BY <1>1, <2>1, <2>2
<1>4. CASE Cleaned \/ SkipExtract \/ Extract \/ Unpacked \/ ExtractFails \/ MarkFails
  BY <1>1, <1>4 DEF Cleaned, SkipExtract, Extract, Unpacked, ExtractFails, MarkFails
<1>5. CASE PhaseDone \/ Mark \/ Pack
  BY <1>1, <1>5 DEF PhaseDone, Mark, Pack
<1>6. CASE PhaseFails \/ PackFails \/ Store \/ StoreFails
  BY <1>1, <1>6 DEF PhaseFails, PackFails, Store, StoreFails, Ends, Run
<1>7. CASE AllDone
  BY <1>1, <1>7 DEF AllDone, Needed, Ends, Run
<1>8. QED
  BY <1>2, <1>3, <1>4, <1>5, <1>6, <1>7 DEF BuildNext

(* Scripts overwrite nothing that is marked.                                *)
LEMMA UnmarkedBuild == ASSUME TypeOK, InOrder, RunsUnmarked, BuildNext PROVE RunsUnmarked'
<1> USE PhaseFacts, RecipeAssumption DEF disk, history, pkg, InOrder, RunsUnmarked, BuildSteps
<1>1. pc \in BuildSteps /\ run \in Run /\ pkg \in Package /\ run.todo \subseteq Phase /\ run.ok \in BOOLEAN
  BY Building
<1>2. ASSUME NEW ph \in Phase, CleanMarker(ph) PROVE RunsUnmarked'
  BY <1>1, <1>2 DEF CleanMarker
<1>3. ASSUME NEW ph \in Phase, RunPhase(ph) PROVE RunsUnmarked'
  <2>1. /\ run'.pkg = run.pkg /\ run'.clean = run.clean /\ run'.phase = ph
        /\ run'.todo = run.todo \ (Before(ph) \cup {ph})
    BY <1>1, <1>3 DEF RunPhase, Run
  <2>2. /\ pc = "phase" /\ pc' = "running"
        /\ ph \in run.todo /\ (run.clean \/ ph \notin marks[pkg])
        /\ UNCHANGED <<marks, src>>
        /\ pkg' \notin tainted' => pkg \notin tainted /\ src[pkg] = "whole"
    BY <1>3, <2>1 DEF RunPhase, Needed
  <2>3. QED
    BY <1>1, <2>1, <2>2
<1>4. CASE Cleaned
  BY <1>1, <1>4 DEF Cleaned, TypeOK
<1>5. CASE SkipExtract \/ Extract \/ Unpacked \/ ExtractFails \/ MarkFails
  BY <1>1, <1>5 DEF SkipExtract, Extract, Unpacked, ExtractFails, MarkFails
<1>6. CASE PhaseDone
  BY <1>1, <1>6 DEF PhaseDone
<1>7. CASE Mark
  BY <1>1, <1>7 DEF Mark, TypeOK
<1>8. CASE PhaseFails \/ PackFails \/ Store \/ StoreFails \/ AllDone \/ Pack
  BY <1>1, <1>8 DEF PhaseFails, PackFails, Store, StoreFails, AllDone, Pack, Ends, Run
<1>9. QED
  BY <1>2, <1>3, <1>4, <1>5, <1>6, <1>7, <1>8 DEF BuildNext

(* What the build has behind it stays sound, if the markers it met were.    *)
LEMMA HandledBuild ==
  ASSUME TypeOK, InOrder, RunsUnmarked, HandledSound, MarkedSound(pkg), BuildNext
  PROVE  HandledSound'
<1> USE PhaseFacts, RecipeAssumption
        DEF disk, history, pkg, InOrder, Trusted, Handled, Sound, HandledSound, BuildSteps
<1>1. pc \in BuildSteps /\ run \in Run /\ pkg \in Package /\ run.todo \subseteq Phase /\ run.ok \in BOOLEAN
  BY Building
<1>2. ASSUME NEW ph \in Phase, CleanMarker(ph) PROVE HandledSound'
  BY <1>1, <1>2 DEF CleanMarker
<1>3. ASSUME NEW ph \in Phase, RunPhase(ph) PROVE HandledSound'
  <2>1. /\ run'.pkg = run.pkg /\ run'.clean = run.clean /\ run'.ok = run.ok
        /\ run'.phase = ph /\ run'.todo = run.todo \ (Before(ph) \cup {ph})
    BY <1>1, <1>3 DEF RunPhase, Run
  <2>2. pc = "phase" /\ pc' = "running" /\ pkg' = pkg
    BY <1>3, <2>1 DEF RunPhase
  <2>3. ph \in Needed /\ Before(ph) \cap Needed = {}
    BY <1>3 DEF RunPhase
  <2>4. /\ sound' = [sound EXCEPT ![pkg] = @ \ {ph}]
        /\ UNCHANGED <<marks, src>>
        /\ pkg \notin tainted' => pkg \notin tainted /\ src[pkg] = "whole"
        /\ tainted \subseteq tainted'
    BY <1>3 DEF RunPhase
  <2>5. QED
    BY <1>1, <2>1, <2>2, <2>3, <2>4 DEF TypeOK, MarkedSound, RunsUnmarked, Needed
<1>4. CASE Cleaned
  BY <1>1, <1>4 DEF Cleaned
<1>5. CASE Extract \/ Unpacked
  BY <1>1, <1>5 DEF Extract, Unpacked
<1>6. CASE SkipExtract \/ ExtractFails \/ MarkFails
  BY <1>1, <1>6 DEF SkipExtract, ExtractFails, MarkFails
<1>7. CASE PhaseDone
  BY <1>1, <1>7 DEF PhaseDone, TypeOK, RunsUnmarked
<1>8. CASE Mark \/ Pack
  BY <1>1, <1>8 DEF Mark, Pack
<1>9. CASE PhaseFails \/ PackFails
  BY <1>1, <1>9 DEF PhaseFails, PackFails, Ends, Run
<1>10. CASE AllDone
  BY <1>1, <1>10 DEF AllDone, Needed, Ends, Run, TypeOK, MarkedSound, RunsUnmarked
<1>11. CASE Store \/ StoreFails
  BY <1>1, <1>11 DEF Store, StoreFails, Ends, Run
<1>12. QED
  BY <1>2, <1>3, <1>4, <1>5, <1>6, <1>7, <1>8, <1>9, <1>10, <1>11 DEF BuildNext

(* What is installed stays in place, if the markers it met were right or    *)
(* every script runs anew.                                                  *)
LEMMA InPlaceBuild ==
  ASSUME TypeOK, InOrder, RunsUnmarked, InPlace,
         run.clean \/ MarkedPlaced(pkg, run.place), BuildNext
  PROVE  InPlace'
<1> USE PhaseFacts, RecipeAssumption DEF disk, history, pkg, InOrder, Handled, InPlace, BuildSteps
<1>1. pc \in BuildSteps /\ run \in Run /\ pkg \in Package /\ run.todo \subseteq Phase /\ run.ok \in BOOLEAN
  BY Building
<1>2. ASSUME NEW ph \in Phase, CleanMarker(ph) PROVE InPlace'
  BY <1>1, <1>2 DEF CleanMarker
<1>3. ASSUME NEW ph \in Phase, RunPhase(ph) PROVE InPlace'
  <2>1. /\ run'.pkg = run.pkg /\ run'.clean = run.clean /\ run'.place = run.place
        /\ run'.phase = ph /\ run'.todo = run.todo \ (Before(ph) \cup {ph}) /\ run'.ok = run.ok
    BY <1>1, <1>3 DEF RunPhase, Run
  <2>2. /\ pc = "phase" /\ pc' = "running"
        /\ ph \in run.todo
        /\ pkg' \notin tainted' => pkg \notin tainted
    BY <1>3, <2>1 DEF RunPhase, Needed
  <2>3. ASSUME "install" \in Handled', run'.clean \/ pkg' \notin tainted'
        PROVE  run'.place \in placed'[pkg]
    <3>1. ph # "install" /\ "install" \in Handled
      BY <2>1, <2>2, <2>3
    <3>2. placed' = placed /\ (run.clean \/ pkg \notin tainted)
      BY <1>3, <2>1, <2>2, <2>3, <3>1 DEF RunPhase
    <3>3. QED
      BY <2>1, <2>2, <3>1, <3>2
  <2>4. QED
    BY <2>1, <2>2, <2>3
<1>4. CASE Cleaned
  BY <1>1, <1>4 DEF Cleaned
<1>5. CASE SkipExtract \/ Extract \/ Unpacked \/ ExtractFails \/ MarkFails
  BY <1>1, <1>5 DEF SkipExtract, Extract, Unpacked, ExtractFails, MarkFails
<1>6. CASE PhaseDone
  BY <1>1, <1>6 DEF PhaseDone, TypeOK
<1>7. CASE Mark \/ Pack
  BY <1>1, <1>7 DEF Mark, Pack
<1>8. CASE PhaseFails \/ PackFails
  BY <1>1, <1>8 DEF PhaseFails, PackFails, Ends, Run
<1>9. CASE AllDone
  <2>1. /\ run'.pkg = run.pkg /\ run'.clean = run.clean /\ run'.place = run.place
        /\ run'.todo = run.todo
        /\ pc = "phase" /\ UNCHANGED <<placed, tainted>> /\ Needed = {}
    BY <1>1, <1>9 DEF AllDone, Ends, Run
  <2>2. run.clean \/ pkg \notin tainted => run.place \in placed[pkg]
    <3>1. "install" \in Scripts[pkg]
      BY <1>1
    <3>2. CASE "install" \in run.todo
      BY <2>1, <3>2 DEF Needed, MarkedPlaced
    <3>3. CASE "install" \notin run.todo
      BY <1>1, <2>1, <3>1, <3>3
    <3>4. QED
      BY <3>2, <3>3
  <2>3. QED
    BY <2>1, <2>2
<1>10. CASE Store \/ StoreFails
  BY <1>1, <1>10 DEF Store, StoreFails, Ends, Run
<1>11. QED
  BY <1>2, <1>3, <1>4, <1>5, <1>6, <1>7, <1>8, <1>9, <1>10 DEF BuildNext

(* Markers stay true.                                                       *)
LEMMA MarkedSoundBuild ==
  ASSUME TypeOK, InOrder, RunsUnmarked, HandledSound, BuildNext, NEW b \in Package, MarkedSound(b)
  PROVE  MarkedSound(b)'
<1> USE PhaseFacts, RecipeAssumption DEF disk, history, pkg, MarkedSound, BuildSteps
<1>1. pc \in BuildSteps /\ run \in Run /\ pkg \in Package /\ run.todo \subseteq Phase /\ run.ok \in BOOLEAN
  BY Building
<1>2. ASSUME NEW ph \in Phase, CleanMarker(ph) PROVE MarkedSound(b)'
  BY <1>1, <1>2 DEF CleanMarker
<1>3. ASSUME NEW ph \in Phase, RunPhase(ph) PROVE MarkedSound(b)'
  BY <1>1, <1>3 DEF RunPhase, Needed, TypeOK, RunsUnmarked
<1>4. CASE Cleaned \/ SkipExtract \/ Extract \/ Unpacked \/ ExtractFails \/ MarkFails
  BY <1>1, <1>4 DEF Cleaned, SkipExtract, Extract, Unpacked, ExtractFails, MarkFails
<1>5. CASE PhaseDone
  BY <1>1, <1>5 DEF PhaseDone, TypeOK
<1>6. CASE Mark
  BY <1>1, <1>6 DEF Mark, TypeOK, InOrder, HandledSound, RunsUnmarked, Trusted, Handled
<1>7. CASE PhaseFails \/ PackFails \/ AllDone \/ Pack \/ Store \/ StoreFails
  BY <1>1, <1>7 DEF PhaseFails, PackFails, AllDone, Pack, Store, StoreFails, Ends
<1>8. QED
  BY <1>2, <1>3, <1>4, <1>5, <1>6, <1>7 DEF BuildNext

LEMMA MarkedPlacedBuild ==
  ASSUME TypeOK, InOrder, RunsUnmarked, InPlace, BuildNext, NEW b \in Package, NEW place,
         b = pkg => run.place = place,
         MarkedPlaced(b, place)
  PROVE  MarkedPlaced(b, place)'
<1> USE PhaseFacts, RecipeAssumption DEF disk, history, pkg, MarkedPlaced, BuildSteps
<1>1. pc \in BuildSteps /\ run \in Run /\ pkg \in Package /\ run.todo \subseteq Phase /\ run.ok \in BOOLEAN
  BY Building
<1>2. ASSUME NEW ph \in Phase, CleanMarker(ph) PROVE MarkedPlaced(b, place)'
  BY <1>1, <1>2 DEF CleanMarker
<1>3. ASSUME NEW ph \in Phase, RunPhase(ph) PROVE MarkedPlaced(b, place)'
  BY <1>1, <1>3 DEF RunPhase, Needed, TypeOK, RunsUnmarked
<1>4. CASE Cleaned \/ SkipExtract \/ Extract \/ Unpacked \/ ExtractFails \/ MarkFails
  BY <1>1, <1>4 DEF Cleaned, SkipExtract, Extract, Unpacked, ExtractFails, MarkFails
<1>5. CASE PhaseDone
  BY <1>1, <1>5 DEF PhaseDone, TypeOK
<1>6. CASE Mark
  BY <1>1, <1>6 DEF Mark, TypeOK, InOrder, InPlace, RunsUnmarked, Handled
<1>7. CASE PhaseFails \/ PackFails \/ AllDone \/ Pack \/ Store \/ StoreFails
  BY <1>1, <1>7 DEF PhaseFails, PackFails, AllDone, Pack, Store, StoreFails, Ends
<1>8. QED
  BY <1>2, <1>3, <1>4, <1>5, <1>6, <1>7 DEF BuildNext

(* Only sound packages are made and named.                                  *)
LEMMA PackagesBuild ==
  ASSUME TypeOK, InOrder, HandledSound, InPlace, PackagesSound, BuildNext
  PROVE  PackagesSound'
<1> USE PhaseFacts, RecipeAssumption DEF disk, history, pkg, PackagesSound, BuildSteps
<1>1. pc \in BuildSteps /\ run \in Run /\ pkg \in Package /\ run.todo \subseteq Phase /\ run.ok \in BOOLEAN
  BY Building
<1>2. ASSUME NEW ph \in Phase, CleanMarker(ph) \/ RunPhase(ph) PROVE PackagesSound'
  BY <1>1, <1>2 DEF CleanMarker, RunPhase
<1>3. CASE Cleaned \/ SkipExtract \/ Extract \/ Unpacked \/ ExtractFails \/ MarkFails
  BY <1>1, <1>3 DEF Cleaned, SkipExtract, Extract, Unpacked, ExtractFails, MarkFails
<1>4. CASE PhaseDone \/ Mark
  BY <1>1, <1>4 DEF PhaseDone, Mark
<1>5. CASE Pack
  BY <1>1, <1>5 DEF Pack, TypeOK, InOrder, HandledSound, InPlace, Trusted
<1>6. CASE PhaseFails \/ PackFails \/ AllDone \/ StoreFails
  BY <1>1, <1>6 DEF PhaseFails, PackFails, AllDone, StoreFails, Ends
<1>7. CASE Store
  BY <1>1, <1>7 DEF Store, Ends, TypeOK
<1>8. QED
  BY <1>2, <1>3, <1>4, <1>5, <1>6, <1>7 DEF BuildNext

-----------------------------------------------------------------------------
(* ribosome build: one build after another, and edits between them.         *)
LEMMA InitInv == Init => IInv
<1> SUFFICES ASSUME Init PROVE IInv
  OBVIOUS
<1>1. TypeOK
  BY DEF Init, TypeOK, NoRun, Run
<1>2. InOrder /\ RunsUnmarked /\ HandledSound /\ InPlace
  BY DEF Init, InOrder, RunsUnmarked, HandledSound, InPlace, BuildSteps
<1>3. /\ \A b \in Package : MarkedSound(b) /\ MarkedPlaced(b, "pkg")
      /\ PackagesSound
  BY DEF Init, MarkedSound, MarkedPlaced, PackagesSound
<1>4. QED
  BY <1>1, <1>2, <1>3 DEF IInv, Init

LEMMA StartInv ==
  ASSUME IInv, NEW b \in Package, NEW clean \in BOOLEAN, Build(b, clean)
  PROVE  IInv'
<1> USE PhaseFacts, RecipeAssumption DEF disk, history, pkg, BuildSteps, IInv
<1>1. /\ pc' = Begin(clean) /\ run' = NewRun(b, clean, "pkg") /\ run' \in Run
      /\ run'.pkg = b /\ run'.clean = clean /\ run'.todo = Scripts[b] /\ run'.place = "pkg"
      /\ run'.ok = FALSE
      /\ UNCHANGED <<disk, history>>
  BY DEF Build, NewRun, Run
<1>2. pc' \in {"clean", "extract"} /\ (clean => pc' = "clean")
  BY <1>1 DEF Begin
<1>3. TypeOK'
  BY <1>1, <1>2 DEF TypeOK
<1>4. InOrder' /\ RunsUnmarked'
  BY <1>1, <1>2 DEF InOrder, RunsUnmarked
<1>5. HandledSound' /\ InPlace'
  BY <1>1, <1>2 DEF HandledSound, InPlace, Handled
<1>6. /\ \A a \in Package : MarkedSound(a)' /\ MarkedPlaced(a, "pkg")'
      /\ PackagesSound'
  BY <1>1 DEF MarkedSound, MarkedPlaced, PackagesSound
<1>7. QED
  BY <1>1, <1>3, <1>4, <1>5, <1>6 DEF MarkedSound, MarkedPlaced

\* No build is running after the step.
LEMMA RestInv ==
  ASSUME IInv, NEW b \in Package, NEW ph \in Phase, Edit(b, ph) \/ Exit \/ Stop
  PROVE  IInv'
<1> USE PhaseFacts, RecipeAssumption DEF disk, history, BuildSteps, IInv
<1>1. pc' = "idle" /\ UNCHANGED <<marks, src, placed, prot, named>> /\ tainted \subseteq tainted'
  BY DEF Edit, Exit, Stop
<1>2. TypeOK'
  BY DEF Edit, Exit, Stop, TypeOK
<1>3. InOrder' /\ RunsUnmarked' /\ HandledSound' /\ InPlace'
  BY <1>1 DEF InOrder, RunsUnmarked, HandledSound, InPlace
<1>4. /\ \A a \in Package : MarkedPlaced(a, "pkg")'
      /\ PackagesSound'
  BY <1>1 DEF MarkedPlaced, PackagesSound
<1>5. \A a \in Package : MarkedSound(a)'
  BY <1>1 DEF MarkedSound, Edit, Exit, Stop, TypeOK
<1>6. QED
  BY <1>1, <1>2, <1>3, <1>4, <1>5 DEF MarkedSound, MarkedPlaced

LEMMA BuildInv == ASSUME IInv, BuildNext PROVE IInv'
<1>1. pc # "idle" /\ pkg \in Package /\ pc' \in BuildSteps /\ run'.place = "pkg"
  BY Building, BuildGoesOn DEF IInv, BuildSteps
<1>2. TypeOK' /\ InOrder' /\ RunsUnmarked'
  BY TypeBuild, OrderBuild, UnmarkedBuild DEF IInv
<1>3. HandledSound' /\ InPlace'
  BY <1>1, HandledBuild, InPlaceBuild DEF IInv
<1>4. \A b \in Package : MarkedSound(b)' /\ MarkedPlaced(b, "pkg")'
  BY <1>1, MarkedSoundBuild, MarkedPlacedBuild DEF IInv
<1>5. PackagesSound'
  BY PackagesBuild DEF IInv
<1>6. QED
  BY <1>1, <1>2, <1>3, <1>4, <1>5 DEF IInv, MarkedSound, MarkedPlaced

(* The invariant holds in every state of every run of Builder.              *)
LEMMA Invariance == Spec => []IInv
<1>1. IInv /\ [Next]_buildVars => IInv'
  <2> SUFFICES ASSUME IInv, [Next]_buildVars PROVE IInv'
    OBVIOUS
  <2>1. ASSUME NEW b \in Package, NEW clean \in BOOLEAN, Build(b, clean) PROVE IInv'
    BY <2>1, StartInv
  <2>2. ASSUME NEW b \in Package, NEW ph \in Phase, Edit(b, ph) PROVE IInv'
    BY <2>2, RestInv
  <2>3. CASE BuildNext
    BY <2>3, BuildInv
  <2>4. CASE Exit \/ Stop
    <3>1. PICK b \in Package : TRUE
      BY <2>4 DEF Exit, Stop, IInv, TypeOK, Run
    <3>2. QED
      BY <2>4, <3>1, PhaseFacts, RestInv
  <2>5. CASE UNCHANGED buildVars
    BY <2>5 DEF buildVars, IInv, TypeOK, InOrder, RunsUnmarked, HandledSound, InPlace, MarkedSound,
       MarkedPlaced, PackagesSound, Trusted, Handled, Sound, pkg
  <2>6. QED
    BY <2>1, <2>2, <2>3, <2>4, <2>5 DEF Next
<1>2. QED
  BY <1>1, InitInv, PTL DEF Spec

(* Every reachable state has the declared types.                            *)
THEOREM TypeCorrect == Spec => []TypeOK
<1>1. IInv => TypeOK
  BY DEF IInv
<1>2. QED
  BY <1>1, Invariance, PTL

(* A package that ribosome made or named through any sequence of builds,    *)
(* kills and failures is the one an uninterrupted build makes, for packages *)
(* whose markers and sources did not go wrong.                              *)
THEOREM PackagesSoundCorrect == Spec => []PackagesSound
<1>1. IInv => PackagesSound
  BY DEF IInv
<1>2. QED
  BY <1>1, Invariance, PTL

(* A build with --clean over whole sources is sound, whatever was there.    *)
THEOREM CleanSoundCorrect == Spec => []CleanSound
<1>1. IInv => CleanSound
  BY DEF IInv, HandledSound, Trusted, CleanSound, BuildSteps
<1>2. QED
  BY <1>1, Invariance, PTL
=============================================================================
