------------------------------ MODULE Builder ------------------------------
(***************************************************************************)
(* ribosome build: BuildExecutor::build of ribosome-core, over the build   *)
(* directory of each package.  Sources are extracted, the scripts of the   *)
(* recipe's phases run in order, each leaves a marker, and what they       *)
(* installed is packed and stored in the vacuole.  ribosome may be killed  *)
(* between any two steps, or meet an error; a later build resumes from the *)
(* markers.  One ribosome at a time uses a build directory.                *)
(***************************************************************************)
EXTENDS Naturals

Rank == [prepare |-> 1, compile |-> 2, check |-> 3, install |-> 4]
Phase == DOMAIN Rank
Before(ph) == {q \in Phase : Rank[q] < Rank[ph]}

CONSTANTS
    Package,
    Scripts,    \* the phases that have a script in each recipe
    SrcPhases,  \* of them, those whose script leaves its work in SRCDIR
    HasVacuole  \* FALSE: the cache directory holds no vacuole

ASSUME RecipeAssumption ==
    /\ Scripts \in [Package -> SUBSET Phase]
    /\ \A b \in Package : "install" \in Scripts[b] /\ SrcPhases[b] \subseteq Scripts[b]
    /\ HasVacuole \in BOOLEAN

VARIABLES
    marks,    \* .ribosome-markers: the phases that are marked
    src,      \* what SRCDIR holds of the sources
    placed,   \* the places where each package's installed files are whole
    prot,     \* the package file in the cache directory
    named,    \* the package the vacuole's reference names
    pc,
    run,      \* the running build
    sound,    \* history: phases whose work is that of an uninterrupted build
    tainted   \* history: packages whose markers or sources went wrong, see below

disk == <<marks, src, placed, prot, named>>
history == <<sound, tainted>>
buildVars == <<marks, src, placed, prot, named, pc, run, sound, tainted>>

Place == {"pkg", "base", "sysroot"}
Run == [pkg : Package, clean : BOOLEAN, place : {"pkg", "base"},
        todo : SUBSET Phase, phase : Phase \cup {"none"}, ok : BOOLEAN]
NoRun == [pkg |-> "none"]
BuildSteps == {"clean", "extract", "unpack", "phase", "running", "mark", "pack", "store", "ended"}

Init ==
    /\ marks = [b \in Package |-> {}]
    /\ src = [b \in Package |-> "empty"]
    /\ placed = [b \in Package |-> {}]
    /\ prot = [b \in Package |-> "none"]
    /\ named = [b \in Package |-> "none"]
    /\ pc = "idle"
    /\ run = NoRun
    /\ sound = [b \in Package |-> {}]
    /\ tainted = {}

pkg == run.pkg
Sound(b) == Scripts[b] \subseteq sound[b]

\* build returns, with success or not.
Ends(ok) == /\ pc' = "ended"
            /\ run' = [run EXCEPT !.ok = ok]

\* A bug: phases without a script are not left out.
AllPhases(b, clean, place) ==
    [pkg |-> b, clean |-> clean, place |-> place, todo |-> Phase,
     phase |-> "none", ok |-> FALSE]

\* The build of b begins, for the given DESTDIR.
NewRun(b, clean, place) ==
    [pkg |-> b, clean |-> clean, place |-> place, todo |-> Scripts[b],
     phase |-> "none", ok |-> FALSE]
Begin(clean) == IF clean THEN "clean" ELSE "extract"

Build(b, clean) ==
    /\ pc = "idle"
    /\ run' = NewRun(b, clean, "pkg")
    /\ pc' = Begin(clean)
    /\ UNCHANGED <<disk, history>>

-----------------------------------------------------------------------------
\* clean_markers is remove_dir_all: one file after another, ...
CleanMarker(ph) ==
    /\ pc = "clean"
    /\ ph \in marks[pkg]
    /\ marks' = [marks EXCEPT ![pkg] = @ \ {ph}]
    /\ UNCHANGED <<src, placed, prot, named, pc, run, history>>

\* ... and the build goes on whether or not all went.
Cleaned ==
    /\ pc = "clean"
    /\ tainted' = IF marks[pkg] = {} THEN tainted ELSE tainted \cup {pkg}
    /\ pc' = "extract"
    /\ UNCHANGED <<disk, run, sound>>

\* A SRCDIR with anything in it is taken for extracted.
SkipExtract ==
    /\ pc = "extract"
    /\ src[pkg] # "empty" \/ ~HasVacuole
    /\ pc' = "phase"
    /\ UNCHANGED <<disk, run, history>>

Extract ==
    /\ pc = "extract"
    /\ src[pkg] = "empty" /\ HasVacuole
    /\ src' = [src EXCEPT ![pkg] = "partial"]
    /\ pc' = "unpack"
    /\ UNCHANGED <<marks, placed, prot, named, run, history>>

Unpacked ==
    /\ pc = "unpack"
    /\ src' = [src EXCEPT ![pkg] = "whole"]
    /\ pc' = "phase"
    /\ UNCHANGED <<marks, placed, prot, named, run, history>>

\* A source that is missing or cannot be extracted is a warning.
ExtractFails ==
    /\ pc = "unpack" \/ (pc = "extract" /\ src[pkg] = "empty" /\ HasVacuole)
    /\ pc' = "phase"
    /\ UNCHANGED <<disk, run, history>>

-----------------------------------------------------------------------------
\* A bug: --clean is forgotten once the markers are removed.
MarkedNeeded == {ph \in run.todo : ph \notin marks[pkg]}

\* Phases with a script that are_phase_done does not skip.
Needed == {ph \in run.todo : run.clean \/ ph \notin marks[pkg]}

\* A bug: the marker is there before the script has ended.
EarlyMark(ph) ==
    /\ pc = "phase"
    /\ ph \in Needed /\ Before(ph) \cap Needed = {}
    /\ run' = [run EXCEPT !.phase = ph, !.todo = @ \ (Before(ph) \cup {ph})]
    /\ sound' = [sound EXCEPT ![pkg] = @ \ {ph}]
    /\ placed' = IF ph = "install" THEN [placed EXCEPT ![pkg] = @ \ {run.place}] ELSE placed
    /\ marks' = [marks EXCEPT ![pkg] = @ \cup {ph}]
    /\ tainted' = IF src[pkg] = "whole" THEN tainted ELSE tainted \cup {pkg}
    /\ pc' = "running"
    /\ UNCHANGED <<src, prot, named>>

\* A script begins: it may overwrite what the phase made before.
RunPhase(ph) ==
    /\ pc = "phase"
    /\ ph \in Needed /\ Before(ph) \cap Needed = {}
    /\ run' = [run EXCEPT !.phase = ph, !.todo = @ \ (Before(ph) \cup {ph})]
    /\ sound' = [sound EXCEPT ![pkg] = @ \ {ph}]
    /\ placed' = IF ph = "install" THEN [placed EXCEPT ![pkg] = @ \ {run.place}] ELSE placed
    /\ tainted' = IF src[pkg] = "whole" THEN tainted ELSE tainted \cup {pkg}
    /\ pc' = "running"
    /\ UNCHANGED <<marks, src, prot, named>>

\* The script exits with 0: what it made is as good as what it was made from.
PhaseDone ==
    /\ pc = "running"
    /\ sound' = IF src[pkg] = "whole" /\ Scripts[pkg] \cap Before(run.phase) \subseteq sound[pkg]
                  THEN [sound EXCEPT ![pkg] = @ \cup {run.phase}] ELSE sound
    /\ placed' = IF run.phase = "install" THEN [placed EXCEPT ![pkg] = @ \cup {run.place}]
                                          ELSE placed
    /\ pc' = "mark"
    /\ UNCHANGED <<marks, src, prot, named, run, tainted>>

Mark ==
    /\ pc = "mark"
    /\ marks' = [marks EXCEPT ![pkg] = @ \cup {run.phase}]
    /\ pc' = "phase"
    /\ UNCHANGED <<src, placed, prot, named, run, history>>

\* A marker that cannot be written is a warning.
MarkFails ==
    /\ pc = "mark"
    /\ pc' = "phase"
    /\ UNCHANGED <<disk, run, history>>

\* The script exits with another code, or ribosome meets an error: directories,
\* transcript, spawning bash or the sandbox.
PhaseFails ==
    /\ pc \in {"extract", "phase", "running"}
    /\ Ends(FALSE)
    /\ UNCHANGED <<disk, history>>

AllDone ==
    /\ pc = "phase"
    /\ Needed = {}
    /\ IF run.place = "pkg" THEN pc' = "pack" /\ UNCHANGED run ELSE Ends(TRUE)
    /\ UNCHANGED <<disk, history>>

\* The package file is renamed into place whole.
Pack ==
    /\ pc = "pack"
    /\ prot' = [prot EXCEPT ![pkg] = IF Sound(pkg) /\ "pkg" \in placed[pkg] THEN "good" ELSE "bad"]
    /\ pc' = "store"
    /\ UNCHANGED <<marks, src, placed, named, run, history>>

PackFails ==
    /\ pc = "pack"
    /\ Ends(FALSE)
    /\ UNCHANGED <<disk, history>>

Store ==
    /\ pc = "store"
    /\ named' = [named EXCEPT ![pkg] = prot[pkg]]
    /\ Ends(TRUE)
    /\ UNCHANGED <<marks, src, placed, prot, history>>

\* A package that is not cached is a warning.
StoreFails ==
    /\ pc = "store"
    /\ Ends(TRUE)
    /\ UNCHANGED <<disk, history>>

-----------------------------------------------------------------------------
Exit ==
    /\ pc = "ended"
    /\ pc' = "idle"
    /\ run' = NoRun
    /\ UNCHANGED <<disk, history>>

\* ribosome is killed, and the script it runs with it.
Stop ==
    /\ pc # "idle"
    /\ pc' = "idle"
    /\ run' = NoRun
    /\ UNCHANGED <<disk, history>>

\* The script of a phase is edited, and the recipe keeps its name and version.
Edit(b, ph) ==
    /\ pc = "idle"
    /\ ph \in Scripts[b]
    /\ sound' = [sound EXCEPT ![b] = @ \cap Before(ph)]
    /\ tainted' = IF marks[b] \subseteq Before(ph) THEN tainted ELSE tainted \cup {b}
    /\ UNCHANGED <<disk, pc, run>>

\* The steps of a running build.
BuildNext ==
    \/ \E ph \in Phase : CleanMarker(ph) \/ RunPhase(ph)
    \/ Cleaned \/ SkipExtract \/ Extract \/ Unpacked \/ ExtractFails
    \/ PhaseDone \/ Mark \/ MarkFails \/ PhaseFails \/ AllDone
    \/ Pack \/ PackFails \/ Store \/ StoreFails

Next ==
    \/ \E b \in Package : \/ \E clean \in BOOLEAN : Build(b, clean)
                          \/ \E ph \in Phase : Edit(b, ph)
    \/ BuildNext \/ Exit \/ Stop

Spec == Init /\ [][Next]_buildVars

-----------------------------------------------------------------------------
TypeOK ==
    /\ marks \in [Package -> SUBSET Phase]
    /\ src \in [Package -> {"empty", "partial", "whole"}]
    /\ placed \in [Package -> SUBSET Place]
    /\ prot \in [Package -> {"none", "good", "bad"}]
    /\ named \in [Package -> {"none", "good", "bad"}]
    /\ pc \in BuildSteps \cup {"idle"}
    /\ run \in Run \cup {NoRun}
    /\ sound \in [Package -> SUBSET Phase]
    /\ tainted \subseteq Package
    /\ pc # "idle" => run \in Run
    /\ pc \in {"running", "mark"} => run.phase \in Scripts[pkg]

(* However often a build was killed, failed and was resumed, with or        *)
(* without --clean, the package it makes and the vacuole's reference names  *)
(* is the one an uninterrupted build makes: every phase of the recipe, as   *)
(* it was then, ran to its end over the ones before it.  Except where the   *)
(* code gives no such promise: a marked phase's script was edited, the      *)
(* markers could not be removed, or a phase ran without the whole sources.  *)
PackagesSound == \A b \in Package \ tainted : prot[b] # "bad" /\ named[b] # "bad"

(* A build with --clean that ends well over whole sources is sound whatever *)
(* the markers say, stale ones and those it failed to remove included.      *)
CleanSound == pc = "ended" /\ run.ok /\ run.clean /\ src[pkg] = "whole" => Sound(pkg)
=============================================================================
