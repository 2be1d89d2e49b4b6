----------------------------- MODULE Bootstrap -----------------------------
(***************************************************************************)
(* ribosome bootstrap: bootstrap_all and bootstrap_phase of ribosome-core. *)
(* The packages of each phase are built one after another, every package   *)
(* in its one build directory; all but base-system's install right into    *)
(* the bootstrap base, base-system's are merged into the sysroot.  The run *)
(* may be killed or fail at any step and be started again.                 *)
(***************************************************************************)
EXTENDS Builder, Sequences, Functions

BPhase == {"cross-toolchain", "temp-tools", "base-system", "kernel"}
Phases == <<"cross-toolchain", "temp-tools", "base-system", "kernel">>

CONSTANTS
    Packages,   \* packages_for_phase: the packages of each phase, in order
    Recipe      \* the packages whose recipe the nucleus has

ASSUME PackagesAssumption == Packages \in [BPhase -> Seq(Package)] /\ Recipe \subseteq Package

VARIABLES
    boot,      \* the running bootstrap
    unmerged   \* history: a merge into the sysroot failed in this run

vars == <<buildVars, boot, unmerged>>

Boots == [left : Seq(BPhase),                \* the phases after this one ...
          at : BPhase \cup {"none"},         \* ... this one ...
          todo : Seq(Package),               \* ... and its packages still to do
          clean : BOOLEAN, keep : BOOLEAN,   \* the options: keep is continue_on_error
          failed : BOOLEAN, phases : SUBSET BPhase]
NoBoot == [left |-> <<>>, at |-> "none", todo |-> <<>>,
           clean |-> FALSE, keep |-> FALSE, failed |-> FALSE, phases |-> {}]
Base == boot.at = "base-system"

BootInit == Init /\ boot = NoBoot /\ unmerged = FALSE

\* On to the package after this one.
Advance == boot' = [boot EXCEPT !.todo = Tail(@)]

\* This package failed: without continue_on_error the run ends.
Fail == /\ boot' = [boot EXCEPT !.failed = TRUE,
                                 !.todo = IF boot.keep THEN Tail(@) ELSE @]
        /\ pc' = IF boot.keep THEN "next" ELSE "done"

\* bootstrap, or bootstrap --phase with one phase.
Bootstrap(phases, clean, keep) ==
    /\ pc = "idle"
    /\ boot' = [NoBoot EXCEPT !.left = phases, !.clean = clean, !.keep = keep,
                              !.phases = Range(phases)]
    /\ unmerged' = FALSE
    /\ pc' = "next"
    /\ UNCHANGED <<disk, run, history>>

BeginPhase ==
    /\ pc = "next" /\ boot.todo = <<>> /\ boot.left # <<>>
    /\ boot' = [boot EXCEPT !.left = Tail(@), !.at = Head(boot.left),
                             !.todo = Packages[Head(boot.left)]]
    /\ UNCHANGED <<disk, pc, run, history, unmerged>>

-----------------------------------------------------------------------------
\* A package without a recipe is counted as skipped, and so is one whose ...
NoRecipe ==
    /\ pc = "next" /\ boot.todo # <<>>
    /\ Head(boot.todo) \notin Recipe
    /\ Advance
    /\ UNCHANGED <<disk, pc, run, history, unmerged>>

\* A bug: --clean is left to the build that is skipped.
CompleteAnyway(b) == Scripts[b] \subseteq marks[b]

\* ... phases with a script are all marked.
IsBuildComplete(b) == ~boot.clean /\ Scripts[b] \subseteq marks[b]

SkipComplete ==
    /\ pc = "next" /\ boot.todo # <<>>
    /\ LET b == Head(boot.todo) IN b \in Recipe /\ IsBuildComplete(b)
    /\ Advance
    /\ UNCHANGED <<disk, pc, run, history, unmerged>>

ParseFails ==
    /\ pc = "next" /\ boot.todo # <<>>
    /\ Head(boot.todo) \in Recipe
    /\ Fail
    /\ UNCHANGED <<disk, run, history, unmerged>>

StartPackage ==
    /\ pc = "next" /\ boot.todo # <<>>
    /\ LET b == Head(boot.todo)
       IN  /\ b \in Recipe /\ ~IsBuildComplete(b)
           /\ run' = NewRun(b, boot.clean, IF Base THEN "pkg" ELSE "base")
    /\ pc' = IF HasVacuole THEN "source" ELSE Begin(boot.clean)
    /\ UNCHANGED <<disk, history, boot, unmerged>>

\* A bug: as in build, a SRCDIR with anything in it is taken for extracted.
KeepSource ==
    /\ pc = "source"
    /\ IF src[pkg] = "empty"
         THEN src' = [src EXCEPT ![pkg] = "partial"] /\ pc' = "resource"
         ELSE UNCHANGED src /\ pc' = Begin(run.clean)
    /\ UNCHANGED <<marks, placed, prot, named, run, history, boot, unmerged>>

\* extract_source empties SRCDIR, with what phases left there, and starts to fill it.
ExtractSource ==
    /\ pc = "source"
    /\ \E left \in {"empty", "partial"} : src' = [src EXCEPT ![pkg] = left]
    /\ sound' = [sound EXCEPT ![pkg] = @ \ SrcPhases[pkg]]
    /\ pc' = "resource"
    /\ UNCHANGED <<marks, placed, prot, named, run, tainted, boot, unmerged>>

SourceExtracted ==
    /\ pc = "resource"
    /\ src' = [src EXCEPT ![pkg] = "whole"]
    /\ pc' = Begin(run.clean)
    /\ UNCHANGED <<marks, placed, prot, named, run, history, boot, unmerged>>

-----------------------------------------------------------------------------
\* A bug: a failed build counts as skipped.
ForgiveFailure ==
    /\ pc = "ended" /\ ~run.ok
    /\ Advance /\ pc' = "next"
    /\ run' = NoRun
    /\ UNCHANGED <<disk, history, unmerged>>

BuildFailed ==
    /\ pc = "ended" /\ ~run.ok
    /\ Fail
    /\ run' = NoRun
    /\ UNCHANGED <<disk, history, unmerged>>

Built ==
    /\ pc = "ended" /\ run.ok /\ ~Base
    /\ Advance /\ pc' = "next"
    /\ run' = NoRun
    /\ UNCHANGED <<disk, history, unmerged>>

\* install_to_dest copies pkg/ over the sysroot, file by file.
StartMerge ==
    /\ pc = "ended" /\ run.ok /\ Base
    /\ placed' = [placed EXCEPT ![pkg] = @ \ {"sysroot"}]
    /\ pc' = "merge"
    /\ UNCHANGED <<marks, src, prot, named, run, history, boot, unmerged>>

Merged ==
    /\ pc = "merge"
    /\ placed' = [placed EXCEPT ![pkg] = @ \cup IF "pkg" \in @ THEN {"sysroot"} ELSE {}]
    /\ Advance /\ pc' = "next"
    /\ run' = NoRun
    /\ UNCHANGED <<marks, src, prot, named, history, unmerged>>

\* A merge that fails is a warning, and the package succeeded.
MergeFails ==
    /\ pc = "merge"
    /\ unmerged' = TRUE
    /\ Advance /\ pc' = "next"
    /\ run' = NoRun
    /\ UNCHANGED <<disk, history>>

\* Errors that end the run at once, continue_on_error or not: as a phase begins, the
\* nucleus, the lock file, the vacuole or setup_chroot; a source that cannot be extracted.
Abort ==
    /\ \/ pc \in {"source", "resource"}
       \/ pc = "next" /\ boot.todo = <<>> /\ boot.left # <<>>
    /\ boot' = [boot EXCEPT !.failed = TRUE]
    /\ pc' = "done"
    /\ run' = NoRun
    /\ UNCHANGED <<disk, history, unmerged>>

Finish ==
    /\ pc = "next" /\ boot.todo = <<>> /\ boot.left = <<>>
    /\ pc' = "done"
    /\ UNCHANGED <<disk, run, history, boot, unmerged>>

Report ==
    /\ pc = "done"
    /\ pc' = "idle"
    /\ boot' = NoBoot
    /\ UNCHANGED <<disk, run, history, unmerged>>

\* ribosome is killed.
Kill ==
    /\ pc \notin {"idle", "done"}
    /\ pc' = "idle"
    /\ run' = NoRun
    /\ boot' = NoBoot
    /\ UNCHANGED <<disk, history, unmerged>>

BootNext ==
    \/ \E clean, keep \in BOOLEAN :
        \/ Bootstrap(Phases, clean, keep)
        \/ \E bp \in BPhase : Bootstrap(<<bp>>, clean, keep)
    \/ BeginPhase \/ NoRecipe \/ SkipComplete \/ ParseFails \/ StartPackage
    \/ ExtractSource \/ SourceExtracted
    \/ BuildNext /\ UNCHANGED <<boot, unmerged>>
    \/ BuildFailed \/ Built \/ StartMerge \/ Merged \/ MergeFails
    \/ Abort \/ Finish \/ Report \/ Kill

BootSpec == BootInit /\ [][BootNext]_vars

-----------------------------------------------------------------------------
InSysroot == Range(Packages["base-system"])

Success(bp) == pc = "done" /\ ~boot.failed /\ bp \in boot.phases

(* bootstrap never runs a phase without the whole sources, whatever a run   *)
(* before it left in SRCDIR: extraction is a hard requirement there.        *)
SourcesWhole ==
    [][\A ph \in Phase : RunPhase(ph) => src[pkg] = "whole"]_vars

(* A bootstrap that reports success has every package of its toolchain,     *)
(* tools and kernel phases, built now or in any earlier run that failed or  *)
(* was killed, whole in the bootstrap base.  (Packages with a recipe, not   *)
(* in base-system too, whose markers were never left by a failed --clean.)  *)
ToolsInstalled ==
    \A bp \in BPhase \ {"base-system"} : Success(bp) =>
        \A b \in (Range(Packages[bp]) \cap Recipe) \ (InSysroot \cup tainted) :
            "base" \in placed[b]

(* A bootstrap --clean that reports success has merged every package of     *)
(* base-system into the sysroot, if no merge failed.                        *)
CleanInstalls ==
    Success("base-system") /\ boot.clean /\ ~unmerged =>
        \A b \in InSysroot \cap Recipe : "sysroot" \in placed[b]

(* A build resumed in a bootstrap ends with what an uninterrupted one       *)
(* makes.  (Recipes whose scripts leave nothing in SRCDIR, which is emptied *)
(* before each attempt, and markers as in ToolsInstalled.)                  *)
BuiltSound ==
    pc = "ended" /\ run.ok /\ SrcPhases[pkg] = {} /\ pkg \notin tainted => Sound(pkg)

(* The same of every recipe, which is what a phase marker is said to mean.  *)
(* It does not hold: a marked prepare is skipped, and its work in SRCDIR is *)
(* gone.                                                                    *)
ResumedSound == pc = "ended" /\ run.ok /\ pkg \notin tainted => Sound(pkg)

(* What bootstrap.rs says of base-system, that its packages are merged into *)
(* the sysroot.  It does not hold: a package that temp-tools has built, or  *)
(* whose merge did not take place, is skipped as complete.                  *)
BaseInstalled ==
    Success("base-system") => \A b \in InSysroot \cap Recipe : "sysroot" \in placed[b]
=============================================================================
