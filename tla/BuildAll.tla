----------------------------- MODULE BuildAll -----------------------------
(***************************************************************************)
(* ribosome build-all: it scans a nucleus directory for an index, loads it *)
(* again for the dependency graph, and builds each package of the graph's  *)
(* order, for which it reads the file of the index a third time.  Whoever  *)
(* writes the recipes does not wait for it.  A build is one step here: see *)
(* Builder.                                                                *)
(***************************************************************************)
EXTENDS MrnaIndex, DepGraph

CONSTANTS
    Text,       \* the document in each state of a recipe file
    FileOf,     \* and the file
    MaxWrites   \* bound: files written or removed while build-all runs

Path == {FileOf[r] : r \in Recipe}

ASSUME BuildAllAssumption ==
    /\ DOMAIN Text = Recipe /\ DOMAIN FileOf = Recipe
    /\ \A r \in Recipe : Text[r].name = NameOf[r] /\ Text[r].version = VersionOf[r]
    /\ \A r \in Recipe : /\ Text[r].release \in Nat
                          /\ Text[r].build \in {"no block", "no install", Blank, "script"}
    /\ IsFiniteSet(Nodes({Text[r] : r \in Recipe}))
    /\ NoRecipe \notin Recipe
    /\ MaxWrites \in Nat

VARIABLES
    dir,        \* the files there are: what is in each, or NoRecipe
    writes,     \* how many were written since build-all began
    pc, cont,   \* cont: continue_on_error
    index,      \* what the scan found
    loaded,     \* what was loaded into the graph, and the graph
    nodes, edges,
    order, k,   \* the build order, and the place in it
    building,   \* the recipe that was parsed for the build at work
    sum,        \* the counters
    outcome     \* history: what became of each package so far

plan == <<cont, index, loaded, nodes, edges, order>>
vars == <<dir, writes, pc, cont, index, loaded, nodes, edges, order, k, building, sum, outcome>>

Docs(recipes) == {Text[r] : r \in recipes}
Present == {dir[p] : p \in Path} \ {NoRecipe}
Parsed == {r \in Recipe : Accepted(Text[r])}
Zero == [succeeded |-> 0, failed |-> 0, skipped |-> 0]

Init ==
    /\ dir = [p \in Path |-> NoRecipe] /\ pc = "idle"
    /\ writes = 0 /\ cont = FALSE
    /\ index = {} /\ loaded = {} /\ nodes = {} /\ edges = {} /\ order = <<>> /\ k = 1
    /\ building = NoRecipe /\ sum = Zero /\ outcome = <<>>

-----------------------------------------------------------------------------
\* cmd_build_all.
Start ==
    /\ pc = "idle"
    /\ pc' = "scan"
    /\ cont' \in BOOLEAN
    /\ UNCHANGED <<dir, writes, index, loaded, nodes, edges, order, k, building, sum, outcome>>

\* Files that are not accepted are left out of the index without a word ...
Scan ==
    /\ pc = "scan"
    /\ index' = Present \cap Parsed
    /\ pc' = IF index' = {} THEN "aborted" ELSE "load"
    /\ UNCHANGED <<dir, writes, cont, loaded, nodes, edges, order, k, building, sum, outcome>>

\* ... and end build-all when they are loaded into the graph.
Load ==
    /\ pc = "load"
    /\ IF Present # {} /\ Present \subseteq Parsed
         THEN /\ loaded' = Present /\ pc' = "sort"
              /\ nodes' = Nodes(Docs(Present)) /\ edges' = Edges(Docs(Present))
         ELSE pc' = "aborted" /\ UNCHANGED <<loaded, nodes, edges>>
    /\ UNCHANGED <<dir, writes, cont, index, order, k, building, sum, outcome>>

Sort ==
    /\ pc = "sort"
    /\ order' \in TopologicalSorts(nodes, edges)
    /\ pc' = "next"
    /\ UNCHANGED <<dir, writes, cont, index, loaded, nodes, edges, k, building, sum, outcome>>

\* A cycle is named in a warning, and there is no order.
SortFails ==
    /\ pc = "sort"
    /\ HasCycle(nodes, edges)
    /\ pc' = "aborted"
    /\ UNCHANGED <<dir, writes, plan, k, building, sum, outcome>>

-----------------------------------------------------------------------------
name == order[k]
EntryOf(n) == Resolve(index, n, Unpinned, Unpinned)
entry == EntryOf(name)

\* The package is done with.
Ends(result) ==
    /\ sum' = [sum EXCEPT ![result] = @ + 1]
    /\ outcome' = [n \in DOMAIN outcome \cup {name} |-> IF n = name THEN result ELSE outcome[n]]
    /\ k' = k + 1
    /\ building' = NoRecipe
    /\ UNCHANGED <<dir, writes, plan>>

Failure == Ends("failed") /\ pc' = IF cont THEN "next" ELSE "aborted"

Skip ==
    /\ pc = "next" /\ k <= Len(order)
    /\ entry = NoRecipe
    /\ Ends("skipped")
    /\ UNCHANGED pc

\* A bug: the file is tried again until it can be parsed.
ParseWaits ==
    /\ pc = "next" /\ k <= Len(order)
    /\ entry # NoRecipe /\ dir[FileOf[entry]] \notin Parsed
    /\ UNCHANGED vars

\* The file of the entry is gone, or is not accepted any more.
ParseFails ==
    /\ pc = "next" /\ k <= Len(order)
    /\ entry # NoRecipe /\ dir[FileOf[entry]] \notin Parsed
    /\ Failure

ParseOk ==
    /\ pc = "next" /\ k <= Len(order)
    /\ entry # NoRecipe /\ dir[FileOf[entry]] \in Parsed
    /\ building' = dir[FileOf[entry]]
    /\ pc' = "build"
    /\ UNCHANGED <<dir, writes, plan, k, sum, outcome>>

BuildSucceeds == pc = "build" /\ Ends("succeeded") /\ pc' = "next"
BuildFails == pc = "build" /\ Failure

\* A bug: with --continue-on-error the failures do not count in the end.
FinishAnyway ==
    /\ pc = "next" /\ k > Len(order)
    /\ pc' = "success"
    /\ UNCHANGED <<dir, writes, plan, k, building, sum, outcome>>

Finish ==
    /\ pc = "next" /\ k > Len(order)
    /\ pc' = IF sum.failed > 0 THEN "aborted" ELSE "success"
    /\ UNCHANGED <<dir, writes, plan, k, building, sum, outcome>>

\* build-all exits with its status, or is killed: nothing of it is kept.
Leave ==
    /\ pc # "idle"
    /\ pc' = "idle"
    /\ writes' = 0 /\ cont' = FALSE
    /\ index' = {} /\ loaded' = {} /\ nodes' = {} /\ edges' = {} /\ order' = <<>> /\ k' = 1
    /\ building' = NoRecipe /\ sum' = Zero /\ outcome' = <<>>
    /\ UNCHANGED dir

Exit == pc \in {"aborted", "success"} /\ Leave
Kill == pc \notin {"aborted", "success"} /\ Leave

\* A recipe is written, with another text perhaps, or a file is removed.
Write(r) ==
    /\ pc = "idle" \/ writes < MaxWrites
    /\ dir' = [dir EXCEPT ![FileOf[r]] = r]
    /\ writes' = IF pc = "idle" THEN 0 ELSE writes + 1
    /\ UNCHANGED <<pc, plan, k, building, sum, outcome>>

Remove(p) ==
    /\ pc = "idle" \/ writes < MaxWrites
    /\ dir' = [dir EXCEPT ![p] = NoRecipe]
    /\ writes' = IF pc = "idle" THEN 0 ELSE writes + 1
    /\ UNCHANGED <<pc, plan, k, building, sum, outcome>>

BuildAllSteps ==
    \/ Scan \/ Load \/ Sort \/ SortFails
    \/ Skip \/ ParseFails \/ ParseOk \/ BuildSucceeds \/ BuildFails
    \/ Finish \/ Exit

Next ==
    \/ Start \/ BuildAllSteps \/ Kill
    \/ \E r \in Recipe : Write(r)
    \/ \E p \in Path : Remove(p)

\* build-all goes on, if the builds it starts end.
Spec == Init /\ [][Next]_vars /\ WF_vars(BuildAllSteps)

-----------------------------------------------------------------------------
TypeOK ==
    /\ dir \in [Path -> Recipe \cup {NoRecipe}]
    /\ writes \in Nat
    /\ pc \in {"idle", "scan", "load", "sort", "next", "build", "aborted", "success"}
    /\ cont \in BOOLEAN
    /\ index \subseteq Recipe /\ loaded \subseteq Recipe /\ edges \subseteq nodes \X nodes
    /\ order \in Seq(nodes) /\ k \in Nat \ {0}
    /\ building \in Recipe \cup {NoRecipe}
    /\ sum \in [DOMAIN Zero -> Nat]
    /\ DOMAIN outcome \subseteq nodes
    /\ \A n \in DOMAIN outcome : outcome[n] \in DOMAIN Zero

(* A package is built after everything it needs to be built: what the recipe *)
(* at work names among its build dependencies was tried before, unless the   *)
(* recipe was written since the graph was loaded, and it did not fail if     *)
(* failures end build-all.                                                   *)
DepsFirst ==
    pc = "build" /\ building \in loaded /\ NameOf[building] = name =>
        \A b \in BuildNames(Text[building]) \ {name} :
            b \in DOMAIN outcome /\ (outcome[b] = "failed" => cont)

(* When build-all exits with success, each package of the graph was built,   *)
(* except for those the scan found no recipe for: none was forgotten, none   *)
(* built twice, and no failure went unnoticed.                               *)
SuccessMeansBuilt ==
    pc = "success" =>
        /\ DOMAIN outcome = nodes
        /\ \A n \in nodes :
              outcome[n] = IF EntryOf(n) = NoRecipe THEN "skipped" ELSE "succeeded"
        /\ sum.succeeded + sum.skipped = Cardinality(nodes)

(* What is built is fit for the rest of ribosome, whenever it was written: a *)
(* name that others can depend on, a version and a release for the package's *)
(* file name, a script for the one phase that must not be left out, sources  *)
(* whose hash has the form a download is compared with, and no dependency    *)
(* that the graph, which drops what it cannot parse, has lost.               *)
BuildsOnlySound ==
    pc = "build" =>
        LET d == Text[building]
        IN /\ d.name \in Kebab /\ d.version # Blank /\ d.release >= 1
           /\ d.build = "script"
           /\ d.sources # <<>>
           /\ \A i \in DOMAIN d.sources : d.sources[i].hash \in {"none", "lower", "upper"}
           /\ BuildNames(d) = {dep.name : dep \in {s \in d.depends : s.section = "build"}}
           /\ building \in loaded => \A b \in BuildNames(d) : <<d.name, b>> \in edges

(* What removable lets go can go: whatever is installed, and whichever of    *)
(* the packages are asked for, none that stays needs one of those to build.  *)
RemovableSafe ==
    pc = "next" /\ k = 1 =>
        \A installed, names \in SUBSET nodes :
            LET gone == Removable(nodes, edges, names, installed)
            IN \A e \in edges : e[1] \in installed \ gone => e[2] \notin gone

(* A plan to build a package, or to install several, of which the graph may  *)
(* not have all, has what was asked for and nothing they do not need, each   *)
(* once.  If the graph has no cycle it also has all they need, before them.  *)
(* A cycle anywhere ends this: build_order is then an error for every name,  *)
(* and an install plan has the names that were asked for, in no order, and   *)
(* nothing they need (graph.rs:250: "best-effort").                          *)
PlansComplete ==
    pc = "sort" =>
        LET Prior(q, i) == {q[j] : j \in 1..(i - 1)}
            Complete(q, names) ==
                /\ names \subseteq Prior(q, Len(q) + 1)
                /\ \A i \in DOMAIN q :
                      /\ q[i] \notin Prior(q, i)
                      /\ q[i] \in names \/ \E n \in names \cap nodes : Reaches(nodes, edges, n, q[i])
            DepsBefore(q) == \A i \in DOMAIN q, e \in edges : e[1] = q[i] => e[2] \in Prior(q, i)
        IN /\ \A n \in nodes, sort \in TopologicalSorts(nodes, edges) :
                 LET q == BuildOrder(nodes, edges, sort, n) IN Complete(q, {n}) /\ DepsBefore(q)
           /\ \A names \in SUBSET (nodes \cup Package) :
                 \A q \in InstallOrders(nodes, edges, names) :
                     Complete(q, names) /\ (HasCycle(nodes, edges) \/ DepsBefore(q))

(* build-all ends, whatever fails and whoever writes recipes meanwhile.      *)
BuildAllEnds == (pc # "idle") ~> (pc = "idle")
=============================================================================
