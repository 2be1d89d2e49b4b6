----------------------------- MODULE DepGraph -----------------------------
(***************************************************************************)
(* DependencyGraph of ribosome-deps as operators on a set N of packages    *)
(* and a set E of edges: <<a, b>> if a needs b to build.  What petgraph    *)
(* computes is given by its definition: paths, and topological orders.     *)
(***************************************************************************)
EXTENDS Naturals, FiniteSets, Sequences, Validate

\* What a document adds: its name and the build dependencies that parse, but no
\* edge from a package to itself.
BuildNames(d) == {dep.name : dep \in {s \in d.depends : s.section = "build" /\ DependencyParses(s)}}
DocEdges(d) == {<<d.name, b>> : b \in BuildNames(d) \ {d.name}}
\* A bug: a dependency without a document is no node.
OwnNodes(docs) == {d.name : d \in docs}

Nodes(docs) == UNION {{d.name} \cup BuildNames(d) : d \in docs}
Edges(docs) == UNION {DocEdges(d) : d \in docs}

\* b is reached from a: it is in every set that has a and is closed under E.
Closed(E, S) == \A e \in E : e[1] \in S => e[2] \in S
Reaches(N, E, a, b) == \A S \in SUBSET N : a \in S /\ Closed(E, S) => b \in S

HasCycle(N, E) == \E e \in E : Reaches(N, E, e[2], e[1])

\* The elements of N in any order.
Arrangements(N) ==
    {s \in [1..Cardinality(N) -> N] :
        /\ \A i, j \in DOMAIN s : s[i] = s[j] => i = j
        /\ \A n \in N : \E i \in DOMAIN s : s[i] = n}

\* petgraph::algo::toposort: any order of N with a before b for each edge <<a, b>>.
Toposorts(N, E) ==
    {s \in Arrangements(N) : \A i, j \in DOMAIN s : <<s[i], s[j]>> \in E => i < j}

\* A bug: the order of petgraph, in which dependents come first.
ForwardSorts(N, E) == Toposorts(N, E)

\* topological_sort: the reverse, so that dependencies come first; none if cyclic.
TopologicalSorts(N, E) ==
    {[i \in DOMAIN s |-> s[Len(s) + 1 - i]] : s \in Toposorts(N, E)}

ReverseDependencies(N, E, name) ==
    IF name \in N THEN {b \in N : Reaches(N, E, b, name)} \ {name} ELSE {}

\* A bug: only packages that need the name themselves count.
RemovableDirect(N, E, names, installed) ==
    {name \in names : {b \in N : <<b, name>> \in E} \cap installed \subseteq names}

Removable(N, E, names, installed) ==
    {name \in names : ReverseDependencies(N, E, name) \cap installed \subseteq names}

\* Those of the sequence s that are in S, in their order.
Among(s, S) ==
    LET among[n \in 0..Len(s)] ==
            IF n = 0 THEN <<>>
            ELSE IF s[n] \in S THEN Append(among[n - 1], s[n]) ELSE among[n - 1]
    IN  among[Len(s)]

\* A bug: the name and what it needs itself, but not what these need.
DirectNeeds(N, E, name) == {b \in N : b = name \/ <<name, b>> \in E}

Needed(N, E, name) == {b \in N : Reaches(N, E, name, b)}

\* build_order is an error for a name the graph has not, and for every name of a
\* graph with a cycle anywhere ...
BuildOrderFails(N, E, name) == name \notin N \/ HasCycle(N, E)

\* ... and else keeps, of a topological sort of the graph, what the name needs.
BuildOrder(N, E, sort, name) == Among(sort, Needed(N, E, name))

\* resolve_install_order: a name for which build_order is an error stands for
\* itself alone; with a cycle the packages are in any order ...
Collected(N, E, names) ==
    UNION {IF BuildOrderFails(N, E, name) THEN {name} ELSE Needed(N, E, name) : name \in names}

BestEffortSorts(N, E) == IF HasCycle(N, E) THEN Arrangements(N) ELSE TopologicalSorts(N, E)

\* ... and the names the graph has not come last.
Unknown(N, names) == names \ N
InstallOrders(N, E, names) ==
    {Among(s, Collected(N, E, names)) \o rest :
        s \in BestEffortSorts(N, E), rest \in Arrangements(Unknown(N, names))}
=============================================================================
