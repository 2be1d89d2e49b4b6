--------------------------- MODULE BuildAllProofs ---------------------------
(***************************************************************************)
(* Theorems about BuildAll and the operators it is made of, for any        *)
(* recipes, files and documents.                                           *)
(***************************************************************************)
EXTENDS BuildAll, FiniteSetTheorems, SequenceTheorems, WellFoundedInduction, TLAPS

(* An order of packages: all of them, once.                                  *)
Listing(N, s) ==
    /\ s \in Seq(N)
    /\ \A i, j \in 1..Len(s) : s[i] = s[j] => i = j
    /\ \A n \in N : \E i \in 1..Len(s) : s[i] = n

(* One in which they can be built: each after what it needs.                 *)
BuildSequence(N, E, s) ==
    /\ Listing(N, s)
    /\ \A i, j \in 1..Len(s) : <<s[i], s[j]>> \in E => j < i

(* The graph is that of the documents that were loaded, all accepted.       *)
GraphLoaded ==
    /\ loaded \subseteq Parsed
    /\ nodes = Nodes(Docs(loaded))
    /\ edges = Edges(Docs(loaded))

(* Before the build loop nothing is done.                                   *)
Unbegun == pc \in {"idle", "scan", "load", "sort"} =>
    order = <<>> /\ k = 1 /\ sum = Zero /\ outcome = <<>>

Working == pc \in {"next", "build", "success"}

(* How build-all goes through the order: what lies behind has an outcome,   *)
(* and nothing else has.                                                    *)
InOrder == Working =>
    /\ BuildSequence(nodes, edges, order)
    /\ k <= Len(order) + 1
    /\ DOMAIN outcome = {order[i] : i \in 1..(k - 1)}

(* What is built was parsed.                                                *)
Parses == pc = "build" =>
    /\ k <= Len(order)
    /\ building \in Parsed
    /\ entry # NoRecipe

(* The counters tell what the outcomes are.                                 *)
Counted == Working =>
    /\ sum.succeeded + sum.skipped + sum.failed = k - 1
    /\ \A n \in DOMAIN outcome :
          /\ outcome[n] = "failed" => cont /\ sum.failed > 0
          /\ outcome[n] = "skipped" <=> EntryOf(n) = NoRecipe
    /\ pc = "success" => k > Len(order) /\ sum.failed = 0

IInv == TypeOK /\ GraphLoaded /\ Unbegun /\ InOrder /\ Parses /\ Counted

-----------------------------------------------------------------------------
(* Edges join packages of the graph.                                        *)
LEMMA EdgesInNodes ==
  ASSUME NEW docs PROVE Edges(docs) \subseteq Nodes(docs) \X Nodes(docs)
<1>1. \A d \in docs : DocEdges(d) \subseteq Nodes(docs) \X Nodes(docs)
  BY DEF DocEdges, Nodes
<1>2. QED
  BY <1>1 DEF Edges

(* There are finitely many packages in the graph of some of the recipes.    *)
LEMMA NodesFinite ==
  ASSUME NEW recipes, recipes \subseteq Recipe
  PROVE  IsFiniteSet(Nodes(Docs(recipes)))
<1>1. Nodes(Docs(recipes)) \subseteq Nodes({Text[r] : r \in Recipe})
  BY DEF Nodes, Docs
<1>2. QED
  BY <1>1, BuildAllAssumption, FS_Subset

(* What is reached from what is reached is reached.                         *)
LEMMA ReachesTransitive ==
  ASSUME NEW N, NEW E, NEW a, NEW b, NEW c, Reaches(N, E, a, b), Reaches(N, E, b, c)
  PROVE  Reaches(N, E, a, c)
BY DEF Reaches

(* An edge is a path.                                                       *)
LEMMA EdgeReaches ==
  ASSUME NEW N, NEW E, NEW a, NEW b, <<a, b>> \in E
  PROVE  Reaches(N, E, a, b)
BY DEF Reaches, Closed

(* topological_sort returns build sequences: the reverse of what petgraph   *)
(* returns, in which each package comes before those it needs.              *)
LEMMA SortsAreSequences ==
  ASSUME NEW N, NEW E, IsFiniteSet(N), NEW s \in TopologicalSorts(N, E)
  PROVE  BuildSequence(N, E, s)
<1>1. PICK t \in Toposorts(N, E) : s = [i \in DOMAIN t |-> t[Len(t) + 1 - i]]
  BY DEF TopologicalSorts
<1>2. Cardinality(N) \in Nat
  BY FS_CardinalityType
<1> DEFINE n == Cardinality(N)
           R(i) == n + 1 - i
<1>3. /\ t \in [1..n -> N] /\ DOMAIN t = 1..n
      /\ \A i, j \in 1..n : t[i] = t[j] => i = j
      /\ \A m \in N : \E i \in 1..n : t[i] = m
      /\ \A i, j \in 1..n : <<t[i], t[j]>> \in E => i < j
  BY DEF Toposorts, Arrangements
<1> HIDE DEF n
<1>4. n \in Nat /\ Len(t) = n
  BY <1>2, <1>3 DEF n
<1>5. \A i \in 1..n : R(i) \in 1..n /\ R(R(i)) = i
  BY <1>4
<1>6. s = [i \in 1..n |-> t[R(i)]]
  BY <1>1, <1>3, <1>4
<1> HIDE DEF R
<1>7. s \in [1..n -> N] /\ \A i \in 1..n : s[i] = t[R(i)]
  BY <1>3, <1>5, <1>6
<1>8. s \in Seq(N) /\ Len(s) = n
  BY <1>4, <1>7
<1>9. \A i, j \in 1..n : s[i] = s[j] => i = j
  BY <1>3, <1>5, <1>7
<1>10. \A m \in N : \E i \in 1..n : s[i] = m
  BY <1>3, <1>5, <1>7
<1>11. \A i, j \in 1..n : <<s[i], s[j]>> \in E => j < i
  <2> SUFFICES ASSUME NEW i \in 1..n, NEW j \in 1..n, <<s[i], s[j]>> \in E
               PROVE  j < i
    OBVIOUS
  <2>1. R(i) < R(j)
    BY <1>3, <1>5, <1>7
  <2>2. QED
    BY <2>1, <1>4 DEF R
<1>12. QED
  BY <1>8, <1>9, <1>10, <1>11 DEF BuildSequence, Listing

-----------------------------------------------------------------------------
(* What stays installed needs nothing that removable lets go, in any graph: *)
(* a package that was asked for and stays is needed by one that stays,      *)
(* which then needs all that the package needs.                             *)
LEMMA RemovableLemma ==
  ASSUME NEW N, NEW E, E \subseteq N \X N, NEW names, NEW installed,
         NEW p \in installed \ Removable(N, E, names, installed),
         NEW q, <<p, q>> \in E
  PROVE  q \notin Removable(N, E, names, installed)
<1> SUFFICES ASSUME q \in Removable(N, E, names, installed)
             PROVE  FALSE
  OBVIOUS
<1>1. p \in N /\ q \in N
  OBVIOUS
<1>2. q \in names /\ ReverseDependencies(N, E, q) \cap installed \subseteq names
  BY DEF Removable
<1>3. \A b \in installed \cap N : Reaches(N, E, b, q) /\ b # q => b \in names
  BY <1>1, <1>2 DEF ReverseDependencies
<1>4. p # q
  OBVIOUS
<1>5. p \in names
  BY <1>1, <1>3, <1>4, EdgeReaches
<1>6. PICK b \in installed \ names : b \in N /\ Reaches(N, E, b, p)
  BY <1>5 DEF Removable, ReverseDependencies
<1>7. Reaches(N, E, b, q)
  BY <1>6, EdgeReaches, ReachesTransitive
<1>8. QED
  BY <1>2, <1>3, <1>6, <1>7

(* A version that is asked for, by a pin or else by the version lock, and of *)
(* which there is a recipe, is the one resolved, whatever recipes are added: *)
(* a pin goes before the lock, and neither gives way to a later version.     *)
THEOREM LockHolds ==
  ASSUME NEW files, NEW more, NEW n, NEW pin, NEW lock,
         NEW asked, asked = (IF pin # Unpinned THEN pin ELSE lock), asked # Unpinned,
         \E r \in Entries(files, n) : VersionOf[r] = asked
  PROVE  VersionOf[Resolve(files \cup more, n, pin, lock)] = asked
<1> DEFINE entries == Entries(files \cup more, n)
           exact == {r \in entries : VersionOf[r] = asked}
<1>1. exact # {}
  BY DEF Entries
<1>2. Resolve(files \cup more, n, pin, lock) = FindVersion(entries, asked)
  BY <1>1 DEF Resolve
<1>3. FindVersion(entries, asked) = CHOOSE r \in exact : TRUE
  BY <1>1 DEF FindVersion
<1>4. (CHOOSE r \in exact : TRUE) \in exact
  BY <1>1
<1>5. QED
  BY <1>2, <1>3, <1>4

-----------------------------------------------------------------------------
(* The counters at zero, and no outcome.                                    *)
LEMMA NothingDone ==
    /\ DOMAIN Zero = {"succeeded", "failed", "skipped"}
    /\ Zero \in [DOMAIN Zero -> Nat]
    /\ DOMAIN <<>> = {} /\ \A S : <<>> \in Seq(S)
<1>1. DOMAIN Zero = {"succeeded", "failed", "skipped"}
  BY DEF Zero
<1>2. Zero \in [{"succeeded", "failed", "skipped"} -> Nat]
  BY DEF Zero
<1>3. QED
  BY <1>1, <1>2

(* build-all starts with nothing found and nothing done.                    *)
LEMMA InitInv == Init => IInv
<1> SUFFICES ASSUME Init PROVE IInv
  OBVIOUS
<1>1. TypeOK
  <2>1. dir \in [Path -> Recipe \cup {NoRecipe}]
    BY DEF Init
  <2>2. /\ order \in Seq(nodes) /\ sum \in [DOMAIN Zero -> Nat]
        /\ DOMAIN outcome = {} /\ building \in Recipe \cup {NoRecipe}
    BY NothingDone DEF Init
  <2>3. /\ writes \in Nat /\ k \in Nat \ {0}
        /\ pc \in {"idle", "scan", "load", "sort", "next", "build", "aborted", "success"}
    BY DEF Init
  <2>4. index = {} /\ loaded = {} /\ edges = {} /\ cont = FALSE
    BY DEF Init
  <2>5. index \subseteq Recipe /\ loaded \subseteq Recipe /\ edges \subseteq nodes \X nodes
    BY <2>4
  <2>6. cont \in BOOLEAN
    BY <2>4, Zenon
  <2>7. QED
    BY <2>1, <2>2, <2>3, <2>5, <2>6 DEF TypeOK
<1>2. GraphLoaded
  BY DEF Init, GraphLoaded, Nodes, Edges, Docs
<1>3. Unbegun /\ InOrder /\ Parses /\ Counted
  BY DEF Init, Unbegun, InOrder, Parses, Counted, Working
<1>4. QED
  BY <1>1, <1>2, <1>3 DEF IInv

(* Loading the graph gives it edges between its packages.                   *)
LEMMA LoadInv == IInv /\ Load => IInv'
<1> SUFFICES ASSUME IInv, Load PROVE IInv'
  OBVIOUS
<1> USE DEF IInv
<1>1. order = <<>> /\ outcome = <<>> /\ order' = <<>> /\ outcome' = <<>>
  BY DEF Load, Unbegun
<1>2. TypeOK'
  <2>1. CASE Present # {} /\ Present \subseteq Parsed
    <3>1. /\ loaded' = Present /\ pc' = "sort"
          /\ nodes' = Nodes(Docs(Present)) /\ edges' = Edges(Docs(Present))
      BY <2>1 DEF Load
    <3>2. edges' \subseteq nodes' \X nodes'
      BY <3>1, EdgesInNodes
    <3>3. QED
      BY <1>1, <2>1, <3>1, <3>2 DEF Load, TypeOK, Parsed
  <2>2. CASE ~(Present # {} /\ Present \subseteq Parsed)
    BY <2>2 DEF Load, TypeOK
  <2>3. QED
    BY <2>1, <2>2
<1>3. GraphLoaded'
  BY DEF Load, GraphLoaded
<1>4. Unbegun' /\ InOrder' /\ Parses' /\ Counted'
  BY DEF Load, Unbegun, InOrder, Parses, Counted, Working
<1>5. QED
  BY <1>2, <1>3, <1>4

(* The order is a build sequence when the loop begins.                      *)
LEMMA SortInv == IInv /\ Sort => IInv'
<1> SUFFICES ASSUME IInv, Sort PROVE IInv'
  OBVIOUS
<1> USE DEF IInv
<1>1. IsFiniteSet(nodes)
  <2>1. loaded \subseteq Recipe
    BY DEF TypeOK
  <2>2. QED
    BY <2>1, NodesFinite DEF GraphLoaded
<1>2. BuildSequence(nodes, edges, order')
  BY <1>1, SortsAreSequences DEF Sort
<1>3. k = 1 /\ k' = 1 /\ sum = Zero /\ sum' = Zero /\ outcome = <<>> /\ outcome' = <<>> /\ pc' = "next"
  BY DEF Sort, Unbegun
<1>4. TypeOK'
  BY <1>2, <1>3 DEF Sort, TypeOK, BuildSequence, Listing
<1>5. GraphLoaded' /\ Unbegun' /\ Parses'
  BY DEF Sort, GraphLoaded, Unbegun, Parses
<1>6. InOrder'
  <2>1. DOMAIN outcome' = {} /\ Len(order') \in Nat
    BY <1>2, <1>3 DEF BuildSequence, Listing
  <2>2. nodes' = nodes /\ edges' = edges
    BY DEF Sort
  <2>3. QED
    BY <1>2, <1>3, <2>1, <2>2 DEF InOrder
<1>7. Counted'
  BY <1>3 DEF Counted, Zero
<1>8. QED
  BY <1>4, <1>5, <1>6, <1>7

(* The other steps before the loop, and those of others, leave it alone.    *)
LEMMA OutsideInv ==
  ASSUME IInv, Start \/ Scan \/ SortFails \/ Leave
               \/ (\E r \in Recipe : Write(r)) \/ (\E p \in Path : Remove(p))
  PROVE  IInv'
<1> USE DEF IInv
<1>1. CASE Start
  BY <1>1 DEF Start, TypeOK, GraphLoaded, Unbegun, InOrder, Parses, Counted, Working
<1>2. CASE Scan
  <2>1. TypeOK'
    BY <1>2 DEF Scan, TypeOK, Parsed
  <2>2. GraphLoaded' /\ Unbegun' /\ InOrder' /\ Parses' /\ Counted'
    BY <1>2 DEF Scan, GraphLoaded, Unbegun, InOrder, Parses, Counted, Working
  <2>3. QED
    BY <2>1, <2>2
<1>3. CASE SortFails
  BY <1>3 DEF SortFails, plan, TypeOK, GraphLoaded, Unbegun, InOrder, Parses, Counted, Working
<1>4. CASE Leave
  <2>1. TypeOK'
    <3>1. dir' \in [Path -> Recipe \cup {NoRecipe}]
      BY <1>4 DEF Leave, TypeOK
    <3>2. /\ order' \in Seq(nodes') /\ sum' \in [DOMAIN Zero -> Nat]
          /\ DOMAIN outcome' = {} /\ building' \in Recipe \cup {NoRecipe}
      BY <1>4, NothingDone DEF Leave
    <3>3. /\ writes' \in Nat /\ k' \in Nat \ {0}
          /\ pc' \in {"idle", "scan", "load", "sort", "next", "build", "aborted", "success"}
      BY <1>4 DEF Leave
    <3>4. index' = {} /\ loaded' = {} /\ edges' = {} /\ cont' = FALSE
      BY <1>4 DEF Leave
    <3>5. index' \subseteq Recipe /\ loaded' \subseteq Recipe /\ edges' \subseteq nodes' \X nodes'
      BY <3>4
    <3>6. cont' \in BOOLEAN
      BY <3>4, Zenon
    <3>7. QED
      BY <3>1, <3>2, <3>3, <3>5, <3>6 DEF TypeOK
  <2>2. GraphLoaded'
    BY <1>4 DEF Leave, GraphLoaded, Nodes, Edges, Docs
  <2>3. Unbegun' /\ InOrder' /\ Parses' /\ Counted'
    BY <1>4 DEF Leave, Unbegun, InOrder, Parses, Counted, Working
  <2>4. QED
    BY <2>1, <2>2, <2>3
<1>5. ASSUME UNCHANGED <<pc, plan, k, building, sum, outcome>>,
             dir' \in [Path -> Recipe \cup {NoRecipe}], writes' \in Nat
      PROVE  IInv'
  <2>1. TypeOK'
    BY <1>5 DEF TypeOK, plan
  <2>2. GraphLoaded' /\ Unbegun' /\ InOrder'
    BY <1>5 DEF plan, GraphLoaded, Unbegun, InOrder, Working
  <2>3. Parses' /\ Counted'
    BY <1>5 DEF plan, Parses, Counted, Working, EntryOf, entry, name
  <2>4. QED
    BY <2>1, <2>2, <2>3
<1>6. ASSUME NEW r \in Recipe, Write(r) PROVE IInv'
  BY <1>5, <1>6 DEF Write, TypeOK, Path
<1>7. ASSUME NEW p \in Path, Remove(p) PROVE IInv'
  BY <1>5, <1>7 DEF Remove, TypeOK
<1>8. QED
  BY <1>1, <1>2, <1>3, <1>4, <1>6, <1>7

-----------------------------------------------------------------------------
(* A package is done with: the outcome of what lies behind is there, and    *)
(* the counter of that result has gone up.                                  *)
LEMMA EndsInv ==
  ASSUME IInv, NEW result \in {"succeeded", "failed", "skipped"}, Ends(result),
         pc \in {"next", "build"}, k <= Len(order), pc' \in {"next", "aborted"},
         result = "skipped" <=> entry = NoRecipe,
         result = "failed" /\ pc' = "next" => cont
  PROVE  IInv'
<1> USE DEF IInv
<1>1. /\ k \in Nat \ {0} /\ k' = k + 1 /\ order' = order /\ nodes' = nodes /\ edges' = edges
      /\ sum \in [{"succeeded", "failed", "skipped"} -> Nat]
      /\ sum' = [sum EXCEPT ![result] = @ + 1]
      /\ cont' = cont /\ index' = index /\ loaded' = loaded /\ building' = NoRecipe
      /\ dir' = dir /\ writes' = writes
  BY DEF Ends, TypeOK, plan, Zero
<1>2. /\ BuildSequence(nodes, edges, order)
      /\ DOMAIN outcome = {order[i] : i \in 1..(k - 1)}
      /\ Len(order) \in Nat
  BY DEF InOrder, Working, BuildSequence, Listing
<1>3. name \in nodes /\ name = order[k] /\ k \in 1..Len(order)
  BY <1>1, <1>2 DEF name, BuildSequence, Listing
<1>4. name \notin DOMAIN outcome
  <2>1. ASSUME NEW i \in 1..(k - 1) PROVE order[i] # order[k]
    <3>1. i \in 1..Len(order) /\ i # k
      BY <1>1, <1>3
    <3>2. QED
      BY <1>2, <1>3, <3>1 DEF BuildSequence, Listing
  <2>2. QED
    BY <1>2, <1>3, <2>1
<1>5. /\ DOMAIN outcome' = DOMAIN outcome \cup {name}
      /\ outcome'[name] = result
      /\ \A n \in DOMAIN outcome : outcome'[n] = outcome[n]
  BY <1>4 DEF Ends
<1>6. DOMAIN outcome' = {order[i] : i \in 1..(k' - 1)}
  BY <1>1, <1>2, <1>3, <1>5
<1>7. TypeOK'
  <2>1. /\ sum' \in [DOMAIN Zero -> Nat]
        /\ DOMAIN outcome' \subseteq nodes'
        /\ \A n \in DOMAIN outcome' : outcome'[n] \in DOMAIN Zero
    BY <1>1, <1>3, <1>5 DEF TypeOK, Zero
  <2>2. QED
    BY <1>1, <2>1 DEF TypeOK
<1>8. GraphLoaded' /\ Unbegun' /\ Parses'
  BY <1>1 DEF GraphLoaded, Unbegun, Parses
<1>9. InOrder'
  BY <1>1, <1>2, <1>3, <1>6 DEF InOrder
<1>10. Counted'
  <2> SUFFICES ASSUME pc' = "next"
               PROVE  Counted'
    BY DEF Counted, Working
  <2>1. sum'.succeeded + sum'.skipped + sum'.failed = k' - 1
    <3>1. sum.succeeded + sum.skipped + sum.failed = k - 1
      BY DEF Counted, Working
    <3>2. sum.succeeded \in Nat /\ sum.failed \in Nat /\ sum.skipped \in Nat
      BY <1>1
    <3>3. CASE result = "succeeded"
      BY <1>1, <3>1, <3>2, <3>3
    <3>4. CASE result = "failed"
      BY <1>1, <3>1, <3>2, <3>4
    <3>5. CASE result = "skipped"
      BY <1>1, <3>1, <3>2, <3>5
    <3>6. QED
      BY <3>3, <3>4, <3>5
  <2>2. \A n : EntryOf(n)' = EntryOf(n)
    BY <1>1 DEF EntryOf
  <2>3. sum'.failed \in Nat /\ sum'.failed >= sum.failed /\ (result = "failed" => sum'.failed > 0)
    BY <1>1
  <2>4. ASSUME NEW n \in DOMAIN outcome'
        PROVE  /\ outcome'[n] = "failed" => cont' /\ sum'.failed > 0
               /\ outcome'[n] = "skipped" <=> EntryOf(n)' = NoRecipe
    <3>1. CASE n = name
      BY <1>1, <1>5, <2>2, <2>3, <3>1 DEF entry
    <3>2. CASE n # name
      BY <1>1, <1>5, <2>2, <2>3, <3>2 DEF Counted, Working
    <3>3. QED
      BY <3>1, <3>2
  <2>5. QED
    BY <2>1, <2>4 DEF Counted
<1>11. QED
  BY <1>7, <1>8, <1>9, <1>10

(* Every step of the build loop keeps the order and the counts right.       *)
LEMMA LoopInv ==
  ASSUME IInv, Skip \/ ParseFails \/ ParseOk \/ BuildSucceeds \/ BuildFails \/ Finish
  PROVE  IInv'
<1> USE DEF IInv
<1>1. CASE Skip
  BY <1>1, EndsInv DEF Skip
<1>2. CASE ParseFails
  <2>1. Ends("failed") /\ pc' \in {"next", "aborted"} /\ (pc' = "next" => cont)
    BY <1>2 DEF ParseFails, Failure
  <2>2. QED
    BY <1>2, <2>1, EndsInv DEF ParseFails
<1>3. CASE ParseOk
  <2>1. TypeOK'
    BY <1>3 DEF ParseOk, TypeOK, plan, Parsed
  <2>2. GraphLoaded' /\ Unbegun' /\ InOrder'
    BY <1>3 DEF ParseOk, plan, GraphLoaded, Unbegun, InOrder, Working
  <2>3. Parses' /\ Counted'
    BY <1>3 DEF ParseOk, plan, Parses, Counted, Working, EntryOf, entry, name
  <2>4. QED
    BY <2>1, <2>2, <2>3
<1>4. CASE BuildSucceeds
  BY <1>4, EndsInv DEF BuildSucceeds, Parses
<1>5. CASE BuildFails
  <2>1. Ends("failed") /\ pc' \in {"next", "aborted"} /\ (pc' = "next" => cont)
    BY <1>5 DEF BuildFails, Failure
  <2>2. QED
    BY <1>5, <2>1, EndsInv DEF BuildFails, Parses
<1>6. CASE Finish
  <2>1. TypeOK'
    BY <1>6 DEF Finish, TypeOK, plan
  <2>2. GraphLoaded' /\ Unbegun' /\ InOrder' /\ Parses'
    BY <1>6 DEF Finish, plan, GraphLoaded, Unbegun, InOrder, Parses, Working
  <2>3. sum.failed \in Nat
    BY DEF TypeOK, Zero
  <2>4. Counted'
    BY <1>6, <2>3 DEF Finish, plan, Counted, Working, EntryOf
  <2>5. QED
    BY <2>1, <2>2, <2>4
<1>7. QED
  BY <1>1, <1>2, <1>3, <1>4, <1>5, <1>6

(* The invariant that the properties follow from, for any recipes.          *)
THEOREM Invariance == Spec => []IInv
<1>1. IInv /\ [Next]_vars => IInv'
  <2> SUFFICES ASSUME IInv, [Next]_vars PROVE IInv'
    OBVIOUS
  <2>1. CASE UNCHANGED vars
    <3>1. TypeOK' /\ GraphLoaded' /\ Unbegun' /\ InOrder'
      BY <2>1 DEF IInv, vars, TypeOK, GraphLoaded, Unbegun, InOrder, Working
    <3>2. Parses' /\ Counted'
      BY <2>1 DEF IInv, vars, Parses, Counted, Working, EntryOf, entry, name
    <3>3. QED
      BY <3>1, <3>2 DEF IInv
  <2>2. CASE Next
    BY <2>2, LoadInv, SortInv, OutsideInv, LoopInv DEF Next, BuildAllSteps, Exit, Kill
  <2>3. QED
    BY <2>1, <2>2
<1>2. QED
  BY InitInv, <1>1, PTL DEF Spec

(* The variables have the declared types.                                   *)
THEOREM TypeCorrect == Spec => []TypeOK
<1>1. IInv => TypeOK
  BY DEF IInv
<1>2. QED
  BY Invariance, <1>1, PTL

(* Every package is built after everything it needs to be built.            *)
THEOREM DepsFirstTheorem == Spec => []DepsFirst
<1>1. IInv => DepsFirst
  <2> SUFFICES ASSUME IInv, pc = "build", building \in loaded, NameOf[building] = name,
                      NEW b \in BuildNames(Text[building]) \ {name}
               PROVE  b \in DOMAIN outcome /\ (outcome[b] = "failed" => cont)
    BY DEF DepsFirst
  <2> USE DEF IInv
  <2>0. k \in Nat \ {0} /\ k <= Len(order) /\ Len(order) \in Nat
    BY DEF Parses, TypeOK
  <2>1. /\ BuildSequence(nodes, edges, order)
        /\ DOMAIN outcome = {order[i] : i \in 1..(k - 1)}
        /\ k \in 1..Len(order)
    BY <2>0 DEF InOrder, Working
  <2>2. Text[building].name = name
    BY BuildAllAssumption DEF TypeOK
  <2>3. <<name, b>> \in edges
    BY <2>2 DEF GraphLoaded, Edges, DocEdges, Docs
  <2>4. b \in nodes
    BY <2>3 DEF TypeOK
  <2>5. PICK i \in 1..Len(order) : order[i] = b
    BY <2>1, <2>4 DEF BuildSequence, Listing
  <2>6. i < k
    BY <2>1, <2>3, <2>5 DEF BuildSequence, Listing, name
  <2>7. b \in DOMAIN outcome
    BY <2>1, <2>5, <2>6
  <2>8. QED
    BY <2>7 DEF Counted, Working
<1>2. QED
  BY Invariance, <1>1, PTL

(* Success means that each package was built that there was a recipe for.   *)
THEOREM SuccessTheorem == Spec => []SuccessMeansBuilt
<1>1. IInv => SuccessMeansBuilt
  <2> SUFFICES ASSUME IInv, pc = "success"
               PROVE  /\ DOMAIN outcome = nodes
                      /\ \A n \in nodes : outcome[n] = IF EntryOf(n) = NoRecipe THEN "skipped" ELSE "succeeded"
                      /\ sum.succeeded + sum.skipped = Cardinality(nodes)
    BY DEF SuccessMeansBuilt
  <2> USE DEF IInv
  <2>1. /\ BuildSequence(nodes, edges, order)
        /\ DOMAIN outcome = {order[i] : i \in 1..(k - 1)}
        /\ Len(order) \in Nat /\ k = Len(order) + 1
        /\ sum.failed = 0
    BY DEF InOrder, Counted, Working, TypeOK, BuildSequence, Listing
  <2>2. DOMAIN outcome = nodes
    BY <2>1 DEF BuildSequence, Listing
  <2>3. ASSUME NEW n \in nodes
        PROVE  outcome[n] = IF EntryOf(n) = NoRecipe THEN "skipped" ELSE "succeeded"
    <3>1. outcome[n] \in {"succeeded", "failed", "skipped"}
      BY <2>2 DEF TypeOK, Zero
    <3>2. outcome[n] # "failed"
      BY <2>1, <2>2 DEF Counted, Working
    <3>3. QED
      BY <2>2, <3>1, <3>2 DEF Counted, Working
  <2>4. Cardinality(nodes) = Len(order)
    <3>1. order \in Bijection(1..Len(order), nodes)
      <4>1. order \in [1..Len(order) -> nodes]
        BY <2>1 DEF BuildSequence, Listing
      <4>2. order \in Injection(1..Len(order), nodes)
        BY <2>1, <4>1 DEF BuildSequence, Listing, Injection, IsInjective
      <4>3. order \in Surjection(1..Len(order), nodes)
        BY <2>1, <4>1 DEF BuildSequence, Listing, Surjection
      <4>4. QED
        BY <4>2, <4>3 DEF Bijection
    <3>2. IsFiniteSet(1..Len(order)) /\ Cardinality(1..Len(order)) = Len(order)
      <4>1. 1 \in Int /\ Len(order) \in Int
        BY <2>1
      <4>2. /\ IsFiniteSet(1..Len(order))
            /\ Cardinality(1..Len(order)) = IF 1 > Len(order) THEN 0 ELSE Len(order) - 1 + 1
        BY ONLY <4>1, FS_Interval
      <4>3. QED
        BY <2>1, <4>2
    <3>3. QED
      BY <3>1, <3>2, FS_Bijection DEF ExistsBijection
  <2>5. sum.succeeded + sum.skipped + sum.failed = Len(order)
    BY <2>1 DEF Counted, Working
  <2>6. sum.succeeded + sum.skipped = Cardinality(nodes)
    BY <2>1, <2>4, <2>5 DEF TypeOK, Zero
  <2>7. QED
    BY <2>2, <2>3, <2>6
<1>2. QED
  BY Invariance, <1>1, PTL

(* What removable lets go can go.                                           *)
THEOREM RemovableTheorem == Spec => []RemovableSafe
<1>1. IInv => RemovableSafe
  BY RemovableLemma DEF IInv, TypeOK, RemovableSafe
<1>2. QED
  BY Invariance, <1>1, PTL

-----------------------------------------------------------------------------
(* Induction over the naturals, for sets.                                    *)
LEMMA SetInduction ==
  ASSUME NEW T, 0 \in T, \A n \in Nat : n \in T => n + 1 \in T
  PROVE  \A n \in Nat : n \in T
<1> DEFINE U == Nat \ T
<1>1. SUFFICES ASSUME U # {} PROVE FALSE
  OBVIOUS
<1>2. PICK m \in U : \A j \in U : <<j, m>> \notin OpToRel(<, Nat)
  <2>1. U \subseteq Nat
    OBVIOUS
  <2> HIDE DEF U
  <2> QED
    BY <1>1, <2>1, WFMin, NatLessThanWellFounded
<1>3. m # 0 /\ m - 1 \in Nat /\ m - 1 < m
  OBVIOUS
<1>4. <<m - 1, m>> \in OpToRel(<, Nat)
  BY <1>3 DEF OpToRel
<1>5. m - 1 \in T
  BY <1>2, <1>3, <1>4
<1> QED
  BY <1>3, <1>5

(* Among keeps the elements of a set, all of them, once and in their order.  *)
IsAmong(s, S, f, n) ==
    f = [m \in 0..n |-> IF m = 0 THEN <<>>
                         ELSE IF s[m] \in S THEN Append(f[m - 1], s[m]) ELSE f[m - 1]]

LEMMA AmongExists ==
  ASSUME NEW s, NEW S
  PROVE  \A n \in Nat : \E f : IsAmong(s, S, f, n)
<1> DEFINE T == {n \in Nat : \E f : IsAmong(s, S, f, n)}
           After(q, m) == IF s[m] \in S THEN Append(q, s[m]) ELSE q
<1>1. 0 \in T
  <2> DEFINE f == [m \in 0..0 |-> <<>>]
  <2>1. IsAmong(s, S, f, 0)
    BY DEF IsAmong
  <2> QED
    BY <2>1
<1>2. ASSUME NEW n \in Nat, n \in T PROVE n + 1 \in T
  <2>1. PICK f : IsAmong(s, S, f, n)
    BY <1>2
  <2>2. \A m \in 0..n : f[m] = IF m = 0 THEN <<>> ELSE After(f[m - 1], m)
    BY <2>1 DEF IsAmong
  <2> HIDE DEF After
  <2> DEFINE h == [m \in 0..(n + 1) |-> IF m = n + 1 THEN After(f[n], n + 1) ELSE f[m]]
  <2>3. \A m \in 0..(n + 1) : h[m] = IF m = 0 THEN <<>> ELSE After(h[m - 1], m)
    <3> TAKE m \in 0..(n + 1)
    <3>1. CASE m = n + 1
      BY <3>1
    <3>2. CASE m # n + 1
      <4>1. m \in 0..n /\ h[m] = f[m] /\ (m # 0 => h[m - 1] = f[m - 1])
        BY <3>2
      <4> HIDE DEF h
      <4> QED
        BY <2>2, <4>1
    <3> QED
      BY <3>1, <3>2
  <2>4. h = [m \in 0..(n + 1) |-> h[m]]
    OBVIOUS
  <2> HIDE DEF h
  <2>5. h = [m \in 0..(n + 1) |-> IF m = 0 THEN <<>> ELSE After(h[m - 1], m)]
    BY <2>3, <2>4
  <2>6. IsAmong(s, S, h, n + 1)
    BY <2>5 DEF IsAmong, After
  <2> QED
    BY <2>6
<1> HIDE DEF T
<1>3. \A n \in Nat : n \in T
  BY <1>1, <1>2, SetInduction
<1> QED
  BY <1>3 DEF T

\* f has the elements of the first n of s that are in S, in their order.
Follows(s, S, f, n) ==
    /\ \A i \in 1..Len(f) : \E a \in 1..n : f[i] = s[a] /\ s[a] \in S
    /\ \A a \in 1..n : s[a] \in S => \E i \in 1..Len(f) : f[i] = s[a]
    /\ \A i, j \in 1..Len(f) : i < j => \E a, b \in 1..n : a < b /\ f[i] = s[a] /\ f[j] = s[b]

LEMMA FollowsStep ==
  ASSUME NEW N, NEW s \in Seq(N), NEW S, NEW n \in Nat, n + 1 \in 1..Len(s),
         NEW f \in Seq(N), Follows(s, S, f, n),
         NEW g, g = IF s[n + 1] \in S THEN Append(f, s[n + 1]) ELSE f
  PROVE  g \in Seq(N) /\ Follows(s, S, g, n + 1)
<1> DEFINE x == s[n + 1]
<1>1. x \in N /\ Len(f) \in Nat
  BY ElementOfSeq, LenProperties
<1>2. \A a : a \in 1..(n + 1) <=> a \in 1..n \/ a = n + 1
  OBVIOUS
<1>3. CASE x \notin S
  BY <1>2, <1>3 DEF Follows
<1>4. CASE x \in S
  <2> HIDE DEF x
  <2>1. /\ g \in Seq(N) /\ Len(g) = Len(f) + 1 /\ g[Len(f) + 1] = x
        /\ \A i \in 1..Len(f) : g[i] = f[i]
    BY <1>1, <1>4, AppendProperties DEF x
  <2>2. \A i : i \in 1..Len(g) <=> i \in 1..Len(f) \/ i = Len(f) + 1
    BY <1>1, <2>1
  <2>3. ASSUME NEW i \in 1..Len(g) PROVE \E a \in 1..(n + 1) : g[i] = s[a] /\ s[a] \in S
    <3>1. CASE i \in 1..Len(f)
      <4>1. \E a \in 1..n : f[i] = s[a] /\ s[a] \in S
        BY <3>1 DEF Follows
      <4>2. \A a \in 1..n : a \in 1..(n + 1)
        OBVIOUS
      <4> QED
        BY <2>1, <3>1, <4>1, <4>2
    <3>2. CASE i = Len(f) + 1
      <4>1. n + 1 \in 1..(n + 1) /\ g[i] = s[n + 1] /\ s[n + 1] \in S
        BY <1>2, <1>4, <2>1, <3>2 DEF x
      <4> QED
        BY <4>1
    <3> QED
      BY <2>2, <3>1, <3>2
  <2>4. ASSUME NEW a \in 1..(n + 1), s[a] \in S PROVE \E i \in 1..Len(g) : g[i] = s[a]
    <3>1. CASE a \in 1..n
      BY <2>1, <2>2, <2>4, <3>1 DEF Follows
    <3>2. CASE a = n + 1
      BY <2>1, <2>2, <3>2 DEF x
    <3> QED
      BY <1>2, <3>1, <3>2
  <2>5. ASSUME NEW i \in 1..Len(g), NEW j \in 1..Len(g), i < j
        PROVE  \E a, b \in 1..(n + 1) : a < b /\ g[i] = s[a] /\ g[j] = s[b]
    <3>1. i \in 1..Len(f)
      BY <1>1, <2>2, <2>5
    <3>2. CASE j \in 1..Len(f)
      BY <1>2, <2>1, <2>5, <3>1, <3>2 DEF Follows
    <3>3. CASE j = Len(f) + 1
      <4>1. PICK a : a \in 1..n /\ f[i] = s[a]
        BY <3>1 DEF Follows
      <4>2. a < n + 1 /\ g[i] = s[a] /\ g[j] = s[n + 1]
        BY <2>1, <3>1, <3>3, <4>1 DEF x
      <4> QED
        BY <1>2, <4>1, <4>2
    <3> QED
      BY <2>2, <3>2, <3>3
  <2> QED
    BY <2>1, <2>3, <2>4, <2>5 DEF Follows
<1> QED
  BY <1>3, <1>4

LEMMA AmongFollows ==
  ASSUME NEW N, NEW s \in Seq(N), NEW S
  PROVE  Among(s, S) \in Seq(N) /\ Follows(s, S, Among(s, S), Len(s))
<1>1. Len(s) \in Nat
  BY LenProperties
<1> DEFINE f == CHOOSE g : IsAmong(s, S, g, Len(s))
<1>2. Among(s, S) = f[Len(s)]
  BY DEF Among, IsAmong
<1>3. IsAmong(s, S, f, Len(s))
  BY <1>1, AmongExists
<1> HIDE DEF f
<1>4. \A m \in 0..Len(s) : f[m] = IF m = 0 THEN <<>>
                                  ELSE IF s[m] \in S THEN Append(f[m - 1], s[m]) ELSE f[m - 1]
  BY <1>3 DEF IsAmong
<1> DEFINE T == {n \in Nat : n <= Len(s) => f[n] \in Seq(N) /\ Follows(s, S, f[n], n)}
<1>5. 0 \in T
  <2>1. f[0] = <<>> /\ Len(<<>>) = 0 /\ <<>> \in Seq(N)
    BY <1>1, <1>4, EmptySeq
  <2>2. Follows(s, S, <<>>, 0)
    BY <2>1 DEF Follows
  <2> QED
    BY <2>1, <2>2
<1>6. ASSUME NEW n \in Nat, n \in T PROVE n + 1 \in T
  <2> SUFFICES ASSUME n + 1 <= Len(s)
               PROVE  f[n + 1] \in Seq(N) /\ Follows(s, S, f[n + 1], n + 1)
    OBVIOUS
  <2>1. n + 1 \in 1..Len(s) /\ f[n] \in Seq(N) /\ Follows(s, S, f[n], n)
    BY <1>1, <1>6
  <2>2. f[n + 1] = IF s[n + 1] \in S THEN Append(f[n], s[n + 1]) ELSE f[n]
    <3>1. n + 1 \in 0..Len(s) /\ n + 1 # 0 /\ (n + 1) - 1 = n
      BY <1>1
    <3> QED
      BY <1>4, <3>1
  <2> QED
    BY <2>1, <2>2, FollowsStep
<1> HIDE DEF T
<1>7. Len(s) \in T
  BY <1>1, <1>5, <1>6, SetInduction
<1> QED
  BY <1>1, <1>2, <1>7 DEF T

(* What Among keeps of a listing: the elements of S, all of them, once.      *)
Keeps(N, S, q) ==
    /\ q \in Seq(N)
    /\ \A i \in 1..Len(q) : q[i] \in S
    /\ \A n \in N : n \in S => \E j \in 1..Len(q) : q[j] = n
    /\ \A i, j \in 1..Len(q) : i < j => q[i] # q[j]

(* Each package of q comes after what it needs.                              *)
DepsPrecede(E, q) ==
    \A i \in 1..Len(q) : \A e \in E : e[1] = q[i] => \E j \in 1..(i - 1) : e[2] = q[j]

LEMMA AmongKeeps ==
  ASSUME NEW N, NEW s, Listing(N, s), NEW S
  PROVE  Keeps(N, S, Among(s, S))
<1> DEFINE q == Among(s, S)
<1>1. s \in Seq(N) /\ Len(s) \in Nat
  BY LenProperties DEF Listing
<1>2. q \in Seq(N) /\ Follows(s, S, q, Len(s))
  BY <1>1, AmongFollows
<1> HIDE DEF q
<1>3. ASSUME NEW n \in N, n \in S PROVE \E j \in 1..Len(q) : q[j] = n
  <2>1. PICK a : a \in 1..Len(s) /\ s[a] = n
    BY DEF Listing
  <2> QED
    BY <1>2, <1>3, <2>1 DEF Follows
<1>4. ASSUME NEW i \in 1..Len(q), NEW j \in 1..Len(q), i < j PROVE q[i] # q[j]
  <2>1. \E a, b \in 1..Len(s) : a < b /\ q[i] = s[a] /\ q[j] = s[b]
    BY <1>2, <1>4 DEF Follows
  <2>2. \A a, b \in 1..Len(s) : a < b => s[a] # s[b]
    <3> SUFFICES ASSUME NEW a \in 1..Len(s), NEW b \in 1..Len(s), a < b PROVE s[a] # s[b]
      OBVIOUS
    <3>1. a # b
      BY <1>1
    <3> QED
      BY <3>1 DEF Listing
  <2> QED
    BY <2>1, <2>2
<1>5. \A i \in 1..Len(q) : q[i] \in S
  BY <1>2 DEF Follows
<1>6. Keeps(N, S, q)
  BY <1>2, <1>3, <1>4, <1>5 DEF Keeps
<1> QED
  BY <1>6 DEF q

(* Of a build sequence, what is kept is in order if all it needs is kept.    *)
LEMMA AmongOrdered ==
  ASSUME NEW N, NEW E, E \subseteq N \X N, NEW s, BuildSequence(N, E, s),
         NEW S, \A a, b \in N : a \in S /\ <<a, b>> \in E => b \in S
  PROVE  DepsPrecede(E, Among(s, S))
<1> DEFINE q == Among(s, S)
<1>1. s \in Seq(N) /\ Len(s) \in Nat
  BY LenProperties DEF BuildSequence, Listing
<1>2. q \in Seq(N) /\ Follows(s, S, q, Len(s))
  BY <1>1, AmongFollows
<1>3. Keeps(N, S, q)
  BY AmongKeeps DEF BuildSequence
<1> HIDE DEF q
<1>4. Len(q) \in Nat
  BY <1>2, LenProperties
<1>5. ASSUME NEW i \in 1..Len(q), NEW e \in E, e[1] = q[i]
      PROVE  \E j \in 1..(i - 1) : e[2] = q[j]
  <2>1. e[1] \in N /\ e[2] \in N /\ <<e[1], e[2]>> \in E
    BY <1>5
  <2>2. e[1] \in S
    BY <1>3, <1>5 DEF Keeps
  <2>3. PICK j : j \in 1..Len(q) /\ q[j] = e[2]
    BY <1>3, <2>1, <2>2 DEF Keeps
  <2>4. ~(i <= j)
    <3> SUFFICES ASSUME i <= j PROVE FALSE
      OBVIOUS
    <3>1. \E a, b \in 1..Len(s) : a <= b /\ q[i] = s[a] /\ q[j] = s[b]
      <4>1. CASE i = j
        <5>1. \E a \in 1..Len(s) : q[i] = s[a]
          BY <1>2 DEF Follows
        <5>2. \A a \in 1..Len(s) : a <= a
          BY <1>1
        <5> QED
          BY <4>1, <5>1, <5>2
      <4>2. CASE i < j
        <5>1. \E a, b \in 1..Len(s) : a < b /\ q[i] = s[a] /\ q[j] = s[b]
          BY <1>2, <2>3, <4>2 DEF Follows
        <5>2. \A a, b \in 1..Len(s) : a < b => a <= b
          BY <1>1
        <5> QED
          BY <5>1, <5>2
      <4> QED
        BY <1>4, <2>3, <4>1, <4>2
    <3>2. PICK a, b : a \in 1..Len(s) /\ b \in 1..Len(s) /\ a <= b /\ q[i] = s[a] /\ q[j] = s[b]
      BY <3>1
    <3>3. <<s[a], s[b]>> \in E
      BY <1>5, <2>1, <2>3, <3>2
    <3>4. b < a
      BY <3>2, <3>3 DEF BuildSequence
    <3> QED
      BY <1>1, <3>2, <3>4
  <2> QED
    BY <1>4, <2>3, <2>4
<1>6. DepsPrecede(E, q)
  BY <1>5 DEF DepsPrecede
<1> QED
  BY <1>6 DEF q

(* A plan for some names: all of them, each package once, and nothing that   *)
(* none of them is or needs.                                                 *)
IsPlan(N, E, names, q) ==
    /\ q \in Seq(N \cup names)
    /\ \A n \in names : \E j \in 1..Len(q) : q[j] = n
    /\ \A i, j \in 1..Len(q) : i < j => q[i] # q[j]
    /\ \A i \in 1..Len(q) : q[i] \in names \/ \E n \in names \cap N : Reaches(N, E, n, q[i])

(* What a name needs has the name, and with a package what that needs.       *)
LEMMA NeededClosed ==
  ASSUME NEW N, NEW E, NEW n \in N
  PROVE  /\ n \in Needed(N, E, n)
         /\ \A a, b \in N : a \in Needed(N, E, n) /\ <<a, b>> \in E => b \in Needed(N, E, n)
<1>1. Reaches(N, E, n, n)
  BY DEF Reaches
<1> QED
  BY <1>1, ReachesTransitive, EdgeReaches DEF Needed

(* build_order: a plan, with all it needs before each package.               *)
LEMMA BuildOrderLemma ==
  ASSUME NEW N, NEW E, E \subseteq N \X N, NEW s, BuildSequence(N, E, s), NEW n \in N
  PROVE  IsPlan(N, E, {n}, BuildOrder(N, E, s, n)) /\ DepsPrecede(E, BuildOrder(N, E, s, n))
<1> DEFINE q == BuildOrder(N, E, s, n)
<1>1. Keeps(N, Needed(N, E, n), q)
  BY AmongKeeps DEF BuildOrder, BuildSequence
<1>2. DepsPrecede(E, q)
  BY NeededClosed, AmongOrdered DEF BuildOrder
<1> HIDE DEF q
<1>3. q \in Seq(N \cup {n}) /\ \E j \in 1..Len(q) : q[j] = n
  BY <1>1, NeededClosed DEF Keeps
<1>4. \A i \in 1..Len(q) : Reaches(N, E, n, q[i])
  BY <1>1 DEF Keeps, Needed
<1>5. IsPlan(N, E, {n}, q)
  BY <1>1, <1>3, <1>4 DEF Keeps, IsPlan
<1> QED
  BY <1>2, <1>5 DEF q


(* The elements of a finite set in any order are a listing of it.            *)
LEMMA ArrangementLists ==
  ASSUME NEW N, IsFiniteSet(N), NEW s \in Arrangements(N)
  PROVE  Listing(N, s)
<1>1. Cardinality(N) \in Nat
  BY FS_CardinalityType
<1>2. s \in [1..Cardinality(N) -> N]
  BY DEF Arrangements
<1>3. s \in Seq(N) /\ Len(s) = Cardinality(N) /\ DOMAIN s = 1..Len(s)
  BY <1>1, <1>2
<1> QED
  BY <1>3 DEF Arrangements, Listing

(* What is kept of the graph's packages, followed by the names the graph has *)
(* not, is a plan.                                                           *)
LEMMA PlanThenRest ==
  ASSUME NEW N, NEW E, E \subseteq N \X N, NEW names, NEW S, NEW a, Keeps(N, S, a),
         \A n \in names \cap N : n \in S,
         \A b \in S \cap N : b \in names \/ \E n \in names \cap N : Reaches(N, E, n, b),
         NEW r, Listing(Unknown(N, names), r)
  PROVE  /\ IsPlan(N, E, names, a \o r)
         /\ DepsPrecede(E, a) => DepsPrecede(E, a \o r)
<1> DEFINE q == a \o r
<1>1. a \in Seq(N) /\ r \in Seq(names \ N) /\ Len(a) \in Nat /\ Len(r) \in Nat
  BY LenProperties DEF Keeps, Listing, Unknown
<1>2. a \in Seq(N \cup names) /\ r \in Seq(N \cup names)
  BY <1>1
<1>3. /\ q \in Seq(N \cup names) /\ Len(q) = Len(a) + Len(r)
      /\ \A i \in 1..Len(a) : q[i] = a[i]
      /\ \A i \in 1..Len(r) : q[Len(a) + i] = r[i]
  BY <1>1, <1>2, ConcatProperties
<1> HIDE DEF q
<1>4. \A i \in 1..Len(a) : i \in 1..Len(q)
  BY <1>1, <1>3
<1>5. \A i \in 1..Len(q) : i \in 1..Len(a) \/ (i - Len(a) \in 1..Len(r) /\ i = Len(a) + (i - Len(a)))
  BY <1>1, <1>3
<1>6. \A i \in 1..Len(r) : Len(a) + i \in 1..Len(q)
  BY <1>1, <1>3
<1>7. /\ \A i \in 1..Len(a) : q[i] \in N /\ q[i] \in S
      /\ \A i \in 1..Len(q) : i \notin 1..Len(a) => q[i] \in names \ N /\ q[i] = r[i - Len(a)]
  <2>1. ASSUME NEW i \in 1..Len(a) PROVE q[i] \in N /\ q[i] \in S
    BY <1>1, <1>3, ElementOfSeq DEF Keeps
  <2>2. ASSUME NEW i \in 1..Len(q), i \notin 1..Len(a)
        PROVE  q[i] \in names \ N /\ q[i] = r[i - Len(a)]
    <3>1. i - Len(a) \in 1..Len(r) /\ i = Len(a) + (i - Len(a))
      BY <1>5, <2>2
    <3>2. q[i] = r[i - Len(a)]
      BY <1>3, <3>1
    <3> QED
      BY <1>1, <3>1, <3>2, ElementOfSeq
  <2> QED
    BY <2>1, <2>2
<1>8. ASSUME NEW n \in names PROVE \E j \in 1..Len(q) : q[j] = n
  <2>1. CASE n \in N
    <3>1. \E j \in 1..Len(a) : a[j] = n
      BY <2>1 DEF Keeps
    <3> QED
      BY <1>3, <1>4, <3>1
  <2>2. CASE n \notin N
    <3>1. \E j \in 1..Len(r) : r[j] = n
      BY <2>2 DEF Listing, Unknown
    <3> QED
      BY <1>3, <1>6, <3>1
  <2> QED
    BY <2>1, <2>2
<1>9. ASSUME NEW i \in 1..Len(q), NEW j \in 1..Len(q), i < j PROVE q[i] # q[j]
  <2>1. CASE j \in 1..Len(a)
    <3>1. i \in 1..Len(a)
      BY <1>1, <1>9, <2>1
    <3> QED
      BY <1>3, <1>9, <2>1, <3>1 DEF Keeps
  <2>2. CASE i \in 1..Len(a) /\ j \notin 1..Len(a)
    BY <1>7, <2>2
  <2>3. CASE i \notin 1..Len(a) /\ j \notin 1..Len(a)
    <3>1. i - Len(a) # j - Len(a) /\ i - Len(a) \in 1..Len(r) /\ j - Len(a) \in 1..Len(r)
      BY <1>1, <1>5, <1>9, <2>3
    <3>2. q[i] = r[i - Len(a)] /\ q[j] = r[j - Len(a)]
      BY <1>7, <2>3
    <3> QED
      BY <3>1, <3>2 DEF Listing
  <2> QED
    BY <2>1, <2>2, <2>3
<1>10. \A i \in 1..Len(q) : q[i] \in names \/ \E n \in names \cap N : Reaches(N, E, n, q[i])
  BY <1>7
<1>11. IsPlan(N, E, names, q)
  BY <1>3, <1>8, <1>9, <1>10 DEF IsPlan
<1>12. ASSUME DepsPrecede(E, a) PROVE DepsPrecede(E, q)
  <2> SUFFICES ASSUME NEW i \in 1..Len(q), NEW e \in E, e[1] = q[i]
               PROVE  \E j \in 1..(i - 1) : e[2] = q[j]
    BY DEF DepsPrecede
  <2>1. e[1] \in N
    OBVIOUS
  <2>2. i \in 1..Len(a)
    BY <1>7, <2>1
  <2>3. \E j \in 1..(i - 1) : e[2] = a[j]
    BY <1>3, <1>12, <2>2 DEF DepsPrecede
  <2>4. \A j \in 1..(i - 1) : j \in 1..Len(a)
    BY <1>1, <2>2
  <2> QED
    BY <1>3, <2>3, <2>4
<1> QED
  BY <1>11, <1>12 DEF q

(* What resolve_install_order collects: the names, and only what they need;  *)
(* without a cycle also all that it needs itself.                            *)
LEMMA CollectedLemma ==
  ASSUME NEW N, NEW E, NEW names
  PROVE  /\ \A n \in names : n \in Collected(N, E, names)
         /\ \A b \in Collected(N, E, names) \cap N :
               b \in names \/ \E n \in names \cap N : Reaches(N, E, n, b)
         /\ ~HasCycle(N, E) =>
               \A a, b \in N : a \in Collected(N, E, names) /\ <<a, b>> \in E =>
                   b \in Collected(N, E, names)
<1> DEFINE Part(n) == IF BuildOrderFails(N, E, n) THEN {n} ELSE Needed(N, E, n)
           C == Collected(N, E, names)
<1>1. \A b : b \in C <=> \E n \in names : b \in Part(n)
  BY DEF Collected
<1>2. \A n : n \in Part(n)
  BY NeededClosed DEF BuildOrderFails
<1>3. \A n, b : b \in Part(n) /\ b # n => n \in N /\ Reaches(N, E, n, b)
  BY DEF BuildOrderFails, Needed
<1>4. ASSUME ~HasCycle(N, E), NEW n, NEW a \in N, NEW b \in N, a \in Part(n), <<a, b>> \in E
      PROVE  b \in Part(n)
  <2>1. n \in N
    BY <1>3, <1>4
  <2>2. Part(n) = Needed(N, E, n)
    BY <1>4, <2>1 DEF BuildOrderFails
  <2> QED
    BY <1>4, <2>1, <2>2, NeededClosed
<1> HIDE DEF Part, C
<1>5. \A n \in names : n \in C
  BY <1>1, <1>2
<1>6. \A b \in C \cap N : b \in names \/ \E n \in names \cap N : Reaches(N, E, n, b)
  BY <1>1, <1>3
<1>7. ~HasCycle(N, E) => \A a, b \in N : a \in C /\ <<a, b>> \in E => b \in C
  BY <1>1, <1>4
<1> QED
  BY <1>5, <1>6, <1>7 DEF C

(* An install order is what is kept of a sort, and then the other names.     *)
LEMMA InstallOrderParts ==
  ASSUME NEW N, NEW E, NEW names, NEW q \in InstallOrders(N, E, names)
  PROVE  \E s \in BestEffortSorts(N, E), rest \in Arrangements(Unknown(N, names)) :
             q = Among(s, Collected(N, E, names)) \o rest
BY SMT DEF InstallOrders

(* resolve_install_order: a plan, and without a cycle an ordered one.        *)
LEMMA InstallLemma ==
  ASSUME NEW N, NEW E, E \subseteq N \X N, IsFiniteSet(N),
         NEW names, IsFiniteSet(names), NEW q \in InstallOrders(N, E, names)
  PROVE  IsPlan(N, E, names, q) /\ (HasCycle(N, E) \/ DepsPrecede(E, q))
<1> DEFINE C == Collected(N, E, names)
<1>1. PICK s \in BestEffortSorts(N, E), r \in Arrangements(Unknown(N, names)) : q = Among(s, C) \o r
  BY InstallOrderParts
<1>2. Listing(N, s) /\ (HasCycle(N, E) \/ BuildSequence(N, E, s))
  BY <1>1, ArrangementLists, SortsAreSequences DEF BestEffortSorts, BuildSequence
<1>3. Listing(Unknown(N, names), r)
  <2>1. IsFiniteSet(Unknown(N, names))
    BY FS_Subset DEF Unknown
  <2> QED
    BY <1>1, <2>1, ArrangementLists
<1>4. Keeps(N, C, Among(s, C))
  BY <1>2, AmongKeeps
<1>5. HasCycle(N, E) \/ DepsPrecede(E, Among(s, C))
  BY <1>2, CollectedLemma, AmongOrdered
<1>6. \A n \in names \cap N : n \in C
  BY CollectedLemma
<1>7. \A b \in C \cap N : b \in names \/ \E n \in names \cap N : Reaches(N, E, n, b)
  BY CollectedLemma
<1> HIDE DEF C
<1>8. /\ IsPlan(N, E, names, Among(s, C) \o r)
      /\ DepsPrecede(E, Among(s, C)) => DepsPrecede(E, Among(s, C) \o r)
  BY <1>3, <1>4, <1>6, <1>7, PlanThenRest
<1> QED
  BY <1>1, <1>5, <1>8

(* A plan to build a package (build_order) or to install several             *)
(* (resolve_install_order) has them once and nothing they do not need, and   *)
(* all they need before them unless the graph has a cycle: PlansComplete, in *)
(* the graph of any recipes, cyclic or not, for any names of packages.       *)
THEOREM PlansTheorem == Spec => []PlansComplete
<1> DEFINE Prior(q, i) == {q[j] : j \in 1..(i - 1)}
           Complete(q, names) ==
               /\ names \subseteq Prior(q, Len(q) + 1)
               /\ \A i \in DOMAIN q :
                     /\ q[i] \notin Prior(q, i)
                     /\ q[i] \in names \/ \E n \in names \cap nodes : Reaches(nodes, edges, n, q[i])
           DepsBefore(q) == \A i \in DOMAIN q, e \in edges : e[1] = q[i] => e[2] \in Prior(q, i)
<1>1. ASSUME NEW names, NEW q, IsPlan(nodes, edges, names, q)
      PROVE  Complete(q, names) /\ (DepsPrecede(edges, q) => DepsBefore(q))
  <2>1. q \in Seq(nodes \cup names)
    BY <1>1 DEF IsPlan
  <2>2. Len(q) \in Nat /\ DOMAIN q = 1..Len(q) /\ (Len(q) + 1) - 1 = Len(q)
    BY <2>1, LenProperties
  <2>3. names \subseteq Prior(q, Len(q) + 1)
    <3> SUFFICES ASSUME NEW n \in names PROVE n \in Prior(q, Len(q) + 1)
      OBVIOUS
    <3>1. \E j \in 1..Len(q) : q[j] = n
      BY <1>1 DEF IsPlan
    <3> QED
      BY <2>2, <3>1
  <2>4. ASSUME NEW i \in 1..Len(q) PROVE q[i] \notin Prior(q, i)
    <3>1. ASSUME NEW j \in 1..(i - 1) PROVE q[j] # q[i]
      <4>1. j \in 1..Len(q) /\ j < i
        BY <2>2
      <4> QED
        BY <1>1, <4>1 DEF IsPlan
    <3> QED
      BY <3>1
  <2>5. \A i \in 1..Len(q) : q[i] \in names \/ \E n \in names \cap nodes : Reaches(nodes, edges, n, q[i])
    BY <1>1 DEF IsPlan
  <2>6. ASSUME DepsPrecede(edges, q) PROVE DepsBefore(q)
    <3> SUFFICES ASSUME NEW i \in 1..Len(q), NEW e \in edges, e[1] = q[i] PROVE e[2] \in Prior(q, i)
      BY <2>2
    <3>1. \E j \in 1..(i - 1) : e[2] = q[j]
      BY <2>6 DEF DepsPrecede
    <3> QED
      BY <3>1
  <2> HIDE DEF Prior
  <2> QED
    BY <2>2, <2>3, <2>4, <2>5, <2>6
<1>2. ASSUME IInv, pc = "sort"
      PROVE  edges \subseteq nodes \X nodes /\ IsFiniteSet(nodes) /\ IsFiniteSet(Package)
  <2>1. IsFiniteSet(nodes)
    BY <1>2, NodesFinite DEF IInv, GraphLoaded, Parsed
  <2>2. Package \subseteq Nodes(Docs(Recipe))
    <3>1. ASSUME NEW r \in Recipe PROVE NameOf[r] \in Nodes(Docs(Recipe))
      <4>1. Text[r] \in Docs(Recipe) /\ NameOf[r] = Text[r].name
        BY BuildAllAssumption DEF Docs
      <4> QED
        BY <4>1 DEF Nodes
    <3> QED
      BY <3>1 DEF Package
  <2>3. IsFiniteSet(Package)
    BY <2>2, NodesFinite, FS_Subset
  <2> QED
    BY <1>2, <2>1, <2>3 DEF IInv, TypeOK
<1>3. ASSUME IInv, pc = "sort", NEW n \in nodes, NEW sort \in TopologicalSorts(nodes, edges)
      PROVE  LET q == BuildOrder(nodes, edges, sort, n) IN Complete(q, {n}) /\ DepsBefore(q)
  <2>1. BuildSequence(nodes, edges, sort)
    BY <1>2, <1>3, SortsAreSequences
  <2>2. /\ IsPlan(nodes, edges, {n}, BuildOrder(nodes, edges, sort, n))
        /\ DepsPrecede(edges, BuildOrder(nodes, edges, sort, n))
    BY <1>2, <1>3, <2>1, BuildOrderLemma
  <2> HIDE DEF Complete, DepsBefore
  <2> QED
    BY <1>1, <2>2
<1>4. ASSUME IInv, pc = "sort", NEW names \in SUBSET (nodes \cup Package),
             NEW q \in InstallOrders(nodes, edges, names)
      PROVE  Complete(q, names) /\ (HasCycle(nodes, edges) \/ DepsBefore(q))
  <2>1. IsFiniteSet(names)
    BY <1>2, <1>4, FS_Union, FS_Subset
  <2>2. IsPlan(nodes, edges, names, q) /\ (HasCycle(nodes, edges) \/ DepsPrecede(edges, q))
    BY <1>2, <1>4, <2>1, InstallLemma
  <2> HIDE DEF Complete, DepsBefore
  <2> QED
    BY <1>1, <2>2
<1>5. IInv => PlansComplete
  <2> HIDE DEF Complete, DepsBefore, Prior
  <2> SUFFICES ASSUME IInv, pc = "sort"
               PROVE  /\ \A n \in nodes, sort \in TopologicalSorts(nodes, edges) :
                            LET q == BuildOrder(nodes, edges, sort, n)
                            IN Complete(q, {n}) /\ DepsBefore(q)
                      /\ \A names \in SUBSET (nodes \cup Package) :
                            \A q \in InstallOrders(nodes, edges, names) :
                                Complete(q, names) /\ (HasCycle(nodes, edges) \/ DepsBefore(q))
    BY DEF PlansComplete, Complete, DepsBefore, Prior
  <2> QED
    BY <1>3, <1>4
<1>6. QED
  BY Invariance, <1>5, PTL

-----------------------------------------------------------------------------
(* What the rules of the validator rule out.                                *)
LEMMA AcceptedSound ==
  ASSUME NEW d, Accepted(d), d.release \in Nat
  PROVE  /\ d.name \in Kebab /\ d.version # Blank /\ d.release >= 1
         /\ d.build \notin {"no block", "no install", Blank}
         /\ d.sources # <<>>
         /\ \A i \in DOMAIN d.sources : d.sources[i].hash \in {"none", "lower", "upper"}
         /\ \A dep \in d.depends : DependencyParses(dep) /\ dep.name # d.name
<1> DEFINE Err(field) == <<"error", field>>
<1>1. \A field : Err(field) \notin Issues(d)
  BY DEF Accepted
<1>2. \A field, wrong : wrong => Err(field) \in Error(field, wrong)
  BY DEF Error
<1> HIDE DEF Err
<1>3. d.name \in Kebab /\ d.version # Blank /\ ~(d.release < 1)
  <2>1. Error("name", d.name \notin Kebab) \subseteq Issues(d)
    BY DEF Issues
  <2>2. Error("version", d.version = Blank) \subseteq Issues(d)
    BY DEF Issues, Required
  <2>3. Error("release", d.release < 1) \subseteq Issues(d)
    BY DEF Issues
  <2>4. QED
    BY <1>1, <1>2, <2>1, <2>2, <2>3
<1>4. d.build \notin {"no block", "no install", Blank}
  <2>1. /\ Error("build", d.build = "no block") \subseteq Issues(d)
        /\ Error("build.install", d.build \in {"no install", Blank}) \subseteq Issues(d)
    BY DEF Issues, BuildIssues
  <2>2. QED
    BY <1>1, <1>2, <2>1
<1>5. SourcesIssues(d) \subseteq Issues(d)
  BY DEF Issues
<1>6. d.sources # <<>>
  <2>1. Error("sources", d.sources = <<>>) \subseteq Issues(d)
    BY <1>5 DEF SourcesIssues
  <2>2. QED
    BY <1>1, <1>2, <2>1
<1>7. ASSUME NEW i \in DOMAIN d.sources
      PROVE  d.sources[i].hash \in {"none", "lower", "upper"}
  <2>1. SourceIssues(d.sources[i]) \subseteq SourcesIssues(d)
    BY DEF SourcesIssues
  <2>2. Error("hash", d.sources[i].hash \notin {"none", "lower", "upper"}) \subseteq SourceIssues(d.sources[i])
    BY DEF SourceIssues
  <2>3. QED
    BY <1>1, <1>2, <1>5, <2>1, <2>2
<1>8. ASSUME NEW dep \in d.depends
      PROVE  DependencyParses(dep) /\ dep.name # d.name
  <2>1. Error(dep.section, ~DependencyParses(dep) \/ dep.name = d.name) \subseteq DependsIssues(d)
    BY DEF DependsIssues
  <2>2. DependsIssues(d) \subseteq Issues(d)
    BY DEF Issues
  <2>3. QED
    BY <1>1, <1>2, <2>1, <2>2
<1>9. d.release >= 1
  BY <1>3
<1>10. QED
  BY <1>3, <1>4, <1>6, <1>7, <1>8, <1>9

(* What is built is fit for the rest of ribosome.                           *)
THEOREM BuildsOnlySoundTheorem == Spec => []BuildsOnlySound
<1>1. IInv => BuildsOnlySound
  <2> SUFFICES ASSUME IInv, pc = "build" PROVE BuildsOnlySound
    BY DEF BuildsOnlySound
  <2> DEFINE d == Text[building]
  <2>1. building \in Recipe /\ Accepted(d)
    BY DEF IInv, Parses, Parsed
  <2>2. d.release \in Nat /\ d.build \in {"no block", "no install", Blank, "script"}
    BY <2>1, BuildAllAssumption
  <2> HIDE DEF d
  <2>3. /\ d.name \in Kebab /\ d.version # Blank /\ d.release >= 1
        /\ d.build \notin {"no block", "no install", Blank}
        /\ d.sources # <<>>
        /\ \A i \in DOMAIN d.sources : d.sources[i].hash \in {"none", "lower", "upper"}
        /\ \A dep \in d.depends : DependencyParses(dep) /\ dep.name # d.name
    BY <2>1, <2>2, AcceptedSound
  <2>4. d.build = "script"
    BY <2>2, <2>3
  <2>5. BuildNames(d) = {dep.name : dep \in {s \in d.depends : s.section = "build"}}
    BY <2>3 DEF BuildNames
  <2>6. ASSUME building \in loaded, NEW b \in BuildNames(d)
        PROVE  <<d.name, b>> \in edges
    <3>1. b # d.name
      BY <2>3 DEF BuildNames
    <3>2. <<d.name, b>> \in DocEdges(d)
      BY <3>1 DEF DocEdges
    <3>3. d \in Docs(loaded)
      BY <2>6 DEF Docs, d
    <3>4. QED
      BY <3>2, <3>3 DEF IInv, GraphLoaded, Edges
  <2>7. QED
    BY <2>3, <2>4, <2>5, <2>6 DEF BuildsOnlySound, d
<1>2. QED
  BY Invariance, <1>1, PTL
=============================================================================
