---------------------------- MODULE FetchProofs ----------------------------
(***************************************************************************)
(* Proofs about Fetch.  From a first invariant its types, and that a fetch *)
(* which ended well has what it answers for (Served): a package counts as  *)
(* done when each of its sources with a hash is named, unless a failure    *)
(* was counted.  From a second one, what was counted, asked and unpacked   *)
(* so far, that every source is counted once (Accounted), that none is     *)
(* given up before its last address (GivesUpLast), and that what a build   *)
(* unpacked is what its recipe asks for (ExtractedRight).                  *)
(***************************************************************************)
EXTENDS Fetch, FiniteSetTheorems, SequenceTheorems, WellFoundedInduction, TLAPS

Working == {"source", "try", "put", "name", "write"}

\* The first n sources of package r are named, if they have a hash.
SourcesNamed(names, r, n) ==
    \A j \in 1..n : Sources[r][j].hashed => names[Sources[r][j].file] \in Content
PackagesNamed(names, n) ==
    \A q \in 1..n : SourcesNamed(names, Batch[q], Len(Sources[Batch[q]]))

Fetching ==
    [op : {"fetch"}, p : Nat, i : Nat, tries : Seq(1..(MaxRetries + 1)), rep : Count, sum : Count]

\* Where a fetch is, and what it has done unless it counted a failure.
Placed ==
    pc \in Working =>
        /\ run.op = "fetch"
        /\ run.p \in 1..Len(Batch)
        /\ run.i \in 1..Len(Sources[package])
        /\ run.rep["failed"] = 0 => SourcesNamed(refs, package, run.i - 1)
        /\ run.sum["failed"] = 0 => PackagesNamed(refs, run.p - 1)
Fetched ==
    pc = "fetched" => /\ run.op = "fetch"
                      /\ run.sum["failed"] = 0 => PackagesNamed(refs, Len(Batch))
Downloading ==
    pc \in Working \ {"source"} => /\ source.hashed /\ ~Named(source.file)
                                   /\ run.tries # <<>>
Extracting ==
    /\ pc \in {"lookup", "unpack"} => run.op = "extract"
    /\ pc = "unpack" => run.digest \in Content

\* What is named has a hash of its file name and is there, unless it is stale; ready
\* names stay.
NamedGood ==
    \A f \in File : Named(f) /\ f \notin stale => refs[f] \in Hashes(f) /\ refs[f] \in objects
ReadyNamed == \A f \in ready : f \in File /\ Named(f)

IInv == TypeOK /\ Placed /\ Fetched /\ Downloading /\ Extracting /\ NamedGood /\ ReadyNamed

-----------------------------------------------------------------------------
(* Of the recipes of a package there is a latest, and it is the one that a   *)
(* name without a pin or a lock stands for (MrnaIndex::resolve).             *)
THEOREM LatestIsLast ==
  ASSUME NEW entries, entries \subseteq Recipe, entries # {}
  PROVE  /\ Latest(entries) \in entries
         /\ \A q \in entries : TextRank[VersionOf[q]] <= TextRank[VersionOf[Latest(entries)]]
<1> DEFINE rank(r) == TextRank[VersionOf[r]]
           Above(r) == {q \in entries : rank(q) > rank(r)}
           T == {Above(r) : r \in entries}
<1>1. \A r \in entries : rank(r) \in Nat
  BY IndexAssumption DEF Version
<1>2. IsFiniteSet(entries)
  BY IndexAssumption, FS_Subset
<1>3. T \subseteq FiniteSubsetsOf(entries) /\ T # {}
  <2>1. \A r \in entries : Above(r) \subseteq entries /\ IsFiniteSet(Above(r))
    BY <1>2, FS_Subset
  <2> HIDE DEF Above
  <2> QED
    BY <2>1 DEF FiniteSubsetsOf
<1>4. IsWellFoundedOn(StrictSubsetOrdering(entries), FiniteSubsetsOf(entries))
  BY FS_StrictSubsetOrderingWellFounded
<1>5. PICK S \in T : \A U \in T : <<U, S>> \notin StrictSubsetOrdering(entries)
  <2> HIDE DEF T
  <2> QED
    BY <1>3, <1>4, WFMin
<1>6. PICK r \in entries : S = Above(r)
  OBVIOUS
<1>7. \A q \in entries : rank(q) <= rank(r)
  <2> SUFFICES ASSUME NEW q \in entries, ~(rank(q) <= rank(r))
               PROVE  FALSE
    OBVIOUS
  <2>1. rank(q) \in Nat /\ rank(r) \in Nat
    BY <1>1
  <2>2. q \in Above(r) /\ q \notin Above(q)
    BY <2>1
  <2>3. Above(q) \subseteq Above(r)
    BY <1>1, <2>1
  <2>4. <<Above(q), Above(r)>> \in StrictSubsetOrdering(entries)
    BY <2>2, <2>3 DEF StrictSubsetOrdering
  <2> QED
    BY <1>5, <1>6, <2>4
<1> QED
  BY <1>7 DEF Latest

LEMMA BatchRecipes ==
  /\ Len(Batch) \in Nat \ {0}
  /\ DOMAIN Batch = 1..Len(Batch)
  /\ \A k \in 1..Len(Batch) : Batch[k] \in Recipe
<1>1. Names \in Seq(Package) /\ Range(Names) = Package /\ Package # {}
  BY FetchAssumption DEF Package
<1>2. Names # <<>>
  BY <1>1 DEF Range
<1>3. Len(Names) \in Nat \ {0} /\ DOMAIN Names = 1..Len(Names)
  BY <1>1, <1>2
<1>4. DOMAIN Batch = 1..Len(Names)
  BY <1>3 DEF Batch
<1>5. \A k \in 1..Len(Names) : Batch[k] \in Recipe
  <2> TAKE k \in 1..Len(Names)
  <2> DEFINE entries == Entries(Recipe, Names[k])
  <2>1. entries # {} /\ entries \subseteq Recipe
    BY <1>1, <1>3 DEF Entries, Package
  <2>2. Batch[k] = Latest(entries)
    BY <1>3, <2>1 DEF Batch, Resolve
  <2> QED
    BY <2>1, <2>2, LatestIsLast
<1>6. Len(Batch) = Len(Names)
  BY <1>3, <1>4, <1>5
<1> QED
  BY <1>3, <1>4, <1>5, <1>6

-----------------------------------------------------------------------------
LEMMA SourcesAreSources ==
  ASSUME NEW r \in Recipe
  PROVE  /\ Len(Sources[r]) \in Nat \ {0}
         /\ DOMAIN Sources[r] = 1..Len(Sources[r])
         /\ \A j \in 1..Len(Sources[r]) : Sources[r][j] \in Source
<1>1. Sources[r] \in Seq(Source) /\ Sources[r] # <<>>
  BY FetchAssumption
<1> QED
  BY <1>1

LEMMA SourceInRecipe ==
  ASSUME NEW r \in Recipe, NEW j \in 1..Len(Sources[r])
  PROVE  /\ Sources[r][j] \in Source
         /\ Sources[r][j].hashed \in BOOLEAN
         /\ Sources[r][j].file \in File
         /\ Sources[r][j].hashed => <<r, j>> \in Entry /\ FileOf(<<r, j>>) = Sources[r][j].file
<1>1. j \in DOMAIN Sources[r] /\ Sources[r][j] \in Source
  BY SourcesAreSources
<1>2. Sources[r][j] \in Range(Sources[r])
  BY <1>1 DEF Range
<1> QED
  BY <1>1, <1>2, FetchAssumption DEF File, Entry, FileOf

LEMMA EntriesAreSources ==
  ASSUME NEW e \in Entry
  PROVE  /\ e[1] \in Recipe /\ e[2] \in 1..Len(Sources[e[1]]) /\ Sources[e[1]][e[2]].hashed
         /\ FileOf(e) \in File
<1>1. e[1] \in Recipe /\ e[2] \in DOMAIN Sources[e[1]] /\ Sources[e[1]][e[2]].hashed
  BY DEF Entry
<1> QED
  BY <1>1, SourcesAreSources, SourceInRecipe DEF FileOf

LEMMA InitInv == Init => IInv
<1> SUFFICES ASSUME Init PROVE IInv
  OBVIOUS
<1>1. TypeOK
  BY DEF Init, TypeOK, Run, NoRun, Steps
<1>2. \A f \in File : ~Named(f)
  BY FetchAssumption DEF Init, Named
<1> QED
  BY <1>1, <1>2 DEF Init, IInv, Placed, Fetched, Downloading, Extracting, NamedGood, ReadyNamed,
                    Working

(* The source at hand, when there is one.                                    *)
LEMMA AtHand ==
  ASSUME IInv, pc \in Working
  PROVE  /\ run \in Fetching
         /\ run.p \in 1..Len(Batch) /\ run.i \in 1..Len(Sources[package])
         /\ package \in Recipe
         /\ Len(Sources[package]) \in Nat \ {0}
         /\ source.hashed \in BOOLEAN
         /\ source.file \in File
         /\ source.hashed => <<package, run.i>> \in LatestEntry /\ FileOf(<<package, run.i>>) = source.file
<1>1. run.op = "fetch" /\ run.p \in 1..Len(Batch) /\ run.i \in 1..Len(Sources[package])
  BY DEF IInv, Placed
<1>2. run \in Run
  BY DEF IInv, TypeOK
<1>3. package \in Recipe /\ package \in Range(Batch)
  BY <1>1, BatchRecipes DEF package, Range
<1>4. source.hashed => <<package, run.i>> \in LatestEntry /\ FileOf(<<package, run.i>>) = source.file
  BY <1>1, <1>3, SourceInRecipe DEF source, LatestEntry
<1> QED
  BY <1>1, <1>2, <1>3, <1>4, SourceInRecipe, SourcesAreSources DEF source, Run, Fetching

-----------------------------------------------------------------------------
\* What a step of the fetch may do to the names: those that there are stay.
NamesStay == \A f \in File : refs[f] \in Content => refs'[f] \in Content

\* What the steps to the next source and to the next package leave right.
Onwards ==
    /\ run' \in Run /\ pc' \in Steps
    /\ Placed' /\ Fetched' /\ Downloading' /\ Extracting'

LEMMA PackageAddsKeeps ==
  ASSUME IInv, pc \in Working, NamesStay, NEW c \in Count, PackageAdds(c),
         c["failed"] = 0 => SourcesNamed(refs', package, Len(Sources[package]))
  PROVE  Onwards
<1>1. run \in Fetching /\ run.p \in 1..Len(Batch) /\ Len(Batch) \in Nat /\ package = Batch[run.p]
  BY AtHand, BatchRecipes DEF package
<1>2. /\ run'.op = "fetch" /\ run'.p = run.p + 1 /\ run'.i = 1 /\ run'.rep = Zero
      /\ run'.sum = Plus(run.sum, c)
      /\ pc' = IF run.p < Len(Batch) THEN "source" ELSE "fetched"
  BY <1>1 DEF PackageAdds, Fetching
<1>3. Zero \in Count /\ Plus(run.sum, c) \in Count
  BY <1>1 DEF Zero, Plus, Count, Fetching
<1>4. run' \in Fetching
  <2>1. run' = [op |-> run.op, p |-> run.p + 1, i |-> 1, tries |-> <<>>, rep |-> Zero,
                sum |-> Plus(run.sum, c)]
    BY <1>1 DEF PackageAdds, Fetching
  <2>2. <<>> \in Seq(1..(MaxRetries + 1))
    OBVIOUS
  <2> QED
    BY <1>1, <1>3, <2>1, <2>2 DEF Fetching
<1>5. run'.sum["failed"] = 0 => PackagesNamed(refs', run.p)
  <2> SUFFICES ASSUME run'.sum["failed"] = 0, NEW q \in 1..run.p
               PROVE  SourcesNamed(refs', Batch[q], Len(Sources[Batch[q]]))
    BY DEF PackagesNamed
  <2>1. run.sum["failed"] = 0 /\ c["failed"] = 0
    <3>1. run.sum \in Count
      BY <1>1 DEF Fetching
    <3>2. run.sum["failed"] \in Nat /\ c["failed"] \in Nat
      BY <3>1 DEF Count, Kind
    <3>3. run'.sum["failed"] = run.sum["failed"] + c["failed"]
      BY <1>2 DEF Plus, Kind
    <3> HIDE <1>2
    <3> QED
      BY <3>2, <3>3
  <2>2. CASE q = run.p
    BY <1>1, <2>1, <2>2
  <2>3. CASE q # run.p
    <3>1. q \in 1..(run.p - 1) /\ q \in 1..Len(Batch)
      BY <1>1, <2>3 DEF Fetching
    <3>2. SourcesNamed(refs, Batch[q], Len(Sources[Batch[q]]))
      BY <2>1, <3>1 DEF IInv, Placed, PackagesNamed
    <3>3. Batch[q] \in Recipe
      BY <3>1, BatchRecipes
    <3> QED
      BY <3>2, <3>3, SourceInRecipe DEF SourcesNamed, NamesStay
  <2> QED
    BY <2>2, <2>3
<1>6. CASE run.p < Len(Batch)
  <2>1. pc' = "source" /\ run'.p \in 1..Len(Batch) /\ run'.p - 1 = run.p
    BY <1>1, <1>2, <1>6 DEF Fetching
  <2>2. package' \in Recipe
    BY <2>1, BatchRecipes DEF package
  <2>3. run'.i \in 1..Len(Sources[package']) /\ SourcesNamed(refs', package', run'.i - 1)
    BY <1>2, <2>2, SourcesAreSources DEF SourcesNamed
  <2>4. Placed'
    BY <1>2, <1>5, <2>1, <2>3 DEF Placed
  <2> QED
    BY <1>4, <2>1, <2>4 DEF Onwards, Fetched, Downloading, Extracting, Run, Fetching, Steps, Working
<1>7. CASE ~(run.p < Len(Batch))
  <2>1. pc' = "fetched" /\ run.p = Len(Batch)
    BY <1>1, <1>2, <1>7
  <2>2. Fetched'
    BY <1>2, <1>5, <2>1 DEF Fetched
  <2> QED
    BY <1>4, <2>1, <2>2 DEF Onwards, Placed, Downloading, Extracting, Run, Fetching, Steps, Working
<1> QED
  BY <1>6, <1>7

LEMMA CountsKeeps ==
  ASSUME IInv, pc \in Working, NamesStay, NEW kind \in Kind, Counts(kind),
         kind # "failed" => (source.hashed => refs'[source.file] \in Content)
  PROVE  Onwards
<1> DEFINE rep == [run.rep EXCEPT ![kind] = @ + 1]
<1>1. /\ run \in Fetching /\ package \in Recipe /\ run.i \in 1..Len(Sources[package])
      /\ run.p \in 1..Len(Batch) /\ Len(Sources[package]) \in Nat
  BY AtHand
<1>2. run.rep \in Count /\ rep \in Count
  <2>1. run.rep \in [Kind -> Nat]
    BY <1>1 DEF Fetching, Count
  <2> QED
    BY <2>1 DEF Count
<1>3. rep["failed"] = 0 => SourcesNamed(refs', package, run.i)
  <2> SUFFICES ASSUME rep["failed"] = 0, NEW j \in 1..run.i, Sources[package][j].hashed
               PROVE  refs'[Sources[package][j].file] \in Content
    BY DEF SourcesNamed
  <2>1. run.rep["failed"] = 0 /\ kind # "failed"
    <3>1. run.rep \in [Kind -> Nat] /\ "failed" \in Kind
      BY <1>2 DEF Count, Kind
    <3> QED
      BY <3>1
  <2>2. CASE j = run.i
    BY <2>1, <2>2 DEF source
  <2>3. CASE j # run.i
    <3>1. j \in 1..(run.i - 1) /\ j \in 1..Len(Sources[package])
      BY <1>1, <2>3 DEF Fetching
    <3>2. refs[Sources[package][j].file] \in Content
      BY <2>1, <3>1 DEF IInv, Placed, SourcesNamed
    <3> QED
      BY <1>1, <3>1, <3>2, SourceInRecipe DEF NamesStay
  <2> QED
    BY <2>2, <2>3
<1> HIDE DEF rep
<1>4. CASE run.i < Len(Sources[package])
  <2>1. run' = [run EXCEPT !.i = @ + 1, !.tries = <<>>, !.rep = rep] /\ pc' = "source"
    BY <1>4 DEF Counts, rep
  <2>2. /\ run'.op = "fetch" /\ run'.p = run.p /\ run'.i = run.i + 1
        /\ run'.rep = rep /\ run'.sum = run.sum
    BY <1>1, <2>1 DEF Fetching
  <2>3. run' \in Fetching
    <3>1. run' = [op |-> run.op, p |-> run.p, i |-> run.i + 1, tries |-> <<>>, rep |-> rep,
                  sum |-> run.sum]
      BY <1>1, <2>1 DEF Fetching
    <3>2. <<>> \in Seq(1..(MaxRetries + 1))
      OBVIOUS
    <3> QED
      BY <1>1, <1>2, <3>1, <3>2 DEF Fetching
  <2>4. package' = package
    BY <2>2 DEF package
  <2>5. run.sum["failed"] = 0 => PackagesNamed(refs', run.p - 1)
    <3> SUFFICES ASSUME run.sum["failed"] = 0, NEW q \in 1..(run.p - 1)
                 PROVE  SourcesNamed(refs', Batch[q], Len(Sources[Batch[q]]))
      BY DEF PackagesNamed
    <3>1. SourcesNamed(refs, Batch[q], Len(Sources[Batch[q]]))
      BY DEF IInv, Placed, PackagesNamed
    <3>2. Batch[q] \in Recipe
      BY <1>1, BatchRecipes
    <3> QED
      BY <3>1, <3>2, SourceInRecipe DEF SourcesNamed, NamesStay
  <2>6. Placed'
    BY <1>1, <1>3, <1>4, <2>2, <2>4, <2>5 DEF Placed, Fetching
  <2> QED
    BY <2>1, <2>3, <2>6 DEF Onwards, Fetched, Downloading, Extracting, Run, Fetching, Steps, Working
<1>5. CASE ~(run.i < Len(Sources[package]))
  <2>1. PackageAdds(rep) /\ run.i = Len(Sources[package])
    BY <1>1, <1>5 DEF Counts, rep
  <2> QED
    BY <1>2, <1>3, <2>1, PackageAddsKeeps
<1> QED
  BY <1>4, <1>5

LEMMA AbortsKeeps ==
  ASSUME IInv, pc \in Working, NamesStay, Aborts
  PROVE  Onwards
<1> DEFINE c == [Zero EXCEPT !["failed"] = Len(Sources[package])]
<1>1. c \in Count /\ c["failed"] # 0
  BY AtHand DEF Count, Kind, Zero
<1>2. PackageAdds(c)
  BY DEF Aborts
<1> HIDE DEF c
<1> QED
  BY <1>1, <1>2, PackageAddsKeeps

LEMMA AnotherTry ==
  ASSUME IInv, pc = "try", NEW tries \in Seq(1..(MaxRetries + 1)), tries # <<>>,
         run' = [run EXCEPT !.tries = tries], UNCHANGED <<pc, refs>>
  PROVE  Onwards
<1>1. run \in Fetching
  BY AtHand DEF Working
<1>2. run' = [op |-> "fetch", p |-> run.p, i |-> run.i, tries |-> tries, rep |-> run.rep,
              sum |-> run.sum]
  BY <1>1 DEF Fetching
<1>3. run' \in Fetching
  BY <1>1, <1>2 DEF Fetching
<1>4. package' = package /\ source' = source
  BY <1>2 DEF package, source
<1> QED
  BY <1>2, <1>3, <1>4 DEF IInv, Onwards, Placed, Fetched, Downloading, Extracting, Run, Fetching,
                          Steps, Working, Named

LEMMA NextUrlKeeps ==
  ASSUME IInv, pc = "try", UNCHANGED refs, NextUrl
  PROVE  Onwards
<1>1. pc \in Working /\ NamesStay
  BY DEF Working, NamesStay
<1>2. CASE Len(run.tries) < Urls(source.file)
  <2>1. run.tries \in Seq(1..(MaxRetries + 1))
    BY <1>1, AtHand DEF Fetching
  <2>2. Append(run.tries, 1) \in Seq(1..(MaxRetries + 1)) /\ Append(run.tries, 1) # <<>>
    BY <2>1 DEF MaxRetries
  <2> QED
    BY <1>2, <2>2, AnotherTry DEF NextUrl
<1>3. CASE ~(Len(run.tries) < Urls(source.file))
  BY <1>1, <1>3, CountsKeeps DEF NextUrl, Kind
<1> QED
  BY <1>2, <1>3

-----------------------------------------------------------------------------
LEMMA OnwardsInv ==
  ASSUME IInv, Onwards, UNCHANGED <<store, live, want, src, ready, stale>>
  PROVE  IInv'
BY DEF IInv, Onwards, TypeOK, NamedGood, ReadyNamed, Named, Hashes, store

LEMMA FetchSource ==
  ASSUME IInv, SourceCached \/ SourceSkipped
  PROVE  IInv'
<1>1. pc \in Working /\ NamesStay /\ UNCHANGED <<store, live, want, src, ready, stale>>
  BY DEF SourceCached, SourceSkipped, Working, NamesStay, store
<1>2. CASE SourceCached
  BY <1>1, <1>2, CountsKeeps, OnwardsInv DEF SourceCached, Kind, Named, store
<1>3. CASE SourceSkipped
  BY <1>1, <1>3, CountsKeeps, OnwardsInv DEF SourceSkipped, Kind
<1> QED
  BY <1>2, <1>3

LEMMA FetchDownload ==
  ASSUME IInv, Download
  PROVE  IInv'
<1>1. run \in Fetching
  BY AtHand DEF Download, Working
<1>2. <<1>> \in Seq(1..(MaxRetries + 1)) /\ <<1>> # <<>>
  BY DEF MaxRetries
<1>3. run' = [op |-> "fetch", p |-> run.p, i |-> run.i, tries |-> <<1>>, rep |-> run.rep,
              sum |-> run.sum]
  BY <1>1 DEF Download, Fetching
<1>4. run' \in Fetching
  BY <1>1, <1>2, <1>3 DEF Fetching
<1>5. package' = package /\ source' = source
  BY <1>3 DEF package, source
<1>6. Onwards
  BY <1>2, <1>3, <1>4, <1>5 DEF IInv, Onwards, Placed, Fetched, Downloading, Extracting, Run, Fetching,
                          Steps, Working, Named, Download, store
<1> QED
  BY <1>6, OnwardsInv DEF Download

LEMMA FetchReceives ==
  ASSUME IInv, NEW c \in Content, Received(c)
  PROVE  IInv'
<1>1. UNCHANGED <<store, live, want, src, ready, stale>> /\ UNCHANGED refs /\ pc = "try"
  BY DEF Received, store
<1>2. CASE c = expected
  <2>1. pc' = "put" /\ UNCHANGED run
    BY <1>2 DEF Received
  <2>2. package' = package /\ source' = source
    BY <2>1 DEF package, source
  <2>3. Onwards
    BY <1>1, <2>1, <2>2 DEF IInv, TypeOK, Onwards, Placed, Fetched, Downloading, Extracting, Steps,
                            Working, Named
  <2> QED
    BY <1>1, <2>3, OnwardsInv
<1>3. CASE c # expected
  BY <1>1, <1>3, NextUrlKeeps, OnwardsInv DEF Received
<1> QED
  BY <1>2, <1>3

LEMMA FrontInSeq ==
  ASSUME NEW S, NEW s \in Seq(S), s # <<>>
  PROVE  Front(s) \in Seq(S)
<1> DEFINE n == Len(s) - 1
<1>1. n \in Nat /\ n <= Len(s)
  OBVIOUS
<1>2. \A k \in 1..n : s[k] \in S
  OBVIOUS
<1>3. Front(s) = [k \in 1..n |-> s[k]]
  BY <1>1 DEF Front
<1> QED
  BY <1>1, <1>2, <1>3

LEMMA FetchErrors ==
  ASSUME IInv, TransientError \/ OtherError
  PROVE  IInv'
<1>1. UNCHANGED <<store, live, want, src, ready, stale>> /\ UNCHANGED refs /\ pc = "try"
  BY DEF TransientError, OtherError, store
<1>2. CASE NextUrl
  BY <1>1, <1>2, NextUrlKeeps, OnwardsInv
<1>3. CASE TransientError /\ ~NextUrl
  <2> DEFINE tries == Front(run.tries) \o <<attempt + 1>>
  <2>1. attempt <= MaxRetries /\ run' = [run EXCEPT !.tries = tries] /\ UNCHANGED pc
    BY <1>3 DEF TransientError
  <2>2. run.tries \in Seq(1..(MaxRetries + 1)) /\ run.tries # <<>>
    BY <1>1, AtHand DEF Fetching, Working, IInv, Downloading
  <2>3. attempt \in 1..(MaxRetries + 1)
    BY <2>2 DEF attempt, Last, MaxRetries
  <2>4. Front(run.tries) \in Seq(1..(MaxRetries + 1))
    BY <2>2, FrontInSeq
  <2>5. <<attempt + 1>> \in Seq(1..(MaxRetries + 1)) /\ Len(<<attempt + 1>>) = 1
    BY <2>1, <2>3 DEF MaxRetries
  <2>6. tries \in Seq(1..(MaxRetries + 1)) /\ tries # <<>>
    BY <2>4, <2>5
  <2> HIDE DEF tries
  <2> QED
    BY <1>1, <2>1, <2>6, AnotherTry, OnwardsInv
<1> QED
  BY <1>2, <1>3 DEF OtherError

LEMMA FetchPuts ==
  ASSUME IInv, Put
  PROVE  IInv'
<1>1. <<package, run.i>> \in Entry /\ pc \in Working
  BY AtHand DEF Put, Working, IInv, Downloading, LatestEntry
<1>2. expected \in Content
  BY <1>1 DEF IInv, TypeOK, expected
<1>3. package' = package /\ source' = source
  BY DEF Put, package, source
<1>4. TypeOK'
  BY <1>2 DEF IInv, TypeOK, Put, Steps
<1>5. NamedGood' /\ ReadyNamed'
  BY DEF IInv, NamedGood, ReadyNamed, Named, Hashes, Put
<1> QED
  BY <1>3, <1>4, <1>5 DEF IInv, Placed, Fetched, Downloading, Extracting, Working, Named, Put

LEMMA FetchTruncates ==
  ASSUME IInv, TruncateRef
  PROVE  IInv'
<1>1. pc \in Working /\ source.file \in File /\ ~Named(source.file) /\ source.hashed
  BY AtHand DEF TruncateRef, Working, IInv, Downloading
<1>2. refs \in [File -> Content \cup {"none", "torn"}] /\ "torn" \notin Content
  BY FetchAssumption DEF IInv, TypeOK
<1>3. \A f \in File : (refs'[f] \in Content) <=> (refs[f] \in Content)
  BY <1>1, <1>2 DEF TruncateRef, Named
<1>4. \A f \in File : refs[f] \in Content => refs'[f] = refs[f]
  BY <1>1, <1>2 DEF TruncateRef, Named
<1>5. package' = package /\ source' = source
  BY DEF TruncateRef, package, source
<1>6. TypeOK'
  BY <1>2 DEF IInv, TypeOK, TruncateRef, Steps
<1>7. NamedGood' /\ ReadyNamed'
  BY <1>3, <1>4 DEF Hashes, IInv, NamedGood, ReadyNamed, Named, TruncateRef
<1>8. Placed'
  <2>1. \A r \in Recipe : \A n \in 0..Len(Sources[r]) :
           SourcesNamed(refs, r, n) => SourcesNamed(refs', r, n)
    <3> SUFFICES ASSUME NEW r \in Recipe, NEW n \in 0..Len(Sources[r]), SourcesNamed(refs, r, n),
                        NEW j \in 1..n, Sources[r][j].hashed
                 PROVE  refs'[Sources[r][j].file] \in Content
      BY DEF SourcesNamed
    <3>1. j \in 1..Len(Sources[r]) /\ refs[Sources[r][j].file] \in Content
      BY SourcesAreSources DEF SourcesNamed
    <3> QED
      BY <1>3, <3>1, SourceInRecipe
  <2>2. run.sum["failed"] = 0 => PackagesNamed(refs', run.p - 1)
    <3> SUFFICES ASSUME run.sum["failed"] = 0, NEW q \in 1..(run.p - 1)
                 PROVE  SourcesNamed(refs', Batch[q], Len(Sources[Batch[q]]))
      BY DEF PackagesNamed
    <3>1. SourcesNamed(refs, Batch[q], Len(Sources[Batch[q]]))
      BY <1>1 DEF IInv, Placed, PackagesNamed
    <3>2. Batch[q] \in Recipe
      BY <1>1, AtHand, BatchRecipes DEF Fetching
    <3> QED
      BY <2>1, <3>1, <3>2, SourcesAreSources
  <2>3. run.i - 1 \in 0..Len(Sources[package])
    BY <1>1, AtHand
  <2>4. package \in Recipe
    BY <1>1, AtHand
  <2> QED
    BY <1>1, <1>5, <2>1, <2>2, <2>3, <2>4 DEF IInv, Placed, TruncateRef
<1> QED
  BY <1>2, <1>3, <1>5, <1>6, <1>7, <1>8, <1>1 DEF IInv, Fetched, Downloading, Extracting, Working, Named,
                                              TruncateRef

LEMMA FetchWrites ==
  ASSUME IInv, WriteRef
  PROVE  IInv'
<1>1. pc \in Working /\ source.file \in File /\ source.hashed
  BY AtHand DEF WriteRef, Working, IInv, Downloading
<1>2. <<package, run.i>> \in LatestEntry /\ FileOf(<<package, run.i>>) = source.file
  BY <1>1, AtHand
<1>3. expected \in Content /\ refs \in [File -> Content \cup {"none", "torn"}]
  BY <1>2 DEF IInv, TypeOK, expected, LatestEntry
<1>9. refs' = [refs EXCEPT ![source.file] = expected]
  BY DEF WriteRef
<1>4. NamesStay /\ refs'[source.file] \in Content
  BY <1>1, <1>3, <1>9 DEF NamesStay
<1>5. Onwards
  BY <1>1, <1>4, CountsKeeps DEF WriteRef, Kind
<1>6. TypeOK'
  <2>1. refs' \in [File -> Content \cup {"none", "torn"}]
    BY <1>1, <1>3, <1>9
  <2>2. stale' \subseteq File
    BY <1>1 DEF WriteRef, IInv, TypeOK
  <2> QED
    BY <1>5, <2>1, <2>2 DEF WriteRef, IInv, TypeOK, Onwards
<1>7. NamedGood'
  <2>1. expected \in Hashes(source.file)
    BY <1>2 DEF Hashes, expected
  <2>2. UNCHANGED <<objects, want>> /\ \A f \in File : Hashes(f)' = Hashes(f)
    BY DEF WriteRef, Hashes
  <2>3. stale' = IF expected \in objects THEN stale \ {source.file} ELSE stale \cup {source.file}
    BY DEF WriteRef
  <2> QED
    BY <1>1, <1>3, <1>9, <2>1, <2>2, <2>3 DEF IInv, NamedGood, Named
<1>8. ReadyNamed'
  BY <1>4 DEF WriteRef, IInv, ReadyNamed, Named, NamesStay
<1> QED
  BY <1>5, <1>6, <1>7, <1>8 DEF IInv, Onwards

LEMMA FetchStoreFails ==
  ASSUME IInv, StoreFails
  PROVE  IInv'
<1>1. pc \in Working /\ NamesStay /\ UNCHANGED <<store, live, want, src, ready, stale>>
  BY DEF StoreFails, Working, NamesStay, store
<1> QED
  BY <1>1, AbortsKeeps, OnwardsInv DEF StoreFails

LEMMA FetchEnds ==
  ASSUME IInv, FetchExits
  PROVE  IInv'
<1>1. ASSUME run.sum["failed"] = 0, NEW e \in LatestEntry
      PROVE  FileOf(e) \in File /\ Named(FileOf(e))
  <2>1. e \in Entry /\ e[1] \in Range(Batch)
    BY DEF LatestEntry
  <2>2. PICK q \in 1..Len(Batch) : e[1] = Batch[q]
    BY <2>1, BatchRecipes DEF Range
  <2>3. SourcesNamed(refs, e[1], Len(Sources[e[1]]))
    BY <1>1, <2>2 DEF IInv, Fetched, FetchExits, PackagesNamed
  <2> QED
    BY <2>1, <2>3, EntriesAreSources DEF SourcesNamed, Named, FileOf
<1>2. ReadyNamed'
  BY <1>1 DEF FetchExits, IInv, ReadyNamed, Named, store
<1>3. TypeOK'
  <2>1. \A f \in ready' : f \in File
    BY <1>1 DEF FetchExits, IInv, TypeOK
  <2>2. UNCHANGED <<objects, refs, live, want, src, stale>> /\ run' = NoRun /\ pc' = "idle"
    BY DEF FetchExits, store
  <2> QED
    BY <2>1, <2>2 DEF IInv, TypeOK, NoRun, Run, Steps
<1>4. NamedGood'
  BY DEF FetchExits, IInv, NamedGood, Named, Hashes, store
<1> QED
  BY <1>2, <1>3, <1>4 DEF FetchExits, IInv, Placed, Fetched, Downloading, Extracting, Working

LEMMA FetchStarts ==
  ASSUME IInv, Fetch
  PROVE  IInv'
<1>1. run' \in Fetching
  <2>1. Zero \in Count /\ <<>> \in Seq(1..(MaxRetries + 1))
    BY DEF Zero, Count
  <2> QED
    BY <2>1 DEF Fetch, FetchRun, Fetching
<1>2. package' = Batch[1]
  BY DEF Fetch, package, FetchRun
<1>3. Batch[1] \in Recipe /\ Len(Sources[Batch[1]]) \in Nat \ {0}
  BY BatchRecipes, SourcesAreSources
<1>4. SourcesNamed(refs', package', 0) /\ PackagesNamed(refs', 0)
  BY DEF SourcesNamed, PackagesNamed
<1>5. run'.op = "fetch" /\ run'.p = 1 /\ run'.i = 1 /\ pc' = "source"
  BY DEF Fetch, FetchRun
<1>6. Placed'
  BY <1>2, <1>3, <1>4, <1>5, BatchRecipes DEF Placed
<1>7. Onwards
  BY <1>1, <1>5, <1>6 DEF Onwards, Fetched, Downloading, Extracting, Run, Fetching, Steps, Working
<1> QED
  BY <1>7, OnwardsInv DEF Fetch

-----------------------------------------------------------------------------
\* Outside a fetch: the store, the names and what is ready stay as they are.
LEMMA ElsewhereInv ==
  ASSUME IInv, UNCHANGED <<store, live, want, ready, stale>>,
         src' \in [parts : Seq(Content), torn : BOOLEAN],
         run' \in Run, pc' \in Steps \ (Working \cup {"fetched"}), Extracting'
  PROVE  IInv'
BY DEF IInv, TypeOK, Placed, Fetched, Downloading, NamedGood, ReadyNamed, Named, Hashes, store,
       Working

LEMMA ExtractionSteps ==
  ASSUME IInv, (\E r \in Recipe : Extract(r)) \/ ExtractSteps \/ Kill
  PROVE  IInv'
<1>1. /\ UNCHANGED <<store, live, want, ready, stale>>
      /\ pc' \in Steps \ (Working \cup {"fetched"})
  BY DEF Extract, ExtractSteps, Lookup, LookupFails, Unpack, UnpackFails, ExtractExits, Kill, Steps,
         Working
<1>2. run \in Run /\ src \in [parts : Seq(Content), torn : BOOLEAN]
  BY DEF IInv, TypeOK
<1>3. ASSUME pc \in {"lookup", "unpack"}
      PROVE  run \in [op : {"extract"}, r : Recipe, i : Nat, digest : Content \cup {"none"}]
  BY <1>2, <1>3 DEF IInv, Extracting, Run
<1>4. CASE \E r \in Recipe : Extract(r)
  <2>1. PICK r \in Recipe : Extract(r)
    BY <1>4
  <2>2. run' \in Run /\ run'.op = "extract"
    BY <2>1 DEF Extract, ExtractRun, Run
  <2>3. src' = [parts |-> <<>>, torn |-> FALSE] /\ pc' # "unpack"
    BY <2>1 DEF Extract
  <2> QED
    BY <1>1, <2>2, <2>3, ElsewhereInv DEF Extracting
<1>5. CASE Lookup
  <2>1. refs[wanted] \in Content
    BY <1>5 DEF Lookup, Named
  <2>2. run' = [op |-> "extract", r |-> run.r, i |-> run.i, digest |-> refs[wanted]]
    BY <1>3, <1>5 DEF Lookup
  <2>3. run' \in Run
    BY <1>3, <1>5, <2>1, <2>2 DEF Lookup, Run
  <2>4. src' \in [parts : Seq(Content), torn : BOOLEAN]
    BY <1>2, <1>5 DEF Lookup
  <2> QED
    BY <1>1, <1>5, <2>1, <2>2, <2>3, <2>4, ElsewhereInv DEF Extracting, Lookup
<1>6. CASE Unpack
  <2>1. run.digest \in Content /\ run \in [op : {"extract"}, r : Recipe, i : Nat,
                                           digest : Content \cup {"none"}]
    BY <1>3, <1>6 DEF Unpack, IInv, Extracting
  <2>2. src' = [parts |-> Append(src.parts, run.digest), torn |-> FALSE]
    BY <1>6 DEF Unpack
  <2>3. src' \in [parts : Seq(Content), torn : BOOLEAN]
    BY <1>2, <2>1, <2>2
  <2>4. CASE run' = [run EXCEPT !.i = @ + 1, !.digest = "none"] /\ pc' = "lookup"
    <3>1. run' = [op |-> "extract", r |-> run.r, i |-> run.i + 1, digest |-> "none"]
      BY <2>1, <2>4
    <3>2. run' \in Run
      BY <2>1, <3>1 DEF Run
    <3>3. run'.op = "extract"
      BY <3>1
    <3>4. pc' = "lookup"
      BY <2>4
    <3>5. Extracting'
      BY <3>3, <3>4 DEF Extracting
    <3> QED
      BY <1>1, <2>3, <3>2, <3>5, ElsewhereInv
  <2>5. CASE pc' = "extracted" /\ UNCHANGED run
    BY <1>1, <1>2, <2>3, <2>5, ElsewhereInv DEF Extracting
  <2> QED
    BY <1>6, <2>4, <2>5 DEF Unpack
<1>7. CASE LookupFails \/ UnpackFails
  BY <1>1, <1>2, <1>7, ElsewhereInv DEF LookupFails, UnpackFails, Extracting
<1>8. CASE ExtractExits \/ Kill
  <2>1. run' \in Run
    BY <1>8 DEF ExtractExits, Kill, Run, NoRun
  <2> QED
    BY <1>1, <1>2, <1>8, <2>1, ElsewhereInv DEF ExtractExits, Kill, Extracting
<1> QED
  BY <1>4, <1>5, <1>6, <1>7, <1>8 DEF ExtractSteps

-----------------------------------------------------------------------------
LEMMA EditKeeps ==
  ASSUME IInv, NEW e \in Entry, NEW c \in Content, Edit(e, c)
  PROVE  IInv'
<1>1. /\ want' = [want EXCEPT ![e] = c] /\ want \in [Entry -> Content]
      /\ UNCHANGED <<objects, refs, live, src, pc, run, ready>> /\ pc = "idle"
  BY DEF Edit, IInv, TypeOK, store
<1>2. FileOf(e) \in File
  BY EntriesAreSources
<1>3. TypeOK'
  BY <1>1, <1>2 DEF Edit, IInv, TypeOK
<1>4. NamedGood'
  <2> SUFFICES ASSUME NEW f \in File, refs[f] \in Content, f \notin stale'
               PROVE  refs[f] \in Hashes(f)' /\ refs[f] \in objects
    BY <1>1 DEF NamedGood, Named
  <2>1. f \notin stale /\ (refs[FileOf(e)] = want[e] /\ c # want[e] => f # FileOf(e))
    BY DEF Edit
  <2>2. refs[f] \in Hashes(f) /\ refs[f] \in objects
    BY <2>1 DEF IInv, NamedGood, Named
  <2>3. PICK d \in LatestEntry : FileOf(d) = f /\ want[d] = refs[f]
    BY <2>2 DEF Hashes
  <2>4. d \in Entry
    BY DEF LatestEntry
  <2>5. want'[d] = refs[f]
    BY <1>1, <2>1, <2>3, <2>4
  <2> QED
    BY <2>2, <2>3, <2>5 DEF Hashes
<1> QED
  BY <1>1, <1>3, <1>4 DEF IInv, Placed, Fetched, Downloading, Extracting, ReadyNamed, Named, Working

LEMMA GcKeeps ==
  ASSUME IInv, Mark \/ Sweep
  PROVE  IInv'
<1>1. UNCHANGED <<refs, want, src, pc, run, ready>>
  BY DEF Mark, Sweep, store
<1>2. package' = package /\ source' = source
  BY <1>1 DEF package, source
<1>3. TypeOK'
  BY <1>1 DEF Mark, Sweep, IInv, TypeOK, store
<1>4. NamedGood'
  <2>1. \A f \in File : Hashes(f)' = Hashes(f)
    BY <1>1 DEF Hashes
  <2> QED
    BY <1>1, <2>1 DEF Mark, Sweep, IInv, NamedGood, Named, store
<1> QED
  BY <1>1, <1>2, <1>3, <1>4 DEF IInv, Placed, Fetched, Downloading, Extracting, ReadyNamed, Named

LEMMA NextKeeps == IInv /\ [Next]_vars => IInv'
<1> SUFFICES ASSUME IInv, [Next]_vars
             PROVE  IInv'
  OBVIOUS
<1>1. CASE Fetch
  BY <1>1, FetchStarts
<1>2. CASE (\E r \in Recipe : Extract(r)) \/ ExtractSteps \/ Kill
  BY <1>2, ExtractionSteps
<1>3. CASE FetchSteps
  BY <1>3, FetchSource, FetchDownload, FetchReceives, FetchErrors, FetchPuts, FetchTruncates,
     FetchWrites, FetchStoreFails, FetchEnds DEF FetchSteps
<1>4. CASE \E e \in Entry, c \in Content : Edit(e, c)
  BY <1>4, EditKeeps
<1>5. CASE Mark \/ Sweep
  BY <1>5, GcKeeps
<1>6. CASE UNCHANGED vars
  <2>1. package' = package /\ source' = source
    BY <1>6 DEF vars, package, source
  <2> QED
    BY <1>6, <2>1 DEF vars, store, IInv, TypeOK, Placed, Fetched, Downloading, Extracting, NamedGood,
                      ReadyNamed, Named, Hashes
<1> QED
  BY <1>1, <1>2, <1>3, <1>4, <1>5, <1>6 DEF Next

(* The invariant of the proofs: where a fetch is, what it has counted and    *)
(* what is named agree (fetch_sources and fetch_sources_batch).              *)
THEOREM Invariance == Spec => []IInv
BY InitInv, NextKeeps, PTL DEF Spec

(* The types of Fetch, for any recipes, sources, mirrors and contents.       *)
THEOREM TypeCorrect == Spec => []TypeOK
BY Invariance, PTL DEF IInv

(* What a fetch that ended well answers for is named and there, with a hash  *)
(* that the latest recipes give for the file name, unless the name is stale: *)
(* Served, which the run fetch checks, for any number of packages, sources,  *)
(* mirrors and contents.                                                     *)
THEOREM ServedTheorem == Spec => []Served
<1>1. IInv => Served
  BY DEF IInv, ReadyNamed, NamedGood, Served
<1> QED
  BY <1>1, Invariance, PTL

-----------------------------------------------------------------------------
(* Induction over the naturals, for sets.                                    *)
LEMMA SetInduction ==
  ASSUME NEW T, 0 \in T, \A n \in Nat : n \in T => n + 1 \in T
  PROVE  \A n \in Nat : n \in T
<1> DEFINE U == Nat \ T
<1>1. SUFFICES ASSUME U # {} PROVE FALSE
  OBVIOUS
<1>2. PICK m \in U : \A k \in U : <<k, m>> \notin OpToRel(<, Nat)
  <2>1. U \subseteq Nat
    OBVIOUS
  <2> HIDE DEF U
  <2> QED
    BY <1>1, <2>1, WFMin, NatLessThanWellFounded
<1>3. m # 0 /\ m - 1 \in Nat /\ m - 1 < m
  OBVIOUS
<1>4. <<m - 1, m>> \in OpToRel(<, Nat)
  BY <1>3 DEF OpToRel
<1>5. m - 1 \in T
  BY <1>2, <1>3, <1>4
<1> QED
  BY <1>3, <1>5

(* How many sources the first packages have.                                 *)
IsSum(g, n) == g = [k \in 0..n |-> IF k = 0 THEN 0 ELSE g[k - 1] + Len(Sources[Batch[k]])]

LEMMA SumExists == \A n \in Nat : \E g : IsSum(g, n)
<1> DEFINE T == {n \in Nat : \E g : IsSum(g, n)}
<1>1. 0 \in T
  <2> DEFINE g == [k \in 0..0 |-> 0]
  <2>1. IsSum(g, 0)
    BY DEF IsSum
  <2> QED
    BY <2>1
<1>2. ASSUME NEW n \in Nat, n \in T PROVE n + 1 \in T
  <2>1. PICK g : IsSum(g, n)
    BY <1>2
  <2> DEFINE h == [k \in 0..(n + 1) |-> IF k = n + 1 THEN g[n] + Len(Sources[Batch[n + 1]]) ELSE g[k]]
  <2>2. \A k \in 0..(n + 1) : h[k] = IF k = 0 THEN 0 ELSE h[k - 1] + Len(Sources[Batch[k]])
    <3> TAKE k \in 0..(n + 1)
    <3>1. CASE k = n + 1
      BY <3>1
    <3>2. CASE k # n + 1
      <4>1. k \in 0..n /\ h[k] = g[k] /\ (k # 0 => h[k - 1] = g[k - 1])
        BY <3>2
      <4>2. g[k] = IF k = 0 THEN 0 ELSE g[k - 1] + Len(Sources[Batch[k]])
        BY <2>1, <4>1 DEF IsSum
      <4> HIDE DEF h
      <4> QED
        BY <4>1, <4>2
    <3> QED
      BY <3>1, <3>2
  <2>3. IsSum(h, n + 1)
    <3>1. h = [k \in 0..(n + 1) |-> h[k]]
      OBVIOUS
    <3> HIDE DEF h
    <3> QED
      BY <2>2, <3>1 DEF IsSum
  <2> HIDE DEF h
  <2> QED
    BY <2>3
<1> HIDE DEF T
<1>3. \A n \in Nat : n \in T
  BY <1>1, <1>2, SetInduction
<1> QED
  BY <1>3 DEF T

LEMMA SourcesOfStep ==
  /\ SourcesOf(0) = 0
  /\ \A n \in 1..Len(Batch) : SourcesOf(n) = SourcesOf(n - 1) + Len(Sources[Batch[n]])
<1>1. Len(Batch) \in Nat
  BY BatchRecipes
<1>2. PICK g : IsSum(g, Len(Batch)) /\ \A n : SourcesOf(n) = g[n]
  <2> DEFINE all == CHOOSE g : IsSum(g, Len(Batch))
  <2>1. \E g : IsSum(g, Len(Batch))
    BY <1>1, SumExists
  <2>2. IsSum(all, Len(Batch))
    BY <2>1
  <2>3. \A n : SourcesOf(n) = all[n]
    BY DEF SourcesOf, IsSum
  <2> HIDE DEF all
  <2> QED
    BY <2>2, <2>3
<1>3. \A k \in 0..Len(Batch) : g[k] = IF k = 0 THEN 0 ELSE g[k - 1] + Len(Sources[Batch[k]])
  BY <1>2 DEF IsSum
<1>4. g[0] = 0
  BY <1>1, <1>3
<1>5. ASSUME NEW n \in 1..Len(Batch) PROVE g[n] = g[n - 1] + Len(Sources[Batch[n]])
  <2>1. n \in 0..Len(Batch) /\ n # 0
    BY <1>1
  <2> QED
    BY <1>3, <2>1
<1> QED
  BY <1>2, <1>4, <1>5

LEMMA SourcesOfType == \A n \in 0..Len(Batch) : SourcesOf(n) \in Nat
<1> DEFINE T == {n \in Nat : n <= Len(Batch) => SourcesOf(n) \in Nat}
<1>1. Len(Batch) \in Nat /\ \A n \in 1..Len(Batch) : Len(Sources[Batch[n]]) \in Nat
  BY BatchRecipes, SourcesAreSources
<1>2. 0 \in T
  BY SourcesOfStep
<1>3. ASSUME NEW n \in Nat, n \in T PROVE n + 1 \in T
  <2> SUFFICES ASSUME n + 1 <= Len(Batch) PROVE SourcesOf(n + 1) \in Nat
    OBVIOUS
  <2>1. n + 1 \in 1..Len(Batch) /\ (n + 1) - 1 = n /\ SourcesOf(n) \in Nat
    BY <1>1, <1>3
  <2>2. SourcesOf(n + 1) = SourcesOf(n) + Len(Sources[Batch[n + 1]])
    BY <2>1, SourcesOfStep
  <2> QED
    BY <1>1, <2>1, <2>2
<1> HIDE DEF T
<1>4. \A n \in Nat : n \in T
  BY <1>2, <1>3, SetInduction
<1> QED
  BY <1>1, <1>4 DEF T

(* The sources with a hash: Hashed has those of the recipe and no others.    *)
HashedOf(r) == {t \in Range(Sources[r]) : t.hashed}
IsHashed(r, g, n) ==
    g = [k \in 0..n |-> IF k = 0 THEN <<>>
                        ELSE IF Sources[r][k].hashed THEN Append(g[k - 1], Sources[r][k]) ELSE g[k - 1]]

LEMMA HashedExists ==
  ASSUME NEW r \in Recipe
  PROVE  \A n \in Nat : \E g : IsHashed(r, g, n)
<1> DEFINE T == {n \in Nat : \E g : IsHashed(r, g, n)}
<1>1. 0 \in T
  <2> DEFINE g == [k \in 0..0 |-> <<>>]
  <2>1. IsHashed(r, g, 0)
    BY DEF IsHashed
  <2> QED
    BY <2>1
<1>2. ASSUME NEW n \in Nat, n \in T PROVE n + 1 \in T
  <2>1. PICK g : IsHashed(r, g, n)
    BY <1>2
  <2> DEFINE more == IF Sources[r][n + 1].hashed THEN Append(g[n], Sources[r][n + 1]) ELSE g[n]
             h == [k \in 0..(n + 1) |-> IF k = n + 1 THEN more ELSE g[k]]
  <2>2. \A k \in 0..(n + 1) : h[k] = IF k = 0 THEN <<>>
                ELSE IF Sources[r][k].hashed THEN Append(h[k - 1], Sources[r][k]) ELSE h[k - 1]
    <3> TAKE k \in 0..(n + 1)
    <3>1. CASE k = n + 1
      BY <3>1
    <3>2. CASE k # n + 1
      <4>1. k \in 0..n /\ h[k] = g[k] /\ (k # 0 => h[k - 1] = g[k - 1])
        BY <3>2
      <4>2. g[k] = IF k = 0 THEN <<>>
                   ELSE IF Sources[r][k].hashed THEN Append(g[k - 1], Sources[r][k]) ELSE g[k - 1]
        BY <2>1, <4>1 DEF IsHashed
      <4> HIDE DEF h
      <4> QED
        BY <4>1, <4>2
    <3> QED
      BY <3>1, <3>2
  <2>3. IsHashed(r, h, n + 1)
    <3>1. h = [k \in 0..(n + 1) |-> h[k]]
      OBVIOUS
    <3> HIDE DEF h
    <3> QED
      BY <2>2, <3>1 DEF IsHashed
  <2> HIDE DEF h
  <2> QED
    BY <2>3
<1> HIDE DEF T
<1>3. \A n \in Nat : n \in T
  BY <1>1, <1>2, SetInduction
<1> QED
  BY <1>3 DEF T

LEMMA HashedSources ==
  ASSUME NEW r \in Recipe
  PROVE  Hashed(r) \in Seq(HashedOf(r))
<1>1. PICK n : n \in Nat /\ n = Len(Sources[r])
  BY SourcesAreSources
<1>2. PICK g : IsHashed(r, g, n) /\ Hashed(r) = g[n]
  <2>1. \E g : IsHashed(r, g, n)
    BY <1>1, HashedExists
  <2> QED
    BY <1>1, <2>1 DEF Hashed, IsHashed
<1> DEFINE T == {k \in Nat : k <= n => g[k] \in Seq(HashedOf(r))}
<1>3. \A k \in 0..n : g[k] = IF k = 0 THEN <<>>
                ELSE IF Sources[r][k].hashed THEN Append(g[k - 1], Sources[r][k]) ELSE g[k - 1]
  BY <1>2 DEF IsHashed
<1>4. 0 \in T
  <2>1. 0 \in 0..n
    BY <1>1
  <2>2. g[0] = <<>>
    BY <1>3, <2>1
  <2>3. g[0] \in Seq(HashedOf(r))
    BY <2>2, EmptySeq
  <2> QED
    BY <2>3
<1>5. ASSUME NEW k \in Nat, k \in T PROVE k + 1 \in T
  <2> SUFFICES ASSUME k + 1 <= n PROVE g[k + 1] \in Seq(HashedOf(r))
    OBVIOUS
  <2>1. k + 1 \in 0..n /\ k + 1 # 0 /\ (k + 1) - 1 = k /\ k + 1 \in 1..n
    BY <1>1
  <2>2. g[k] \in Seq(HashedOf(r))
    BY <1>1, <1>5
  <2>3. g[k + 1] = IF Sources[r][k + 1].hashed THEN Append(g[k], Sources[r][k + 1]) ELSE g[k]
    BY <1>3, <2>1
  <2>4. Sources[r][k + 1] \in Range(Sources[r])
    BY <1>1, <2>1, SourcesAreSources DEF Range
  <2>5. Sources[r][k + 1].hashed => Sources[r][k + 1] \in HashedOf(r)
    BY <2>4 DEF HashedOf
  <2> QED
    BY <2>2, <2>3, <2>5, AppendProperties
<1> HIDE DEF T
<1>6. n \in T
  BY <1>1, <1>4, <1>5, SetInduction
<1> QED
  BY <1>1, <1>2, <1>6 DEF T

LEMMA HashedFiles ==
  ASSUME NEW r \in Recipe, NEW i \in 1..Len(Hashed(r))
  PROVE  Hashed(r)[i].file \in File
<1>1. Hashed(r)[i] \in HashedOf(r)
  BY HashedSources
<1> QED
  BY <1>1, SourcesAreSources DEF HashedOf, File, Range

(* Each source has at least its own address.                                 *)
LEMMA UrlsCount == \A f \in File : Urls(f) \in Nat \ {0}
<1> TAKE f \in File
<1> DEFINE N == {n \in DOMAIN Mirrors : f \in Mirrors[n]}
<1>1. Mirrors \in Seq(SUBSET File)
  BY FetchAssumption, ConcatProperties DEF Mirrors
<1>2. IsFiniteSet(DOMAIN Mirrors)
  BY <1>1, LenProperties, FS_Interval
<1>3. Cardinality(N) \in Nat
  BY <1>2, FS_Subset, FS_CardinalityType
<1> QED
  BY <1>3 DEF Urls

-----------------------------------------------------------------------------
(* The second invariant: what was counted, asked and unpacked so far.        *)
Accounting ==
    /\ pc \in Working => /\ Total(run.sum) = SourcesOf(run.p - 1)
                         /\ Total(run.rep) = run.i - 1
    /\ pc = "fetched" => Total(run.sum) = SourcesOf(Len(Batch))
Asking == pc = "try" => Len(run.tries) <= Urls(source.file)

\* The first parts are the first sources with a hash, and the one at hand too,
\* unless they were stale when they were looked up, or are now.
PartsRight ==
    \A j \in DOMAIN src.parts :
        Hashed(run.r)[j].file \notin stale => src.parts[j] \in Hashes(Hashed(run.r)[j].file)
Unpacking ==
    pc \in {"lookup", "unpack", "extracted"} =>
        /\ run.op = "extract" /\ run.r \in Recipe
        /\ src.torn = (pc = "unpack")
        /\ pc # "extracted" => run.i \in 1..Len(Hashed(run.r)) /\ Len(src.parts) = run.i - 1
        /\ pc = "extracted" => Len(src.parts) = Len(Hashed(run.r))
        /\ PartsRight
        /\ pc = "unpack" => (wanted \notin stale => run.digest \in Hashes(wanted))

MInv == Accounting /\ Asking /\ Unpacking

LEMMA MInit == Init => MInv
BY DEF Init, MInv, Accounting, Asking, Unpacking, Working

LEMMA TotalPlus ==
  ASSUME NEW a \in Count, NEW b \in Count
  PROVE  Total(a) \in Nat /\ Total(Plus(a, b)) = Total(a) + Total(b)
<1>1. \A k \in Kind : a[k] \in Nat /\ b[k] \in Nat /\ Plus(a, b)[k] = a[k] + b[k]
  BY DEF Count, Plus
<1> HIDE DEF Plus
<1> QED
  BY <1>1 DEF Total, Kind

LEMMA TotalOne ==
  ASSUME NEW a \in Count, NEW kind \in Kind
  PROVE  Total([a EXCEPT ![kind] = @ + 1]) = Total(a) + 1
<1> DEFINE b == [a EXCEPT ![kind] = @ + 1]
<1>1. \A k \in Kind : a[k] \in Nat /\ b[k] = IF k = kind THEN a[k] + 1 ELSE a[k]
  BY DEF Count
<1> HIDE DEF b
<1>2. Total(b) = Total(a) + 1
  BY <1>1 DEF Total, Kind
<1> QED
  BY <1>2 DEF b

LEMMA PackageAddsCounts ==
  ASSUME IInv, MInv, pc \in Working, NEW c \in Count, Total(c) = Len(Sources[package]), PackageAdds(c)
  PROVE  MInv'
<1>1. /\ run \in Fetching /\ run.p \in 1..Len(Batch) /\ Len(Batch) \in Nat
      /\ package = Batch[run.p] /\ run.sum \in Count
  BY AtHand, BatchRecipes DEF package, Fetching
<1>2. /\ run'.p = run.p + 1 /\ run'.i = 1 /\ run'.rep = Zero /\ run'.sum = Plus(run.sum, c)
      /\ pc' = IF run.p < Len(Batch) THEN "source" ELSE "fetched"
  BY <1>1 DEF PackageAdds, Fetching
<1>3. Total(run'.sum) = SourcesOf(run.p)
  <2>1. Total(run.sum) = SourcesOf(run.p - 1)
    BY DEF MInv, Accounting
  <2>2. Total(Plus(run.sum, c)) = Total(run.sum) + Total(c)
    BY <1>1, TotalPlus
  <2> QED
    BY <1>1, <1>2, <2>1, <2>2, SourcesOfStep
<1>4. Total(Zero) = 0
  BY DEF Total, Zero, Kind
<1>5. Accounting'
  <2>1. (run.p + 1) - 1 = run.p
    BY <1>1
  <2>2. CASE run.p < Len(Batch)
    BY <1>2, <1>3, <1>4, <2>1, <2>2 DEF Accounting
  <2>3. CASE ~(run.p < Len(Batch))
    BY <1>1, <1>2, <1>3, <2>3 DEF Accounting, Working
  <2> QED
    BY <2>2, <2>3
<1> QED
  BY <1>2, <1>5 DEF MInv, Asking, Unpacking

LEMMA CountsCounts ==
  ASSUME IInv, MInv, pc \in Working, NEW kind \in Kind, Counts(kind)
  PROVE  MInv'
<1> DEFINE rep == [run.rep EXCEPT ![kind] = @ + 1]
<1>1. /\ run \in Fetching /\ run.i \in 1..Len(Sources[package]) /\ Len(Sources[package]) \in Nat
      /\ run.rep \in Count
  BY AtHand DEF Fetching
<1>2. rep \in Count
  BY <1>1 DEF Count
<1>3. Total(rep) = run.i
  <2>1. Total(rep) = Total(run.rep) + 1
    BY <1>1, TotalOne
  <2>2. Total(run.rep) = run.i - 1
    BY DEF MInv, Accounting
  <2> QED
    BY <1>1, <2>1, <2>2
<1> HIDE DEF rep
<1>4. CASE run.i < Len(Sources[package])
  <2>1. run' = [run EXCEPT !.i = @ + 1, !.tries = <<>>, !.rep = rep] /\ pc' = "source"
    BY <1>4 DEF Counts, rep
  <2>2. run'.p = run.p /\ run'.i = run.i + 1 /\ run'.rep = rep /\ run'.sum = run.sum
    BY <1>1, <2>1 DEF Fetching
  <2>3. Total(run.sum) = SourcesOf(run.p - 1)
    BY DEF MInv, Accounting
  <2>4. Accounting'
    BY <1>1, <1>3, <2>1, <2>2, <2>3 DEF Accounting, Working
  <2> QED
    BY <2>1, <2>4 DEF MInv, Asking, Unpacking
<1>5. CASE ~(run.i < Len(Sources[package]))
  <2>1. PackageAdds(rep) /\ run.i = Len(Sources[package])
    BY <1>1, <1>5 DEF Counts, rep
  <2> QED
    BY <1>2, <1>3, <2>1, PackageAddsCounts
<1> QED
  BY <1>4, <1>5

LEMMA AbortsCounts ==
  ASSUME IInv, MInv, pc \in Working, Aborts
  PROVE  MInv'
<1> DEFINE c == [Zero EXCEPT !["failed"] = Len(Sources[package])]
<1>1. Len(Sources[package]) \in Nat
  BY AtHand
<1>2. c \in Count /\ Total(c) = Len(Sources[package])
  BY <1>1 DEF Count, Kind, Zero, Total
<1>3. PackageAdds(c)
  BY DEF Aborts
<1> HIDE DEF c
<1> QED
  BY <1>2, <1>3, PackageAddsCounts

\* A step that goes on with the source at hand.
LEMMA SourceGoesOn ==
  ASSUME IInv, MInv, pc \in Working, pc' \in Working,
         NEW tries, run' = [run EXCEPT !.tries = tries], pc' = "try" => Len(tries) <= Urls(source.file)
  PROVE  MInv'
<1>1. run \in Fetching
  BY AtHand
<1>2. /\ run'.p = run.p /\ run'.i = run.i /\ run'.rep = run.rep /\ run'.sum = run.sum
      /\ run'.tries = tries
  BY <1>1 DEF Fetching
<1>3. source' = source
  BY <1>2 DEF source, package
<1>4. Accounting'
  BY <1>2 DEF MInv, Accounting, Working
<1>5. Asking'
  BY <1>2, <1>3 DEF Asking
<1>6. Unpacking'
  BY DEF Unpacking, Working
<1> QED
  BY <1>4, <1>5, <1>6 DEF MInv

LEMMA NextUrlCounts ==
  ASSUME IInv, MInv, pc = "try", NextUrl
  PROVE  MInv'
<1>1. pc \in Working
  BY DEF Working
<1>2. run.tries \in Seq(1..(MaxRetries + 1)) /\ source.file \in File
  BY <1>1, AtHand DEF Fetching
<1>3. CASE Len(run.tries) < Urls(source.file)
  <2>1. run' = [run EXCEPT !.tries = Append(run.tries, 1)] /\ pc' = pc
    BY <1>3 DEF NextUrl
  <2>2. 1 \in 1..(MaxRetries + 1)
    BY DEF MaxRetries
  <2>3. Len(Append(run.tries, 1)) = Len(run.tries) + 1 /\ Len(run.tries) \in Nat
    BY <1>2, <2>2, AppendProperties
  <2>4. Len(Append(run.tries, 1)) <= Urls(source.file)
    BY <1>2, <1>3, <2>3, UrlsCount
  <2> QED
    BY <1>1, <2>1, <2>4, SourceGoesOn
<1>4. CASE ~(Len(run.tries) < Urls(source.file))
  BY <1>1, <1>4, CountsCounts DEF NextUrl, Kind
<1> QED
  BY <1>3, <1>4

LEMMA FetchCounts ==
  ASSUME IInv, MInv, Fetch \/ FetchSteps
  PROVE  MInv'
<1>1. CASE Fetch
  <2>1. pc' = "source" /\ run'.p = 1 /\ run'.i = 1 /\ run'.rep = Zero /\ run'.sum = Zero
    BY <1>1 DEF Fetch, FetchRun
  <2>2. Total(Zero) = 0
    BY DEF Total, Zero, Kind
  <2> QED
    BY <2>1, <2>2, SourcesOfStep DEF MInv, Accounting, Asking, Unpacking, Working
<1>2. CASE SourceCached \/ SourceSkipped
  BY <1>2, CountsCounts DEF SourceCached, SourceSkipped, Working, Kind
<1>3. CASE Download
  <2>1. pc \in Working /\ pc' \in Working /\ run' = [run EXCEPT !.tries = <<1>>]
    BY <1>3 DEF Download, Working
  <2>2. Len(<<1>>) <= Urls(source.file)
    BY <2>1, AtHand, UrlsCount
  <2> QED
    BY <2>1, <2>2, SourceGoesOn
<1>4. CASE \E c \in Content : Received(c)
  <2>1. PICK c \in Content : Received(c)
    BY <1>4
  <2>2. CASE c = expected
    <3>1. pc = "try" /\ pc' = "put" /\ run' = run
      BY <2>1, <2>2 DEF Received
    <3>2. run \in Fetching
      BY <3>1, AtHand DEF Working
    <3>3. run' = [run EXCEPT !.tries = run.tries]
      BY <3>1, <3>2 DEF Fetching
    <3> QED
      BY <3>1, <3>3, SourceGoesOn DEF Working
  <2>3. CASE c # expected
    BY <2>1, <2>3, NextUrlCounts DEF Received
  <2> QED
    BY <2>2, <2>3
<1>5. CASE (TransientError \/ OtherError) /\ NextUrl
  BY <1>5, NextUrlCounts DEF TransientError, OtherError
<1>6. CASE TransientError /\ ~NextUrl
  <2>1. /\ pc = "try" /\ pc' = pc /\ pc \in Working
        /\ run' = [run EXCEPT !.tries = Front(run.tries) \o <<attempt + 1>>]
    BY <1>6 DEF TransientError, Working
  <2>2. run.tries \in Seq(1..(MaxRetries + 1)) /\ run.tries # <<>>
    BY <2>1, AtHand DEF Fetching, IInv, Downloading, Working
  <2>3. run.tries \in Seq(Nat) /\ attempt \in Nat
    BY <2>2 DEF attempt, Last, MaxRetries
  <2>4. Front(run.tries) \in Seq(Nat) /\ Len(Front(run.tries)) = Len(run.tries) - 1
    BY <2>2, <2>3, FrontInSeq DEF Front
  <2>5. <<attempt + 1>> \in Seq(Nat) /\ Len(<<attempt + 1>>) = 1
    BY <2>3
  <2>6. Len(Front(run.tries) \o <<attempt + 1>>) = Len(run.tries)
    BY <2>3, <2>4, <2>5, ConcatProperties
  <2>7. Len(run.tries) <= Urls(source.file)
    BY <2>1 DEF MInv, Asking
  <2> QED
    BY <2>1, <2>6, <2>7, SourceGoesOn
<1>7. CASE Put \/ TruncateRef
  <2>1. pc \in Working /\ pc' \in {"name", "write"} /\ run' = run
    BY <1>7 DEF Put, TruncateRef, Working
  <2>2. run' = [run EXCEPT !.tries = run.tries]
    BY <2>1, AtHand DEF Fetching
  <2> QED
    BY <2>1, <2>2, SourceGoesOn DEF Working
<1>8. CASE WriteRef
  BY <1>8, CountsCounts DEF WriteRef, Working, Kind
<1>9. CASE StoreFails
  BY <1>9, AbortsCounts DEF StoreFails, Working
<1>10. CASE FetchExits
  BY <1>10 DEF FetchExits, MInv, Accounting, Asking, Unpacking, Working
<1> QED
  BY <1>1, <1>2, <1>3, <1>4, <1>5, <1>6, <1>7, <1>8, <1>9, <1>10 DEF FetchSteps, OtherError

-----------------------------------------------------------------------------
\* Outside a fetch there is nothing to count or to ask.
LEMMA NotFetching ==
  ASSUME pc' \notin Working \cup {"fetched"}
  PROVE  Accounting' /\ Asking'
BY DEF Accounting, Asking, Working

LEMMA LookupRight ==
  ASSUME IInv, MInv, Lookup
  PROVE  MInv'
<1>1. /\ run.op = "extract" /\ run.r \in Recipe /\ src.torn = FALSE
      /\ run.i \in 1..Len(Hashed(run.r)) /\ Len(src.parts) = run.i - 1 /\ PartsRight
  BY DEF Lookup, MInv, Unpacking
<1>2. run \in [op : {"extract"}, r : Recipe, i : Nat, digest : Content \cup {"none"}]
  BY <1>1 DEF IInv, TypeOK, Run
<1>3. /\ run'.op = "extract" /\ run'.r = run.r /\ run'.i = run.i /\ run'.digest = refs[wanted]
      /\ src'.torn = TRUE /\ src'.parts = src.parts /\ pc' = "unpack"
      /\ want' = want /\ stale' = stale
  BY <1>2 DEF Lookup, IInv, TypeOK
<1>4. wanted' = wanted
  BY <1>3 DEF wanted
<1>5. wanted \notin stale => refs[wanted] \in Hashes(wanted)
  <2>1. wanted \in File
    BY <1>1, HashedFiles DEF wanted
  <2> QED
    BY <2>1 DEF Lookup, IInv, NamedGood
<1>6. PartsRight'
  BY <1>1, <1>3 DEF PartsRight, Hashes
<1>7. Unpacking'
  <2>1. Hashes(wanted)' = Hashes(wanted)
    BY <1>3, <1>4 DEF Hashes
  <2> QED
    BY <1>1, <1>3, <1>4, <1>5, <1>6, <2>1 DEF Unpacking
<1> QED
  BY <1>3, <1>7, NotFetching DEF MInv, Working

LEMMA UnpackRight ==
  ASSUME IInv, MInv, Unpack
  PROVE  MInv'
<1>1. /\ run.op = "extract" /\ run.r \in Recipe
      /\ run.i \in 1..Len(Hashed(run.r)) /\ Len(src.parts) = run.i - 1 /\ PartsRight
      /\ wanted \notin stale => run.digest \in Hashes(wanted)
  BY DEF Unpack, MInv, Unpacking
<1>2. run \in [op : {"extract"}, r : Recipe, i : Nat, digest : Content \cup {"none"}]
  BY <1>1 DEF IInv, TypeOK, Run
<1>3. Len(Hashed(run.r)) \in Nat
  BY <1>1, HashedSources, LenProperties
<1>4. src.parts \in Seq(Content) /\ run.digest \in Content
  BY DEF Unpack, IInv, TypeOK, Extracting
<1>5. /\ src'.parts = Append(src.parts, run.digest) /\ src'.torn = FALSE
      /\ want' = want /\ stale' = stale
  BY DEF Unpack
<1>6. run'.op = "extract" /\ run'.r = run.r
  BY <1>2 DEF Unpack
<1>7. Len(src'.parts) = run.i
  BY <1>1, <1>2, <1>4, <1>5, AppendProperties
<1>8. PartsRight'
  <2> SUFFICES ASSUME NEW j \in DOMAIN src'.parts, Hashed(run.r)[j].file \notin stale
               PROVE  src'.parts[j] \in Hashes(Hashed(run.r)[j].file)
    BY <1>5, <1>6 DEF PartsRight, Hashes
  <2>1. (j \in DOMAIN src.parts /\ src'.parts[j] = src.parts[j]) \/ (j = run.i /\ src'.parts[j] = run.digest)
    BY <1>1, <1>4, <1>5
  <2> QED
    BY <1>1, <2>1 DEF PartsRight, wanted
<1>9. CASE run.i < Len(Hashed(run.r))
  <2>1. run' = [run EXCEPT !.i = @ + 1, !.digest = "none"] /\ pc' = "lookup"
    BY <1>9 DEF Unpack
  <2>2. run'.i = run.i + 1 /\ run'.i \in 1..Len(Hashed(run.r)) /\ run'.i - 1 = run.i
    BY <1>1, <1>2, <1>3, <1>9, <2>1
  <2>3. Unpacking'
    BY <1>5, <1>6, <1>1, <1>7, <1>8, <2>1, <2>2 DEF Unpacking
  <2> QED
    BY <2>1, <2>3, NotFetching DEF MInv, Working
<1>10. CASE ~(run.i < Len(Hashed(run.r)))
  <2>1. pc' = "extracted" /\ run.i = Len(Hashed(run.r))
    BY <1>1, <1>3, <1>10 DEF Unpack
  <2>2. Unpacking'
    BY <1>5, <1>6, <1>1, <1>7, <1>8, <2>1 DEF Unpacking
  <2> QED
    BY <2>1, <2>2, NotFetching DEF MInv, Working
<1> QED
  BY <1>9, <1>10

LEMMA ExtractRight ==
  ASSUME IInv, MInv, NEW r \in Recipe, Extract(r)
  PROVE  MInv'
<1>1. /\ run' = ExtractRun(r) /\ src' = [parts |-> <<>>, torn |-> FALSE]
      /\ pc' = IF Hashed(r) = <<>> THEN "extracted" ELSE "lookup"
  BY DEF Extract
<1>2. run'.op = "extract" /\ run'.r = r /\ run'.i = 1 /\ src'.parts = <<>> /\ src'.torn = FALSE
  BY <1>1 DEF ExtractRun
<1>3. Hashed(r) \in Seq(HashedOf(r)) /\ Len(<<>>) = 0 /\ DOMAIN <<>> = {}
  BY HashedSources
<1>4. Len(Hashed(r)) \in Nat /\ (Hashed(r) # <<>> => Len(Hashed(r)) # 0)
  BY <1>3, LenProperties, EmptySeq
<1>5. PartsRight'
  BY <1>2, <1>3 DEF PartsRight
<1>6. Unpacking'
  <2>1. CASE Hashed(r) = <<>>
    BY <1>1, <1>2, <1>3, <1>5, <2>1 DEF Unpacking
  <2>2. CASE Hashed(r) # <<>>
    <3>1. pc' = "lookup"
      BY <1>1, <2>2
    <3>2. run'.i \in 1..Len(Hashed(r)) /\ Len(src'.parts) = run'.i - 1
      BY <1>2, <1>3, <1>4, <2>2
    <3> QED
      BY <1>2, <1>5, <3>1, <3>2 DEF Unpacking
  <2> QED
    BY <2>1, <2>2
<1> QED
  BY <1>1, <1>6, NotFetching DEF MInv, Working

\* What gc sweeps is stale, and during an extraction nobody edits a recipe.
LEMMA OthersKeep ==
  ASSUME IInv, MInv,
         \/ LookupFails \/ UnpackFails \/ ExtractExits \/ Kill
         \/ (\E e \in Entry, c \in Content : Edit(e, c))
         \/ Mark \/ Sweep \/ UNCHANGED vars
  PROVE  MInv'
<1>1. CASE LookupFails \/ UnpackFails \/ ExtractExits \/ Kill \/ \E e \in Entry, c \in Content : Edit(e, c)
  <2>1. pc' \in {"idle", "failed"}
    BY <1>1 DEF LookupFails, UnpackFails, ExtractExits, Kill, Edit
  <2> QED
    BY <2>1, NotFetching DEF MInv, Unpacking, Working
<1>2. CASE Mark \/ Sweep \/ UNCHANGED vars
  <2>1. /\ run' = run /\ pc' = pc /\ src' = src /\ want' = want /\ stale \subseteq stale'
    BY <1>2 DEF Mark, Sweep, vars
  <2>2. source' = source /\ wanted' = wanted
    BY <2>1 DEF source, package, wanted
  <2>3. Accounting' /\ Asking'
    BY <2>1, <2>2 DEF MInv, Accounting, Asking
  <2>4. Unpacking'
    BY <2>1, <2>2 DEF MInv, Unpacking, PartsRight, Hashes
  <2> QED
    BY <2>3, <2>4 DEF MInv
<1> QED
  BY <1>1, <1>2

LEMMA MStep == IInv /\ MInv /\ [Next]_vars => MInv'
BY FetchCounts, LookupRight, UnpackRight, ExtractRight, OthersKeep DEF Next, ExtractSteps

LEMMA MInvariance == Spec => [](IInv /\ MInv)
BY InitInv, NextKeeps, MInit, MStep, PTL DEF Spec

(* What a build takes from SRCDIR after an extraction that ended well is all *)
(* sources of the recipe that have a hash, in their order, each with a hash  *)
(* that the latest recipes give for its file name, unless the name is stale  *)
(* (extract_source): ExtractedRight, which the run fetch checks for recipes  *)
(* of two sources, for any number of them.                                   *)
THEOREM ExtractedRightTheorem == Spec => []ExtractedRight
<1>1. MInv => ExtractedRight
  BY DEF MInv, Unpacking, PartsRight, ExtractedRight
<1> QED
  BY <1>1, MInvariance, PTL

(* The sum that decides the exit code of a fetch counts every source of      *)
(* every package once (fetch_sources, fetch_sources_batch): Accounted, for   *)
(* any number of packages and sources.                                       *)
THEOREM AccountedTheorem == Spec => []Accounted
<1>1. MInv => Accounted
  BY DEF MInv, Accounting, Accounted
<1> QED
  BY <1>1, MInvariance, PTL

(* No source is given up before each of its addresses was asked              *)
(* (download_and_verify): GivesUpLast, for any mirrors.                      *)
THEOREM GivesUpLastTheorem == Spec => GivesUpLast
<1>1. IInv /\ MInv /\ [Next]_vars =>
         [pc = "try" /\ pc' \in {"source", "fetched"} => Len(run.tries) = Urls(source.file)]_vars
  <2> SUFFICES ASSUME IInv, MInv, [Next]_vars, pc = "try", pc' \in {"source", "fetched"}
               PROVE  Len(run.tries) = Urls(source.file)
    OBVIOUS
  <2>1. ~(Len(run.tries) < Urls(source.file))
    BY DEF Next, Fetch, Extract, FetchSteps, ExtractSteps, SourceCached, SourceSkipped, Download, Received,
           TransientError, OtherError, NextUrl, Put, TruncateRef, WriteRef, StoreFails, FetchExits, Lookup,
           LookupFails, Unpack, UnpackFails, ExtractExits, Kill, Edit, Mark, Sweep, vars
  <2>2. Len(run.tries) <= Urls(source.file)
    BY DEF MInv, Asking
  <2>3. Len(run.tries) \in Nat /\ Urls(source.file) \in Nat
    <3>1. run \in Fetching /\ source.file \in File
      BY AtHand DEF Working
    <3>2. run.tries \in Seq(1..(MaxRetries + 1))
      BY <3>1 DEF Fetching
    <3> QED
      BY <3>1, <3>2, UrlsCount, LenProperties
  <2> QED
    BY <2>1, <2>2, <2>3
<1> QED
  BY <1>1, MInvariance, PTL DEF Spec, GivesUpLast
=============================================================================
