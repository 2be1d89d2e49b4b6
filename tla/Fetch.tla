------------------------------- MODULE Fetch -------------------------------
(***************************************************************************)
(* ribosome fetch, and the extraction of what it fetched.  fetch takes the *)
(* latest recipe of each package, downloads its sources from the mirrors   *)
(* or from their own address, stores them in the vacuole and names them by *)
(* the file name.  A build resolves the name and unpacks the object into   *)
(* SRCDIR.  One ribosome at a time, which may be killed anywhere; gc does  *)
(* not wait for it.  Recipes are parsed before the first source is looked  *)
(* up, so an edit counts from the next run on.                             *)
(***************************************************************************)
EXTENDS MrnaIndex, Sequences, SequencesExt

CONSTANTS
    Names,      \* the packages, in the order of their names
    Sources,    \* the sources of each recipe: file name, and whether it has a hash
    Content,    \* what a server may send, and a hash may stand for
    Layout,     \* what is at the top of each, taken as an archive
    EnvRules,   \* mirror rules, each as the files whose address it matches:
    FileRules   \* RIBOSOME_MIRROR_n, and the file of mirrors

Source == UNION {Range(Sources[r]) : r \in Recipe}
File == {s.file : s \in Source}
\* The sources with a hash, each by its recipe and its place there.
Entry == UNION {{<<r, i>> : i \in {j \in DOMAIN Sources[r] : Sources[r][j].hashed}} : r \in Recipe}
FileOf(e) == Sources[e[1]][e[2]].file

ASSUME FetchAssumption ==
    /\ Names \in Seq(Package) /\ Range(Names) = Package
    /\ Recipe # {}
    /\ \A r \in Recipe : Sources[r] \in Seq(Source) /\ Sources[r] # <<>>
    /\ \A s \in Source : s.hashed \in BOOLEAN
    /\ {"none", "torn"} \cap Content = {}
    /\ Layout \in [Content -> {"one", "many", "self"}]
    /\ EnvRules \in Seq(SUBSET File) /\ FileRules \in Seq(SUBSET File)

VARIABLES
    objects,   \* what the vacuole has
    refs,      \* source references: a content, "none", or "torn" in mid-write
    live,      \* what a gc at work found referenced
    want,      \* the content whose hash is given with each source
    src,       \* SRCDIR: what was unpacked, and whether something is in part
    pc, run,
    ready,     \* history: files that a fetch which ended well answers for
    stale      \* history: of those named, whose hash was edited away or object lost since

store == <<objects, refs>>
vars == <<objects, refs, live, want, src, pc, run, ready, stale>>

Kind == {"fetched", "cached", "skipped", "failed"}
Count == [Kind -> Nat]
Zero == [k \in Kind |-> 0]
Plus(a, b) == [k \in Kind |-> a[k] + b[k]]
Named(f) == refs[f] \in Content

\* MAX_DOWNLOAD_RETRIES
MaxRetries == 3
Mirrors == EnvRules \o FileRules
\* Mirrors go first, in the order of their rules, and the source's own address last.
Urls(f) == Cardinality({n \in DOMAIN Mirrors : f \in Mirrors[n]}) + 1
Batch == [k \in DOMAIN Names |-> Resolve(Recipe, Names[k], Unpinned, Unpinned)]
LatestEntry == {e \in Entry : e[1] \in Range(Batch)}

\* The sources with a hash, in their order.
Hashed(r) ==
    LET hashed[n \in 0..Len(Sources[r])] ==
            IF n = 0 THEN <<>>
            ELSE IF Sources[r][n].hashed THEN Append(hashed[n - 1], Sources[r][n]) ELSE hashed[n - 1]
    IN  hashed[Len(Sources[r])]

Run == [op : {"fetch"}, p : Nat, i : Nat, tries : Seq(1..(MaxRetries + 1)), rep : Count, sum : Count]
       \cup [op : {"extract"}, r : Recipe, i : Nat, digest : Content \cup {"none"}]
       \cup [op : {"none"}]
NoRun == [op |-> "none"]
FetchRun == [op |-> "fetch", p |-> 1, i |-> 1, tries |-> <<>>, rep |-> Zero, sum |-> Zero]
ExtractRun(r) == [op |-> "extract", r |-> r, i |-> 1, digest |-> "none"]

Init ==
    /\ objects = {}
    /\ refs = [f \in File |-> "none"]
    /\ live = {}
    /\ want \in [Entry -> Content]
    /\ src = [parts |-> <<>>, torn |-> FALSE]
    /\ pc = "idle"
    /\ run = NoRun
    /\ ready = {}
    /\ stale = {}

-----------------------------------------------------------------------------
\* cmd_fetch and fetch_sources_batch.
package == Batch[run.p]
source == Sources[package][run.i]
expected == want[<<package, run.i>>]

Fetch ==
    /\ pc = "idle"
    /\ run' = FetchRun
    /\ pc' = "source"
    /\ UNCHANGED <<store, live, want, src, ready, stale>>

\* The package is done with: it adds c to the sum.
PackageAdds(c) ==
    /\ run' = [run EXCEPT !.p = @ + 1, !.i = 1, !.tries = <<>>, !.rep = Zero, !.sum = Plus(@, c)]
    /\ pc' = IF run.p < Len(Batch) THEN "source" ELSE "fetched"

\* The source is done with: it counts as kind.
Counts(kind) ==
    LET rep == [run.rep EXCEPT ![kind] = @ + 1]
    IN IF run.i < Len(Sources[package])
       THEN /\ run' = [run EXCEPT !.i = @ + 1, !.tries = <<>>, !.rep = rep]
            /\ pc' = "source"
       ELSE PackageAdds(rep)

\* A bug: an error in the store adds to what the report has counted so far.
AbortsTwice ==
    PackageAdds([run.rep EXCEPT !["failed"] = @ + Len(Sources[package])])

\* An error in the store: all sources of the package count as failed.
Aborts == PackageAdds([Zero EXCEPT !["failed"] = Len(Sources[package])])

SourceCached ==
    /\ pc = "source" /\ Named(source.file)
    /\ Counts("cached")
    /\ UNCHANGED <<store, live, want, src, ready, stale>>

SourceSkipped ==
    /\ pc = "source" /\ ~Named(source.file)
    /\ ~source.hashed
    /\ Counts("skipped")
    /\ UNCHANGED <<store, live, want, src, ready, stale>>

Download ==
    /\ pc = "source" /\ ~Named(source.file)
    /\ source.hashed
    /\ run' = [run EXCEPT !.tries = <<1>>]
    /\ pc' = "try"
    /\ UNCHANGED <<store, live, want, src, ready, stale>>

-----------------------------------------------------------------------------
\* download_and_verify: run.tries counts the attempts at each URL so far.
attempt == Last(run.tries)

NextUrl ==
    IF Len(run.tries) < Urls(source.file)
    THEN run' = [run EXCEPT !.tries = Append(@, 1)] /\ UNCHANGED pc
    ELSE Counts("failed")

\* The body has arrived: what does not have the hash is an error like others.
Received(c) ==
    /\ pc = "try"
    /\ IF c = expected THEN pc' = "put" /\ UNCHANGED run ELSE NextUrl
    /\ UNCHANGED <<store, live, want, src, ready, stale>>

\* A bug: after the last attempt all begins again with the first address.
RetryForever ==
    /\ pc = "try"
    /\ run' = [run EXCEPT !.tries = IF attempt <= MaxRetries THEN Front(@) \o <<attempt + 1>> ELSE <<1>>]
    /\ UNCHANGED <<store, live, want, src, pc, ready, stale>>

\* A bug: what can be retried is given up with the source.
GiveUpTransient ==
    /\ pc = "try"
    /\ IF attempt <= MaxRetries
       THEN run' = [run EXCEPT !.tries = Front(@) \o <<attempt + 1>>] /\ UNCHANGED pc
       ELSE Counts("failed")
    /\ UNCHANGED <<store, live, want, src, ready, stale>>

\* An error whose text is among those that are retried ...
TransientError ==
    /\ pc = "try"
    /\ IF attempt <= MaxRetries
       THEN run' = [run EXCEPT !.tries = Front(@) \o <<attempt + 1>>] /\ UNCHANGED pc
       ELSE NextUrl
    /\ UNCHANGED <<store, live, want, src, ready, stale>>

\* ... and one whose text is not, an HTTP status for instance.
OtherError ==
    /\ pc = "try"
    /\ NextUrl
    /\ UNCHANGED <<store, live, want, src, ready, stale>>

-----------------------------------------------------------------------------
\* The vacuole: put_bytes, and add_source_ref, which truncates and then writes.
Put ==
    /\ pc = "put"
    /\ objects' = objects \cup {expected}
    /\ pc' = "name"
    /\ UNCHANGED <<refs, live, want, src, run, ready, stale>>

TruncateRef ==
    /\ pc = "name"
    /\ refs' = [refs EXCEPT ![source.file] = "torn"]
    /\ pc' = "write"
    /\ UNCHANGED <<objects, live, want, src, run, ready, stale>>

WriteRef ==
    /\ pc = "write"
    /\ refs' = [refs EXCEPT ![source.file] = expected]
    /\ stale' = IF expected \in objects THEN stale \ {source.file}
                                     ELSE stale \cup {source.file}
    /\ Counts("fetched")
    /\ UNCHANGED <<objects, live, want, src, ready>>

\* A bug: the error is dropped.
StoreFailsUnseen ==
    /\ pc \in {"put", "name", "write"}
    /\ Counts("fetched")
    /\ UNCHANGED <<store, live, want, src, ready, stale>>

StoreFails ==
    /\ pc \in {"put", "name", "write"}
    /\ Aborts
    /\ UNCHANGED <<store, live, want, src, ready, stale>>

\* ribosome fetch exits: with success if nothing failed.
FetchExits ==
    /\ pc = "fetched"
    /\ ready' = IF run.sum["failed"] = 0
                  THEN ready \cup {FileOf(e) : e \in LatestEntry}
                  ELSE ready
    /\ pc' = "idle"
    /\ run' = NoRun
    /\ UNCHANGED <<store, live, want, src, stale>>

-----------------------------------------------------------------------------
\* extract_source, for a build of recipe r: SRCDIR is removed first.
Extract(r) ==
    /\ pc = "idle"
    /\ run' = ExtractRun(r)
    /\ src' = [parts |-> <<>>, torn |-> FALSE]
    /\ pc' = IF Hashed(r) = <<>> THEN "extracted" ELSE "lookup"
    /\ UNCHANGED <<store, live, want, ready, stale>>

wanted == Hashed(run.r)[run.i].file

Lookup ==
    /\ pc = "lookup"
    /\ Named(wanted) /\ refs[wanted] \in objects
    /\ run' = [run EXCEPT !.digest = refs[wanted]]
    /\ src' = [src EXCEPT !.torn = TRUE]
    /\ pc' = "unpack"
    /\ UNCHANGED <<store, live, want, ready, stale>>

\* "not in CAS", a reference that does not parse, "object missing from CAS".
LookupFails ==
    /\ pc = "lookup"
    /\ ~(Named(wanted) /\ refs[wanted] \in objects)
    /\ pc' = "failed"
    /\ UNCHANGED <<store, live, want, src, run, ready, stale>>

\* The first source is hoisted out of its single top directory: not possible if
\* something in there has the directory's own name.
CanHoist(c) == run.i = 1 => Layout[c] # "self"

\* A bug: every source is unpacked over what there is of the first.
UnpackOnly ==
    /\ pc = "unpack"
    /\ src' = [parts |-> <<run.digest>>, torn |-> FALSE]
    /\ IF run.i < Len(Hashed(run.r))
       THEN run' = [run EXCEPT !.i = @ + 1, !.digest = "none"] /\ pc' = "lookup"
       ELSE pc' = "extracted" /\ UNCHANGED run
    /\ UNCHANGED <<store, live, want, ready, stale>>

Unpack ==
    /\ pc = "unpack"
    /\ run.digest \in objects /\ CanHoist(run.digest)
    /\ src' = [parts |-> Append(src.parts, run.digest), torn |-> FALSE]
    /\ IF run.i < Len(Hashed(run.r))
       THEN run' = [run EXCEPT !.i = @ + 1, !.digest = "none"] /\ pc' = "lookup"
       ELSE pc' = "extracted" /\ UNCHANGED run
    /\ UNCHANGED <<store, live, want, ready, stale>>

\* The object is gone when it is opened, it cannot be hoisted or is no archive
\* of a known kind, an entry leads out of SRCDIR, the disk is full.
UnpackFails ==
    /\ pc = "unpack"
    /\ pc' = "failed"
    /\ UNCHANGED <<store, live, want, src, run, ready, stale>>

ExtractExits ==
    /\ pc \in {"extracted", "failed"}
    /\ pc' = "idle"
    /\ run' = NoRun
    /\ UNCHANGED <<store, live, want, src, ready, stale>>

-----------------------------------------------------------------------------
Kill ==
    /\ pc # "idle"
    /\ pc' = "idle"
    /\ run' = NoRun
    /\ UNCHANGED <<store, live, want, src, ready, stale>>

\* Another hash for a source.  Other sources of its file name keep theirs.
Edit(e, c) ==
    /\ pc = "idle"
    /\ want' = [want EXCEPT ![e] = c]
    /\ stale' = IF refs[FileOf(e)] = want[e] /\ c # want[e] THEN stale \cup {FileOf(e)} ELSE stale
    /\ UNCHANGED <<store, live, src, pc, run, ready>>

\* A gc marks, and sweeps afterwards.
Mark ==
    /\ live = {}
    /\ live' = {refs[f] : f \in File} \cup {"marked"}
    /\ UNCHANGED <<store, want, src, pc, run, ready, stale>>

Sweep ==
    /\ live # {}
    /\ objects' = objects \cap live
    /\ live' = {}
    /\ stale' = stale \cup {f \in File : Named(f) /\ refs[f] \notin objects'}
    /\ UNCHANGED <<refs, want, src, pc, run, ready>>

FetchSteps ==
    \/ SourceCached \/ SourceSkipped \/ Download
    \/ \E c \in Content : Received(c)
    \/ TransientError \/ OtherError
    \/ Put \/ TruncateRef \/ WriteRef \/ StoreFails \/ FetchExits
ExtractSteps == Lookup \/ LookupFails \/ Unpack \/ UnpackFails \/ ExtractExits

Next ==
    \/ Fetch \/ \E r \in Recipe : Extract(r)
    \/ FetchSteps \/ ExtractSteps \/ Kill
    \/ \E e \in Entry, c \in Content : Edit(e, c)
    \/ Mark \/ Sweep

\* ribosome goes on: a request ends, in an answer, an error or its timeout.
Spec == Init /\ [][Next]_vars /\ WF_vars(FetchSteps) /\ WF_vars(ExtractSteps)

-----------------------------------------------------------------------------
Steps == {"idle", "source", "try", "put", "name", "write", "fetched",
          "lookup", "unpack", "extracted", "failed"}

TypeOK ==
    /\ objects \subseteq Content
    /\ refs \in [File -> Content \cup {"none", "torn"}]
    /\ live \subseteq Content \cup {"none", "torn", "marked"}
    /\ want \in [Entry -> Content]
    /\ src \in [parts : Seq(Content), torn : BOOLEAN]
    /\ pc \in Steps
    /\ run \in Run
    /\ ready \subseteq File /\ stale \subseteq File

\* The hashes that the latest recipes give for a file name.
Hashes(f) == {want[e] : e \in {d \in LatestEntry : FileOf(d) = f}}

(* After a fetch that ended well, the file name of every source with a hash, *)
(* of the latest recipe of every package, leads to an object, with a hash    *)
(* that these recipes give for the name: the source's own, if they agree.    *)
(* It does so whatever was killed in mid-write before, whichever server sent *)
(* what and whatever gc does.  If two of them are at odds the name has the   *)
(* hash of one, and the other, whose source fetch takes for cached, may end  *)
(* without its source; nor does fetch see that the hash a source was stored  *)
(* under was edited since, or its object lost to a gc (stale).               *)
Served == \A f \in ready \ stale : refs[f] \in Hashes(f) /\ refs[f] \in objects

(* Sources that a build takes from SRCDIR after an extraction that ended     *)
(* well are all those of its recipe that have a hash, in their order and     *)
(* whole, each an object that was stored with a hash which the latest        *)
(* recipes give for its file name, unless the name is stale.  It need not be *)
(* the hash of the recipe at hand, if that is at odds with them or is not a  *)
(* latest one: extract_source compares none.                                 *)
ExtractedRight ==
    pc = "extracted" =>
        /\ ~src.torn
        /\ Len(src.parts) = Len(Hashed(run.r))
        /\ \A i \in DOMAIN src.parts :
              LET f == Hashed(run.r)[i].file IN f \notin stale => src.parts[i] \in Hashes(f)

Total(c) == c["fetched"] + c["cached"] + c["skipped"] + c["failed"]
\* How many sources the first n packages have.
SourcesOf(n) ==
    LET all[k \in 0..Len(Batch)] == IF k = 0 THEN 0 ELSE all[k - 1] + Len(Sources[Batch[k]])
    IN  all[n]

(* Every source of every package is counted once, whether it was fetched,    *)
(* found, skipped, not to be had, or its package ended in an error of the    *)
(* store: the sum of a fetch decides its exit code.                          *)
Accounted == pc = "fetched" => Total(run.sum) = SourcesOf(Len(Batch))

(* No source is given up before each of its addresses was asked, the         *)
(* source's own last, whichever errors and wrong contents they answer with.  *)
GivesUpLast ==
    [][ (pc = "try" /\ pc' \in {"source", "fetched"})
            => Len(run.tries) = Urls(source.file) ]_vars

(* A fetch ends, however often the servers fail it, and so does an           *)
(* extraction.                                                               *)
RibosomeEnds == (pc # "idle") ~> (pc = "idle")
=============================================================================
