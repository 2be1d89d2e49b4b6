------------------------------- MODULE Vacuole -------------------------------
(***************************************************************************)
(* The vacuole: lysine-os's content-addressable store (ribosome-store),    *)
(* used by several processes at once.  A process stores a blob and then    *)
(* names it (fetch: put_bytes and add_source_ref; build: put_file and      *)
(* add_package_ref), resolves a name and reads the object (source          *)
(* extraction, lysin), removes a name, or collects garbage.  A step is one *)
(* system call on the shared directories; nothing locks them.  A process   *)
(* may stop between any two steps.                                         *)
(***************************************************************************)
EXTENDS FiniteSets

CONSTANTS
    Proc,      \* processes; each tmp file name ends in its writer's pid
    Content,   \* what a blob can hold
    Digest,    \* SHA-256 digests, the names of objects
    SHA256,    \* the digest of each content
    RefName,   \* the names under refs/packages and refs/sources
    Object,    \* the owner of an entry that is an object, not a tmp file
    NoFile,    \* a name with no file
    Partial,   \* a file being written, or left so by a crash
    QuietGC    \* TRUE: gc is only run while the store is idle, as the docs advise

ASSUME HashAssumption ==
    /\ SHA256 \in [Content -> Digest]
    /\ \A a, b \in Content : SHA256[a] = SHA256[b] => a = b

ASSUME ValueAssumption ==
    /\ NoFile \notin Content \cup Digest \cup RefName
    /\ Partial \notin Content \cup Digest
    /\ NoFile # Partial
    /\ Object \notin Proc
    /\ QuietGC \in BOOLEAN

VARIABLES
    files,     \* objects/: the data of each entry
    refs,      \* refs/: the digest each reference file holds
    pc,        \* where each process is
    local,     \* the locals of its running call
    linked,    \* processes whose open reference file still has its name
    steady     \* history: the names not written since a process's gc began

vars == <<files, refs, pc, local, linked, steady>>

(***************************************************************************)
(* objects/ holds entries <<owner, digest>>: the object of a digest, or    *)
(* the tmp file <digest>.tmp.<pid> of a writer.                            *)
(***************************************************************************)
Entry == (Proc \cup {Object}) \X Digest
Obj(d) == <<Object, d>>
Tmp(p) == <<p, local[p].digest>>
Exists(e) == files[e] # NoFile

PutSteps == {"create", "write", "rename", "stored", "addref"}
ReadSteps == {"resolved", "handle"}
GcSteps == {"mark", "readref", "sweep", "unlink"}

Ops == {"put_bytes", "put_file"}

Locals == [op : Ops \cup {NoFile},
           digest : Digest \cup {NoFile},
           name : RefName \cup {NoFile},
           reachable : SUBSET Digest,
           unread : SUBSET RefName,
           unswept : SUBSET Entry,
           entry : Entry \cup {NoFile}]

NoLocals == [op |-> NoFile, digest |-> NoFile, name |-> NoFile, reachable |-> {},
             unread |-> {}, unswept |-> {}, entry |-> NoFile]

Init ==
    /\ files = [e \in Entry |-> NoFile]
    /\ refs = [n \in RefName |-> NoFile]
    /\ pc = [p \in Proc |-> "idle"]
    /\ local = [p \in Proc |-> NoLocals]
    /\ linked = {}
    /\ steady = [p \in Proc |-> {}]

Goto(p, step) == pc' = [pc EXCEPT ![p] = step]

\* A call returns, with a result or an error: its locals go.
Return(p) == /\ Goto(p, "idle")
             /\ local' = [local EXCEPT ![p] = NoLocals]
             /\ linked' = linked \ {p}

\* Reference n is rewritten: no gc can count on what it read of it.
Touch(n) == steady' = [q \in Proc |-> steady[q] \ {n}]

\* The docs' advice, when QuietGC: no call while a gc runs, no gc during a call.
MayStart(p) == /\ pc[p] = "idle"
               /\ QuietGC => \A q \in Proc : pc[q] \notin GcSteps
MayCollect(p) == /\ pc[p] = "idle"
                 /\ QuietGC => \A q \in Proc : pc[q] = "idle"

-----------------------------------------------------------------------------
(* Storing: put_bytes and put_file, then add_ref.                          *)

\* A bug: the object is taken to be there.
UncheckedPut(p, op, c, n) ==
    /\ MayStart(p)
    /\ local' = [local EXCEPT ![p].op = op, ![p].digest = SHA256[c], ![p].name = n]
    /\ Goto(p, "stored")
    /\ UNCHANGED <<files, refs, linked, steady>>

\* Hash the data, then look whether the object is there already.
Put(p, op, c, n) ==
    /\ MayStart(p)
    /\ local' = [local EXCEPT ![p].op = op, ![p].digest = SHA256[c], ![p].name = n]
    /\ Goto(p, IF Exists(Obj(SHA256[c])) THEN "stored" ELSE "create")
    /\ UNCHANGED <<files, refs, linked, steady>>

\* File::create: an empty tmp file, truncating one a dead process left.
CreateTmp(p) ==
    /\ pc[p] = "create"
    /\ files' = [files EXCEPT ![Tmp(p)] = Partial]
    /\ Goto(p, "write")
    /\ UNCHANGED <<refs, local, linked, steady>>

\* Write and sync.  put_file reads its source a second time here, and the source
\* may have changed since it was hashed.  A gc may have unlinked the tmp file.
WriteTmp(p) ==
    /\ pc[p] = "write"
    /\ \E c \in Content :
        /\ local[p].op = "put_bytes" => SHA256[c] = local[p].digest
        /\ files' = [files EXCEPT ![Tmp(p)] = IF Exists(Tmp(p)) THEN c ELSE NoFile]
    /\ Goto(p, "rename")
    /\ UNCHANGED <<refs, local, linked, steady>>

\* put_file hashes what it writes; put_bytes writes the bytes it hashed.
Verified(p) == local[p].op = "put_file" => SHA256[files[Tmp(p)]] = local[p].digest

\* A bug: what was written is not compared with what was hashed.
NoCheckRename(p) ==
    /\ pc[p] = "rename"
    /\ Exists(Tmp(p))
    /\ files' = [files EXCEPT ![Obj(local[p].digest)] = files[Tmp(p)], ![Tmp(p)] = NoFile]
    /\ Goto(p, "stored")
    /\ UNCHANGED <<refs, local, linked, steady>>

Rename(p) ==
    /\ pc[p] = "rename"
    /\ Exists(Tmp(p))
    /\ Verified(p)
    /\ files' = [files EXCEPT ![Obj(local[p].digest)] = files[Tmp(p)], ![Tmp(p)] = NoFile]
    /\ Goto(p, "stored")
    /\ UNCHANGED <<refs, local, linked, steady>>

\* HashMismatch, or the rename fails (a gc took the tmp file, or an I/O error): remove
\* the tmp file and return the error.
PutFails(p) ==
    /\ pc[p] = "rename"
    /\ files' = [files EXCEPT ![Tmp(p)] = NoFile]
    /\ Return(p)
    /\ UNCHANGED <<refs, steady>>

\* add_ref is std::fs::write: the file is created or truncated first, ...
TruncateRef(p) ==
    /\ pc[p] = "stored"
    /\ refs' = [refs EXCEPT ![local[p].name] = Partial]
    /\ linked' = linked \cup {p}
    /\ Touch(local[p].name)
    /\ Goto(p, "addref")
    /\ UNCHANGED <<files, local>>

\* ... and filled next; if the name was removed in between, the text goes nowhere.
WriteRef(p) ==
    /\ pc[p] = "addref"
    /\ refs' = [refs EXCEPT ![local[p].name] = IF p \in linked THEN local[p].digest ELSE @]
    /\ Touch(local[p].name)
    /\ Return(p)
    /\ UNCHANGED files

RemoveRef(p, n) ==
    /\ MayStart(p)
    /\ refs[n] # NoFile
    /\ refs' = [refs EXCEPT ![n] = NoFile]
    /\ linked' = {q \in linked : local[q].name # n}
    /\ Touch(n)
    /\ UNCHANGED <<files, pc, local>>

-----------------------------------------------------------------------------
(* Reading: resolve_ref, get, ObjectHandle::open.                          *)

\* An absent reference is None, an unparseable one an error: either ends the call.
ResolveRef(p, n) ==
    /\ MayStart(p)
    /\ refs[n] \in Digest
    /\ local' = [local EXCEPT ![p].digest = refs[n]]
    /\ Goto(p, "resolved")
    /\ UNCHANGED <<files, refs, linked, steady>>

Get(p) ==
    /\ pc[p] = "resolved"
    /\ IF Exists(Obj(local[p].digest))
         THEN Goto(p, "handle") /\ UNCHANGED <<local, linked>>
         ELSE Return(p)
    /\ UNCHANGED <<files, refs, steady>>

\* The handle holds a path, not a file: opening it looks the object up again.
Open(p) ==
    /\ pc[p] = "handle"
    /\ Return(p)
    /\ UNCHANGED <<files, refs, steady>>

-----------------------------------------------------------------------------
(* Collecting: gc marks what the references name, then sweeps objects/.    *)

Collect(p) ==
    /\ MayCollect(p)
    /\ local' = [local EXCEPT ![p].unread = RefName]
    /\ steady' = [steady EXCEPT ![p] = RefName]
    /\ Goto(p, "mark")
    /\ UNCHANGED <<files, refs, linked>>

\* read_dir yields the names in refs/ one at a time.
ListRef(p, n) ==
    /\ pc[p] = "mark"
    /\ n \in local[p].unread
    /\ IF refs[n] = NoFile
         THEN /\ local' = [local EXCEPT ![p].unread = @ \ {n}]
              /\ UNCHANGED pc
         ELSE /\ local' = [local EXCEPT ![p].unread = @ \ {n}, ![p].name = n]
              /\ Goto(p, "readref")
    /\ UNCHANGED <<files, refs, linked, steady>>

\* A bug: the text of the reference is kept without being parsed.
UnparsedReadRef(p) ==
    /\ pc[p] = "readref"
    /\ local' = [local EXCEPT ![p].reachable = @ \cup {refs[local[p].name]},
                              ![p].name = NoFile]
    /\ Goto(p, "mark")
    /\ UNCHANGED <<files, refs, linked, steady>>

\* A bug: the reference is listed and not followed.
ForgetfulReadRef(p) ==
    /\ pc[p] = "readref"
    /\ local' = [local EXCEPT ![p].name = NoFile]
    /\ Goto(p, "mark")
    /\ UNCHANGED <<files, refs, linked, steady>>

\* Read the listed reference: gone is an I/O error that ends the gc; text that
\* is no digest (a reference being rewritten) protects nothing.
ReadRef(p) ==
    /\ pc[p] = "readref"
    /\ LET ref == refs[local[p].name]
       IN  IF ref = NoFile
             THEN /\ Return(p)
                  /\ steady' = [steady EXCEPT ![p] = {}]
             ELSE /\ local' = [local EXCEPT ![p].reachable = @ \cup ({ref} \cap Digest),
                                            ![p].name = NoFile]
                  /\ Goto(p, "mark")
                  /\ UNCHANGED <<linked, steady>>
    /\ UNCHANGED <<files, refs>>

\* A bug: whatever is listed is removed.
AnythingGarbage(p, e) == TRUE

\* An entry to be removed: every tmp file, and an object no reference marked.
Garbage(p, e) == e[1] = Object => e[2] \notin local[p].reachable

\* A bug: the sweep starts while references are still to be read.
EarlySweep(p) ==
    /\ pc[p] = "mark"
    /\ local' = [local EXCEPT ![p].unread = {},
                              ![p].unswept = {e \in Entry : Exists(e) /\ Garbage(p, e)}]
    /\ Goto(p, "sweep")
    /\ UNCHANGED <<files, refs, linked, steady>>

\* A bug: tmp files are skipped.
ObjectSweep(p) ==
    /\ pc[p] = "mark"
    /\ local[p].unread = {}
    /\ local' = [local EXCEPT ![p].unswept = {e \in Entry : /\ e[1] = Object
                                                            /\ Exists(e) /\ Garbage(p, e)}]
    /\ Goto(p, "sweep")
    /\ UNCHANGED <<files, refs, linked, steady>>

\* read_dir comes to every entry that stays from now on, ...
Sweep(p) ==
    /\ pc[p] = "mark"
    /\ local[p].unread = {}
    /\ local' = [local EXCEPT ![p].unswept = {e \in Entry : Exists(e) /\ Garbage(p, e)}]
    /\ Goto(p, "sweep")
    /\ UNCHANGED <<files, refs, linked, steady>>

\* ... and may come to one created meanwhile.
ListEntry(p, e) ==
    /\ pc[p] = "sweep"
    /\ Exists(e)
    /\ Garbage(p, e)
    /\ local' = [local EXCEPT ![p].unswept = @ \ {e}, ![p].entry = e]
    /\ Goto(p, "unlink")
    /\ UNCHANGED <<files, refs, linked, steady>>

\* An entry that went before read_dir came to it is not listed.
MissEntry(p, e) ==
    /\ pc[p] = "sweep"
    /\ e \in local[p].unswept
    /\ ~Exists(e)
    /\ local' = [local EXCEPT ![p].unswept = @ \ {e}]
    /\ UNCHANGED <<files, refs, pc, linked, steady>>

\* remove_file: an object that is gone by now (another gc) ends this one with GcFailed;
\* for a tmp file the error is ignored.
Unlink(p) ==
    /\ pc[p] = "unlink"
    /\ LET e == local[p].entry
       IN  IF e[1] = Object /\ ~Exists(e)
             THEN /\ Return(p)
                  /\ steady' = [steady EXCEPT ![p] = {}]
                  /\ UNCHANGED files
             ELSE /\ files' = [files EXCEPT ![e] = NoFile]
                  /\ local' = [local EXCEPT ![p].entry = NoFile]
                  /\ Goto(p, "sweep")
                  /\ UNCHANGED <<linked, steady>>
    /\ UNCHANGED refs

GcDone(p) ==
    /\ pc[p] = "sweep"
    /\ local[p].unswept = {}
    /\ Return(p)
    /\ steady' = [steady EXCEPT ![p] = {}]
    /\ UNCHANGED <<files, refs>>

-----------------------------------------------------------------------------
\* A process is killed, or an I/O error ends its call: what it did so far stays.
Stop(p) ==
    /\ pc[p] # "idle"
    /\ Return(p)
    /\ steady' = [steady EXCEPT ![p] = {}]
    /\ UNCHANGED <<files, refs>>

Next == \E p \in Proc :
    \/ \E op \in Ops, c \in Content, n \in RefName : Put(p, op, c, n)
    \/ CreateTmp(p) \/ WriteTmp(p) \/ Rename(p) \/ PutFails(p)
    \/ TruncateRef(p) \/ WriteRef(p)
    \/ \E n \in RefName : RemoveRef(p, n) \/ ResolveRef(p, n) \/ ListRef(p, n)
    \/ Get(p) \/ Open(p)
    \/ Collect(p) \/ ReadRef(p) \/ Sweep(p) \/ Unlink(p) \/ GcDone(p)
    \/ \E e \in Entry : ListEntry(p, e) \/ MissEntry(p, e)
    \/ Stop(p)

Spec == Init /\ [][Next]_vars

-----------------------------------------------------------------------------
TypeOK ==
    /\ files \in [Entry -> Content \cup {NoFile, Partial}]
    /\ refs \in [RefName -> Digest \cup {NoFile, Partial}]
    /\ pc \in [Proc -> {"idle"} \cup PutSteps \cup ReadSteps \cup GcSteps]
    /\ local \in [Proc -> Locals]
    /\ linked \in SUBSET Proc
    /\ steady \in [Proc -> SUBSET RefName]
    /\ \A p \in Proc :
        /\ pc[p] \in PutSteps => local[p].op \in Ops /\ local[p].name \in RefName
        /\ pc[p] \in PutSteps \cup ReadSteps => local[p].digest \in Digest
        /\ pc[p] = "readref" => local[p].name \in RefName
        /\ pc[p] = "unlink" => local[p].entry \in Entry

(* What get hands out is an object as it was stored, whole: whoever sees    *)
(* the name of an object sees complete data with that digest, whatever      *)
(* writers raced, stopped half-way or read a source that changed under them.*)
ObjectsIntact ==
    \A d \in Digest : Exists(Obj(d)) =>
        /\ files[Obj(d)] \in Content
        /\ SHA256[files[Obj(d)]] = d

(* A gc, racing anything, removes no object that a reference has named ever *)
(* since the gc began; what it may remove is an object named later.         *)
GcSparesRooted ==
    [][\A p \in Proc, n \in RefName :
        /\ Unlink(p)
        /\ n \in steady[p]
        /\ refs[n] \in Digest
        /\ Exists(Obj(refs[n]))
        => Exists(Obj(refs[n]))']_vars

(* With gc run only while the store is idle, no reference dangles: stops    *)
(* between put and add_ref leave objects without a name, never the reverse. *)
RefsResolve == \A n \in RefName : refs[n] \in Digest => Exists(Obj(refs[n]))

(* With gc run only while the store is idle, a process that resolved a      *)
(* reference finds and opens its object, even if others rewrite or remove   *)
(* the reference meanwhile.                                                 *)
ReadersServed ==
    \A p \in Proc : pc[p] \in ReadSteps => Exists(Obj(local[p].digest))

(* With gc run only while the store is idle, a gc that ends leaves nothing  *)
(* but referenced objects: no tmp file of a stopped writer, no orphan.      *)
SweptClean ==
    [][\A p \in Proc : GcDone(p) =>
        \A e \in Entry : Exists(e) => e[1] = Object /\ \E n \in RefName : refs[n] = e[2]]_vars

(* Vacuole implements RootedStore: an entry of objects/ is a stored digest, *)
(* a reference file with a digest in it is a bound name.                    *)
Rooted == INSTANCE RootedStore WITH
    have <- {d \in Digest : Exists(Obj(d))},
    bound <- [n \in RefName |-> IF refs[n] \in Digest THEN refs[n] ELSE NoFile],
    Unbound <- NoFile

ImplementsRootedStore == Rooted!Spec
=============================================================================
