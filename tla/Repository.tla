------------------------------ MODULE Repository ------------------------------
(***************************************************************************)
(* A package repository: .prot files, the index nucleus.db and its hash    *)
(* nucleus.db.sha256.  publish copies a file in and adds it to the index,  *)
(* rebuild_index makes the index anew from the files.  A step is one file  *)
(* read, or one system call that changes a file.  A process may be killed  *)
(* or meet an I/O error between any two, and no lock keeps two apart.      *)
(***************************************************************************)
EXTENDS Naturals

CONSTANTS
    Proc,      \* publishers and rebuilds that may run at the same time
    File,      \* .prot paths: what their file names say of name and version
    Content,   \* what a package file may hold
    None,      \* no file, no entry
    Partial    \* a file half written

(* A path's version is parsed into num, the rank of its first three numbers *)
(* (0: it does not parse), and rest, what follows them; text is the rank of *)
(* the whole as a string, and rel the release.                              *)
ASSUME FileAssumption ==
    /\ \A f \in File : {f.num, f.rest, f.text, f.rel} \subseteq Nat
    /\ \A f, g \in File : f.text = g.text => f.num = g.num /\ f.rest = g.rest

Name == {f.name : f \in File}

ASSUME MarkAssumption ==
    /\ None # Partial
    /\ {None, Partial} \cap Content = {}
    /\ None \notin File

VARIABLES
    prots,     \* what each path of the repository holds
    db,        \* nucleus.db
    tmp,       \* nucleus.db.tmp
    sidecar,   \* nucleus.db.sha256: the index whose hash was last written to it
    pc,        \* where each process is
    local,     \* the locals of its operation
    solo,      \* history: processes at work whose operation met no other
    dirty,     \* history: names a publish left unfinished, or all after two operations met
    stale      \* history: a save was cut short before the sidecar, or two operations met

vars == <<prots, db, tmp, sidecar, pc, local, solo, dirty, stale>>
history == <<solo, dirty, stale>>

(* An entry's hash, and its fields read from META, are of the file's content *)
(* when it was indexed; those of half a file are empty.                      *)
Entries == [file : File, of : Content \cup {Partial}]
Indexes == [Name -> Entries \cup {None}]
NoEntries == [n \in Name |-> None]

ASSUME EntryAssumption == None \notin Entries /\ {None, Partial} \cap Indexes = {}

Steps == {"copy", "hash", "load", "scan", "save", "write", "rename", "sidecar"}
Locals == [op : {"none", "create", "publish", "rebuild"},
           file : File \cup {None},                   \* the package in work ...
           source : Content \cup {None},              \* ... what is published as it ...
           todo : SUBSET File,                        \* paths rebuild_index has yet to visit
           mem : Indexes,                             \* the RepositoryIndex
           fd : {"none", "tmp", "db"}]                \* the name of the file save has open
NoLocals == [op |-> "none", file |-> None, source |-> None, todo |-> {},
             mem |-> NoEntries, fd |-> "none"]

Init ==
    /\ prots = [f \in File |-> None]
    /\ db = None
    /\ tmp = None
    /\ sidecar = None
    /\ pc = [p \in Proc |-> "idle"]
    /\ local = [p \in Proc |-> NoLocals]
    /\ solo = {}
    /\ dirty = {}
    /\ stale = FALSE

Goto(p, step) == pc' = [pc EXCEPT ![p] = step]

\* An operation that starts while another is at work may spoil what both do.
Begin(p) ==
    LET meets == \E q \in Proc \ {p} : pc[q] # "idle"
    IN  /\ solo' = IF meets THEN {} ELSE {p}
        /\ dirty' = IF meets THEN Name ELSE dirty
        /\ stale' = (meets \/ stale)

-----------------------------------------------------------------------------
(* The index in memory.                                                    *)

\* RepositoryIndex::load skips lines that do not parse.
Loaded == IF db \in {None, Partial} THEN NoEntries ELSE db

Parsed(f, g) == f.num # 0 /\ g.num # 0
Equal(f, g) == f.num = g.num /\ f.rest = g.rest

\* A bug: the package that is there stays on equal versions and releases.
KeepsFirst(f, g) ==
    \/ Parsed(f, g) /\ f.num > g.num
    \/ Parsed(f, g) /\ Equal(f, g) /\ f.rel > g.rel
    \/ ~(Parsed(f, g) /\ (f.num > g.num \/ Equal(f, g))) /\ f.text >= g.text

\* A bug: releases are not compared.
AnyRelease(f, g) ==
    \/ Parsed(f, g) /\ f.num > g.num
    \/ ~(Parsed(f, g) /\ f.num > g.num) /\ f.text >= g.text

\* add_entry replaces g's entry by f's: an older version is compared as text as well.
Replaces(f, g) ==
    \/ Parsed(f, g) /\ f.num > g.num
    \/ Parsed(f, g) /\ Equal(f, g) /\ f.rel >= g.rel
    \/ ~(Parsed(f, g) /\ (f.num > g.num \/ Equal(f, g))) /\ f.text >= g.text

AddEntry(index, entry) ==
    LET n == entry.file.name
    IN  IF index[n] = None \/ Replaces(entry.file, index[n].file)
          THEN [index EXCEPT ![n] = entry] ELSE index

-----------------------------------------------------------------------------
(* create, publish and rebuild_index up to the save.                       *)

Create(p) ==
    /\ pc[p] = "idle"
    /\ db = None
    /\ local' = [local EXCEPT ![p] = [NoLocals EXCEPT !.op = "create"]]
    /\ Goto(p, "save")
    /\ Begin(p)
    /\ UNCHANGED <<prots, db, tmp, sidecar>>

\* publish opens the file in the category's directory, which truncates it, ...
Publish(p, f, c) ==
    /\ pc[p] = "idle"
    /\ db # None
    /\ prots' = [prots EXCEPT ![f] = Partial]
    /\ local' = [local EXCEPT ![p] =
           [NoLocals EXCEPT !.op = "publish", !.file = f, !.source = c]]
    /\ Goto(p, "copy")
    /\ Begin(p)
    /\ UNCHANGED <<db, tmp, sidecar>>

\* ... and copies; two copies into one file may mix.
Copy(p) ==
    /\ pc[p] = "copy"
    /\ \E c \in {local[p].source, Partial} :
           /\ c = Partial => \E q \in Proc \ {p} : local[q].op = "publish"
                                                 /\ local[q].file = local[p].file
           /\ prots' = [prots EXCEPT ![local[p].file] = c]
    /\ Goto(p, "hash")
    /\ UNCHANGED <<db, tmp, sidecar, local, history>>

\* The entry for what the file holds now; its name is in the file name.
EntryFor(f) == [file |-> f, of |-> prots[f]]

Hash(p) ==
    /\ pc[p] = "hash"
    /\ local' = [local EXCEPT ![p].source = None,
                              ![p].mem[local[p].file.name] = EntryFor(local[p].file)]
    /\ Goto(p, "load")
    /\ UNCHANGED <<prots, db, tmp, sidecar, history>>

\* The index is read only now.
LoadIndex(p) ==
    /\ pc[p] = "load"
    /\ local' = [local EXCEPT ![p].mem = AddEntry(Loaded, @[local[p].file.name])]
    /\ Goto(p, "save")
    /\ UNCHANGED <<prots, db, tmp, sidecar, history>>

Rebuild(p) ==
    /\ pc[p] = "idle"
    /\ db # None
    /\ local' = [local EXCEPT ![p] = [NoLocals EXCEPT !.op = "rebuild", !.todo = File]]
    /\ Goto(p, "scan")
    /\ Begin(p)
    /\ UNCHANGED <<prots, db, tmp, sidecar>>

\* A bug: an entry is made for a file that is not there.
ScanAny(p, f) ==
    /\ pc[p] = "scan"
    /\ f \in local[p].todo
    /\ local' = [local EXCEPT ![p].todo = @ \ {f}, ![p].mem = AddEntry(@, EntryFor(f))]
    /\ UNCHANGED <<prots, db, tmp, sidecar, pc, history>>

\* rebuild_index adds an entry for each file, in the order of the directories, ...
ScanProt(p, f) ==
    /\ pc[p] = "scan"
    /\ f \in local[p].todo
    /\ prots[f] # None
    /\ local' = [local EXCEPT ![p].todo = @ \ {f}, ![p].mem = AddEntry(@, EntryFor(f))]
    /\ UNCHANGED <<prots, db, tmp, sidecar, pc, history>>

\* ... which may not list a file that is added meanwhile.
ScanAbsent(p, f) ==
    /\ pc[p] = "scan"
    /\ f \in local[p].todo
    /\ prots[f] = None
    /\ local' = [local EXCEPT ![p].todo = @ \ {f}]
    /\ UNCHANGED <<prots, db, tmp, sidecar, pc, history>>

-----------------------------------------------------------------------------
(* save: std::fs::write nucleus.db.tmp, rename it, std::fs::write the      *)
(* sidecar.                                                                *)

Save(p) ==
    /\ pc[p] = "save" \/ (pc[p] = "scan" /\ local[p].todo = {})
    /\ tmp' = Partial
    /\ local' = [local EXCEPT ![p].fd = "tmp"]
    /\ Goto(p, "write")
    /\ UNCHANGED <<prots, db, sidecar, history>>

\* The file may have been renamed since, by another process.
WriteTmp(p) ==
    /\ pc[p] = "write"
    /\ tmp' = IF local[p].fd = "tmp" THEN local[p].mem ELSE tmp
    /\ db' = IF local[p].fd = "db" THEN local[p].mem ELSE db
    /\ local' = [local EXCEPT ![p].fd = "none"]
    /\ Goto(p, "rename")
    /\ UNCHANGED <<prots, sidecar, history>>

\* Whoever else is about to write the tmp file now has nucleus.db open, and whoever had
\* that open, a file without a name.
Renamed(q) == [local[q] EXCEPT !.fd = IF @ = "tmp" THEN "db" ELSE "none"]

RenameTmp(p) ==
    /\ pc[p] = "rename"
    /\ tmp # None
    /\ db' = tmp
    /\ tmp' = None
    /\ local' = [q \in Proc |-> Renamed(q)]
    /\ Goto(p, "sidecar")
    /\ UNCHANGED <<prots, sidecar, history>>

\* A bug: a sidecar that is there is not written again.
WriteSidecarOnce(p) ==
    /\ pc[p] = "sidecar"
    /\ sidecar' = IF sidecar = None THEN local[p].mem ELSE sidecar
    /\ local' = [local EXCEPT ![p] = NoLocals]
    /\ Goto(p, "idle")
    /\ solo' = solo \ {p}
    /\ dirty' = IF p \in solo /\ local[p].op = "rebuild" THEN {} ELSE dirty
    /\ stale' = (stale /\ p \notin solo)
    /\ UNCHANGED <<prots, db, tmp>>

\* In one step: killed in between, the sidecar is stale all the same.  The operation ends;
\* after a rebuild that met no other the index is as it should be.
WriteSidecar(p) ==
    /\ pc[p] = "sidecar"
    /\ sidecar' = local[p].mem
    /\ local' = [local EXCEPT ![p] = NoLocals]
    /\ Goto(p, "idle")
    /\ solo' = solo \ {p}
    /\ dirty' = IF p \in solo /\ local[p].op = "rebuild" THEN {} ELSE dirty
    /\ stale' = (stale /\ p \notin solo)
    /\ UNCHANGED <<prots, db, tmp>>

-----------------------------------------------------------------------------
\* The names whose package file a process has changed and not yet indexed.
Pending(p) ==
    IF local[p].op = "publish" /\ pc[p] # "sidecar"
      THEN {local[p].file.name} ELSE {}

\* A process is killed, or an error ends its operation.
Stop(p) ==
    /\ pc[p] # "idle"
    /\ dirty' = dirty \cup Pending(p)
    /\ stale' = (stale \/ pc[p] = "sidecar")
    /\ solo' = solo \ {p}
    /\ local' = [local EXCEPT ![p] = NoLocals]
    /\ Goto(p, "idle")
    /\ UNCHANGED <<prots, db, tmp, sidecar>>

Next == \E p \in Proc :
    \/ Create(p)
    \/ \E f \in File, c \in Content : Publish(p, f, c)
    \/ Copy(p)
    \/ Hash(p)
    \/ Rebuild(p)
    \/ \E f \in File : ScanProt(p, f) \/ ScanAbsent(p, f)
    \/ LoadIndex(p)
    \/ Save(p)
    \/ WriteTmp(p)
    \/ RenameTmp(p)
    \/ WriteSidecar(p)
    \/ Stop(p)

Spec == Init /\ [][Next]_vars

-----------------------------------------------------------------------------
TypeOK ==
    /\ prots \in [File -> Content \cup {None, Partial}]
    /\ {db, tmp} \subseteq Indexes \cup {None, Partial}
    /\ sidecar \in Indexes \cup {None}
    /\ pc \in [Proc -> Steps \cup {"idle"}]
    /\ local \in [Proc -> Locals]
    /\ solo \subseteq Proc
    /\ dirty \subseteq Name
    /\ stale \in BOOLEAN

Settled == Name \ (dirty \cup UNION {Pending(p) : p \in Proc})
Present(n) == {f \in File : f.name = n /\ prots[f] # None}

(* The index is right about every package that no unfinished publish and no *)
(* meeting of two operations has touched since the last undisturbed         *)
(* rebuild: it is readable, and the package's entry names a file that is    *)
(* there, with the hash and the META of what the file holds.  lysin refuses *)
(* a package of another hash.  publish copies before it indexes; both       *)
(* rebuild_index and a publish of the same file name must repair the hash.  *)
IndexMatches ==
    \A n \in Settled : IF Present(n) = {}
        THEN db # Partial /\ Loaded[n] = None
        ELSE LET entry == Loaded[n]
             IN  /\ entry # None
                 /\ entry.of = prots[entry.file]

(* Among the files of such a package there is none of a higher version, or  *)
(* of a higher release of the version, than the indexed one (the promise of *)
(* add_entry's comment), in whatever order they were published or scanned.  *)
(* It needs versions that compare alike as numbers and as text.             *)
NewestIndexed ==
    \A n \in Settled, f \in File : f \in Present(n) /\ Loaded[n] # None =>
        LET g == Loaded[n].file
        IN  Parsed(f, g) => /\ f.num <= g.num
                            /\ Equal(f, g) => f.rel <= g.rel

(* nucleus.db.sha256 holds the hash of nucleus.db whenever no process is    *)
(* between the two files, once the last save was not cut short there and    *)
(* met no other operation.                                                  *)
SidecarMatches ==
    ~stale /\ (\A p \in Proc : pc[p] # "sidecar") => sidecar = db
=============================================================================
