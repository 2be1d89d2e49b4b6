-------------------------------- MODULE Lysin --------------------------------
(***************************************************************************)
(* lysin, the package manager: install, remove and update change the files *)
(* under the root, then the database installed.db.  A step is one file, or *)
(* one system call on the database.  A lysin may be killed or meet an I/O  *)
(* error between any two, no lock keeps two lysins apart, and packages are *)
(* published to the repositories meanwhile.                                *)
(***************************************************************************)
EXTENDS Naturals

CONSTANTS
    Proc,      \* lysins that may run at the same time
    Package,   \* package names
    Version,   \* version-release pairs, as numbers: greater is newer
    Path,      \* the paths that packages ship
    Ships,     \* Ships[a][v]: the paths in the .prot of version v of a
    Depends,   \* Depends[a][v]: its runtime dependencies
    None,      \* no file, no package
    Partial    \* a file half written

ASSUME VersionAssumption == Version \subseteq Nat \ {0}
ASSUME PackageAssumption ==
    /\ Ships \in [Package -> [Version -> SUBSET Path]]
    /\ Depends \in [Package -> [Version -> SUBSET Package]]
    /\ \A a \in Package, v \in Version : a \notin Depends[a][v]   \* rule V13 of validate.rs
ASSUME MarkAssumption ==
    /\ None # Partial
    /\ None \notin Package
    /\ {None, Partial} \cap (Package \X Version) = {}
    /\ {None, Partial} \cap [Package -> Version \cup {0}] = {}

VARIABLES
    index,     \* the version the repositories offer of each package, 0 for none
    fs,        \* what each path holds: None, Partial, or the file of <<package, version>>
    db,        \* installed.db: the recorded version of each package, 0 for none
    tmp,       \* installed.db.tmp
    pc,        \* where each lysin is
    local,     \* the locals of its operation
    broken,    \* history: packages whose files a remove or update touched and left
    troubled,  \* history: packages an operation on which ended early or left a file
    asked      \* history: packages installed by name, unchanged since

vars == <<index, fs, db, tmp, pc, local, broken, troubled, asked>>
history == <<broken, troubled, asked>>

(* A record's file list and depends are those of the version it names.      *)
Records == [Package -> Version \cup {0}]
NoRecord == [a \in Package |-> 0]
Files(a, v) == IF v = 0 THEN {} ELSE Ships[a][v]
Needs(a, v) == IF v = 0 THEN {} ELSE Depends[a][v]

Ops == {"install", "remove", "update"}
Steps == {"next", "delete", "unpack", "write", "rename"}

Locals == [op : Ops \cup {"none"},
           force : BOOLEAN,
           name : Package \cup {None},      \* the package asked for ...
           first : Version \cup {0},        \* ... and its version at the first lookup
           mem : Records,                   \* LocalDb.packages
           todo : SUBSET Package,           \* dependencies to install, packages to update
           new : Records,                   \* the versions to update to
           pkg : Package \cup {None},       \* the package in work ...
           ver : Version \cup {0},          \* ... and the version it goes to
           left : SUBSET Path,              \* its files still to delete or unpack
           fd : {"none", "tmp", "db"}]      \* the name of the file save has open
NoLocals == [op |-> "none", force |-> FALSE, name |-> None, first |-> 0, mem |-> NoRecord,
             todo |-> {}, new |-> NoRecord, pkg |-> None, ver |-> 0, left |-> {},
             fd |-> "none"]

Init ==
    /\ index = NoRecord
    /\ fs = [f \in Path |-> None]
    /\ db = NoRecord
    /\ tmp = None
    /\ pc = [p \in Proc |-> "idle"]
    /\ local = [p \in Proc |-> NoLocals]
    /\ broken = {}
    /\ troubled = {}
    /\ asked = {}

Goto(p, step) == pc' = [pc EXCEPT ![p] = step]

\* LocalDb::load skips lines that do not parse.
Loaded == IF db = Partial THEN NoRecord ELSE db

\* A publisher adds a package or another version of it; a rebuilt index may go back.
Publish(a, v) ==
    /\ index' = [index EXCEPT ![a] = v]
    /\ UNCHANGED <<fs, db, tmp, pc, local, history>>

-----------------------------------------------------------------------------
(* install: the direct runtime dependencies that are missing, then the     *)
(* package itself.                                                         *)

\* A bug: an installed package is installed once more.
Reinstall(p, a) ==
    /\ pc[p] = "idle"
    /\ index[a] # 0
    /\ local' = [local EXCEPT ![p] =
           [NoLocals EXCEPT !.op = "install", !.name = a, !.first = index[a], !.mem = Loaded,
                            !.todo = {d \in Depends[a][index[a]] : Loaded[d] = 0}]]
    /\ Goto(p, "next")
    /\ UNCHANGED <<index, fs, db, tmp, history>>

Install(p, a) ==
    /\ pc[p] = "idle"
    /\ Loaded[a] = 0
    /\ index[a] # 0
    /\ local' = [local EXCEPT ![p] =
           [NoLocals EXCEPT !.op = "install", !.name = a, !.first = index[a], !.mem = Loaded,
                            !.todo = {d \in Depends[a][index[a]] : Loaded[d] = 0}]]
    /\ Goto(p, "next")
    /\ UNCHANGED <<index, fs, db, tmp, history>>

\* A bug: a package that no repository has is not reported.
InstallMissing(p, a) ==
    /\ pc[p] = "next"
    /\ local[p].op = "install"
    /\ IF local[p].todo = {} THEN a = local[p].name ELSE a \in local[p].todo
    /\ local' = [local EXCEPT ![p].todo = @ \ {a}, ![p].pkg = a, ![p].ver = index[a],
                              ![p].left = Files(a, index[a])]
    /\ Goto(p, "unpack")
    /\ UNCHANGED <<index, fs, db, tmp, history>>

\* install_single looks the package up once more, checks the .prot's hash and unpacks.
InstallSingle(p, a) ==
    /\ pc[p] = "next"
    /\ local[p].op = "install"
    /\ IF local[p].todo = {} THEN a = local[p].name ELSE a \in local[p].todo
    /\ index[a] # 0
    /\ local' = [local EXCEPT ![p].todo = @ \ {a}, ![p].pkg = a, ![p].ver = index[a],
                              ![p].left = Files(a, index[a])]
    /\ Goto(p, "unpack")
    /\ UNCHANGED <<index, fs, db, tmp, history>>

Unpack(p, f) ==
    /\ pc[p] = "unpack"
    /\ f \in local[p].left
    /\ fs' = [fs EXCEPT ![f] = <<local[p].pkg, local[p].ver>>]
    /\ local' = [local EXCEPT ![p].left = @ \ {f}]
    /\ UNCHANGED <<index, db, tmp, pc, history>>

-----------------------------------------------------------------------------
(* remove, and update: delete the recorded files.                          *)

Dependents(m, a) == {b \in Package \ {a} : a \in Needs(b, m[b])}

\* A bug: remove does not ask who depends on the package.
UncheckedRemove(p, a, force) ==
    /\ pc[p] = "idle"
    /\ Loaded[a] # 0
    /\ local' = [local EXCEPT ![p] =
           [NoLocals EXCEPT !.op = "remove", !.force = force, !.name = a, !.mem = Loaded,
                            !.pkg = a, !.left = Files(a, Loaded[a])]]
    /\ broken' = broken \cup {a}
    /\ Goto(p, "delete")
    /\ UNCHANGED <<index, fs, db, tmp, troubled, asked>>

Remove(p, a, force) ==
    /\ pc[p] = "idle"
    /\ Loaded[a] # 0
    /\ force \/ Dependents(Loaded, a) = {}
    /\ local' = [local EXCEPT ![p] =
           [NoLocals EXCEPT !.op = "remove", !.force = force, !.name = a, !.mem = Loaded,
                            !.pkg = a, !.left = Files(a, Loaded[a])]]
    /\ broken' = broken \cup {a}
    /\ Goto(p, "delete")
    /\ UNCHANGED <<index, fs, db, tmp, troubled, asked>>

\* A bug: any other version is taken for newer.
UpdateToAny(p) ==
    /\ pc[p] = "idle"
    /\ LET other == {a \in Package : Loaded[a] # 0 /\ index[a] \notin {0, Loaded[a]}}
       IN  /\ other # {}
           /\ local' = [local EXCEPT ![p] =
                  [NoLocals EXCEPT !.op = "update", !.mem = Loaded, !.todo = other,
                                   !.new = [a \in Package |->
                                                IF a \in other THEN index[a] ELSE 0]]]
    /\ Goto(p, "next")
    /\ UNCHANGED <<index, fs, db, tmp, history>>

\* update takes its list of newer versions first, ...
Update(p) ==
    /\ pc[p] = "idle"
    /\ LET newer == {a \in Package : 0 < Loaded[a] /\ Loaded[a] < index[a]}
       IN  /\ newer # {}
           /\ local' = [local EXCEPT ![p] =
                  [NoLocals EXCEPT !.op = "update", !.mem = Loaded, !.todo = newer,
                                   !.new = [a \in Package |->
                                                IF a \in newer THEN index[a] ELSE 0]]]
    /\ Goto(p, "next")
    /\ UNCHANGED <<index, fs, db, tmp, history>>

\* A bug: the new version is unpacked over the old one.
UnpackOverOld(p, a) ==
    /\ pc[p] = "next"
    /\ local[p].op = "update"
    /\ a \in local[p].todo
    /\ local' = [local EXCEPT ![p].todo = @ \ {a}, ![p].pkg = a, ![p].ver = local[p].new[a],
                              ![p].left = {}]
    /\ broken' = broken \cup {a}
    /\ Goto(p, "delete")
    /\ UNCHANGED <<index, fs, db, tmp, troubled, asked>>

\* ... then checks each .prot's hash, deletes the old files and unpacks the new ones.
UpdateSingle(p, a) ==
    /\ pc[p] = "next"
    /\ local[p].op = "update"
    /\ a \in local[p].todo
    /\ local' = [local EXCEPT ![p].todo = @ \ {a}, ![p].pkg = a, ![p].ver = local[p].new[a],
                              ![p].left = Files(a, local[p].mem[a])]
    /\ broken' = broken \cup {a}
    /\ Goto(p, "delete")
    /\ UNCHANGED <<index, fs, db, tmp, troubled, asked>>

Delete(p, f) ==
    /\ pc[p] = "delete"
    /\ f \in local[p].left
    /\ fs' = [fs EXCEPT ![f] = None]
    /\ local' = [local EXCEPT ![p].left = @ \ {f}]
    /\ UNCHANGED <<index, db, tmp, pc, history>>

\* A file that cannot be deleted is counted, or not even that, and left.
DeleteFails(p, f) ==
    /\ pc[p] = "delete"
    /\ f \in local[p].left
    /\ local' = [local EXCEPT ![p].left = @ \ {f}]
    /\ troubled' = troubled \cup {local[p].pkg}
    /\ UNCHANGED <<index, fs, db, tmp, pc, broken, asked>>

UnpackUpdate(p) ==
    /\ pc[p] = "delete"
    /\ local[p].op = "update"
    /\ local[p].left = {}
    /\ local' = [local EXCEPT ![p].left = Ships[local[p].pkg][local[p].ver]]
    /\ Goto(p, "unpack")
    /\ UNCHANGED <<index, fs, db, tmp, history>>

-----------------------------------------------------------------------------
(* save: std::fs::write installed.db.tmp, then rename it.                  *)

\* A bug: installed.db is written in place.
SaveInPlace(p) ==
    /\ pc[p] = IF local[p].op = "remove" THEN "delete" ELSE "unpack"
    /\ local[p].left = {}
    /\ db' = Partial
    /\ local' = [local EXCEPT ![p].mem[local[p].pkg] = local[p].ver, ![p].fd = "db"]
    /\ Goto(p, "write")
    /\ UNCHANGED <<index, fs, tmp, history>>

\* The record changes in memory, then the tmp file is created or truncated.
Save(p) ==
    /\ pc[p] = IF local[p].op = "remove" THEN "delete" ELSE "unpack"
    /\ local[p].left = {}
    /\ tmp' = Partial
    /\ local' = [local EXCEPT ![p].mem[local[p].pkg] = local[p].ver, ![p].fd = "tmp"]
    /\ Goto(p, "write")
    /\ UNCHANGED <<index, fs, db, history>>

\* The file may have been renamed since, by another lysin.
WriteTmp(p) ==
    /\ pc[p] = "write"
    /\ tmp' = IF local[p].fd = "tmp" THEN local[p].mem ELSE tmp
    /\ db' = IF local[p].fd = "db" THEN local[p].mem ELSE db
    /\ Goto(p, "rename")
    /\ UNCHANGED <<index, fs, local, history>>

\* A package whose record this save takes away from under a dependent.
Orphaned(p) == IF local[p].op = "remove" /\ local[p].force
                 THEN Dependents(db, local[p].pkg) ELSE {}

\* Where the operation goes on after a package: to the next one, or it is done.
Finished(p) == \/ local[p].op = "remove"
               \/ local[p].op = "install" /\ local[p].pkg = local[p].name
               \/ local[p].op = "update" /\ local[p].todo = {}

\* The other lysins that had the tmp file open now have installed.db open, and those
\* that had that open, a file without a name.
Renamed(q) == [local[q] EXCEPT !.fd = IF @ = "tmp" THEN "db" ELSE "none"]

RenameTmp(p) ==
    /\ pc[p] = "rename"
    /\ tmp # None
    /\ db' = tmp
    /\ tmp' = None
    /\ Goto(p, IF Finished(p) THEN "idle" ELSE "next")
    /\ local' = [q \in Proc |->
           IF q # p THEN Renamed(q)
           ELSE IF Finished(p) THEN NoLocals
           ELSE [local[p] EXCEPT !.pkg = None, !.ver = 0, !.fd = "none"]]
    /\ broken' = broken \ {local[p].pkg}
    /\ asked' = LET l == local[p]
                    same == {a \in asked \ Orphaned(p) : l.mem[a] = db[a]}
                IN  IF l.op = "install" /\ l.pkg = l.name /\ l.ver = l.first
                      THEN same \cup {l.name} ELSE same
    /\ UNCHANGED <<index, fs, troubled>>

-----------------------------------------------------------------------------
(* Ending early.                                                           *)

\* The file being unpacked may stay half written.
HalfUnpacked(p) ==
    \/ UNCHANGED fs
    \/ /\ pc[p] = "unpack"
       /\ \E f \in local[p].left : fs' = [fs EXCEPT ![f] = Partial]

\* lysin is killed, or an operation other than update meets an error: a package or its
\* file that is not found, a wrong hash, an I/O error.
Stop(p) ==
    /\ pc[p] # "idle"
    /\ HalfUnpacked(p)
    /\ troubled' = troubled \cup ({local[p].pkg} \cap Package)
    /\ Goto(p, "idle")
    /\ local' = [local EXCEPT ![p] = NoLocals]
    /\ UNCHANGED <<index, db, tmp, broken, asked>>

\* update skips a package whose new version is missing or has a wrong hash, ...
SkipUpdate(p, a) ==
    /\ pc[p] = "next"
    /\ local[p].op = "update"
    /\ a \in local[p].todo
    /\ local' = [local EXCEPT ![p].todo = @ \ {a}]
    /\ UNCHANGED <<index, fs, db, tmp, pc, history>>

\* ... and goes on to the next after an I/O error; a record that could not be saved
\* stays in memory.
UpdateFails(p) ==
    /\ pc[p] \in {"unpack", "write", "rename"}
    /\ local[p].op = "update"
    /\ HalfUnpacked(p)
    /\ troubled' = troubled \cup {local[p].pkg}
    /\ local' = [local EXCEPT ![p].pkg = None, ![p].ver = 0, ![p].left = {}, ![p].fd = "none"]
    /\ Goto(p, "next")
    /\ UNCHANGED <<index, db, tmp, broken, asked>>

UpdateDone(p) ==
    /\ pc[p] = "next"
    /\ local[p].op = "update"
    /\ local[p].todo = {}
    /\ local' = [local EXCEPT ![p] = NoLocals]
    /\ Goto(p, "idle")
    /\ UNCHANGED <<index, fs, db, tmp, history>>

-----------------------------------------------------------------------------
Next ==
    \/ \E a \in Package, v \in Version : Publish(a, v)
    \/ \E p \in Proc :
        \/ \E a \in Package :
            \/ Install(p, a) \/ InstallSingle(p, a)
            \/ UpdateSingle(p, a) \/ SkipUpdate(p, a)
            \/ \E force \in BOOLEAN : Remove(p, a, force)
        \/ \E f \in Path : Unpack(p, f) \/ Delete(p, f) \/ DeleteFails(p, f)
        \/ Update(p) \/ UnpackUpdate(p) \/ UpdateDone(p) \/ UpdateFails(p)
        \/ Save(p) \/ WriteTmp(p) \/ RenameTmp(p) \/ Stop(p)

Spec == Init /\ [][Next]_vars

-----------------------------------------------------------------------------
TypeOK ==
    /\ index \in Records
    /\ fs \in [Path -> {None, Partial} \cup Package \X Version]
    /\ db \in Records \cup {Partial}
    /\ tmp \in Records \cup {None, Partial}
    /\ pc \in [Proc -> Steps \cup {"idle"}]
    /\ local \in [Proc -> Locals]
    /\ broken \subseteq Package
    /\ troubled \subseteq Package
    /\ asked \subseteq Package
    /\ \A p \in Proc :
        /\ pc[p] # "idle" => local[p].op \in Ops
        /\ pc[p] \in {"delete", "unpack", "write", "rename"} => local[p].pkg \in Package
        /\ pc[p] = "unpack" => local[p].ver \in Version

\* Shipped by a alone: packages may clash, and lysin does not look.
Own(a) == {f \in Path : \A b \in Package, v \in Version : f \in Ships[b][v] => b = a}

(* installed.db holds a whole database at all times, wherever a save stops. *)
(* (One lysin at a time.)                                                   *)
DbWhole == db # Partial

(* The files of a recorded package are there, whole and of the recorded     *)
(* version, unless a remove or an update of that very package began and did *)
(* not end: whatever else is interrupted or retried leaves them alone.      *)
(* (One lysin at a time, paths that no other package ships.)                *)
FilesPresent ==
    \A a \in Package \ broken : \A f \in Own(a) \cap Files(a, db[a]) : fs[f] = <<a, db[a]>>

\* Packages some lysin is at work on.
InWork == {local[p].pkg : p \in Proc}

(* A package on which every operation ran to its end has no file on disk    *)
(* but those in its record: update and remove leave none behind.  (One      *)
(* lysin at a time, paths that no other package ships.)                     *)
NoneLeftBehind ==
    \A a \in Package \ (troubled \cup InWork) :
        \A f \in Own(a) : fs[f] # None => f \in Files(a, db[a])

(* The direct dependencies of a package installed by name are recorded as   *)
(* long as it stays at that version and no --force takes one away: remove's *)
(* check and install's order of work keep them so across crashes.  (One     *)
(* lysin at a time, and an index entry that install finds twice the same.)  *)
DepsRecorded == \A a \in asked : \A d \in Needs(a, db[a]) : db[d] # 0

(* Lysin implements PackageDb: each rename of a save is one install, remove *)
(* or upgrade.  (One lysin at a time.)                                      *)
Promise == INSTANCE PackageDb WITH installed <- db
ImplementsPackageDb == Promise!Spec
=============================================================================
