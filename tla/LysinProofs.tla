---------------------------- MODULE LysinProofs ----------------------------
(***************************************************************************)
(* Theorems about Lysin, for any packages, versions, paths and             *)
(* repositories: its types, for any number of lysins at a time, and, for   *)
(* one lysin at a time, that the files, the database and what it promises  *)
(* agree wherever an operation is killed or fails.                         *)
(***************************************************************************)
EXTENDS Lysin, TLAPS

Changing == {"delete", "unpack", "write", "rename"}

(* Which steps belong to which operation, and with which locals.            *)
Where(step, l) ==
    /\ step = "idle" => l = NoLocals
    /\ step # "idle" => l.op \in Ops
    /\ step = "next" => l.pkg = None
    /\ step \in Changing => l.pkg \in Package
    /\ step = "unpack" => l.ver \in Version
    /\ l.op = "install" =>
          /\ step \in {"next", "unpack", "write", "rename"}
          /\ l.name \in Package /\ l.first \in Version
          /\ step # "next" => l.ver \in Version
    /\ l.op = "remove" => step \in {"delete", "write", "rename"} /\ l.ver = 0
    /\ l.op = "update" =>
          /\ \A a \in l.todo : l.new[a] \in Version
          /\ step # "next" => l.ver \in Version
Placed == \A p \in Proc : Where(pc[p], local[p])

-----------------------------------------------------------------------------
(* The types, and which steps belong to which operation: any number of      *)
(* lysins.                                                                  *)
LEMMA RecordTyped ==
  ASSUME TypeOK
  PROVE  NoRecord \in Records /\ Loaded \in Records /\ index \in Records
BY DEF TypeOK, NoRecord, Records, Loaded

LEMMA FilesTyped ==
  ASSUME NEW a \in Package, NEW v \in Version \cup {0}
  PROVE  Files(a, v) \subseteq Path /\ Needs(a, v) \subseteq Package
BY PackageAssumption DEF Files, Needs

LEMMA RecordedVersion ==
  ASSUME NEW m \in Records, NEW a \in Package
  PROVE  m[a] \in Version \cup {0} /\ m[a] \in Nat
<1>1. \A v \in Version : v \in Nat
  BY VersionAssumption
<1>2. m[a] \in Version \cup {0}
  BY DEF Records
<1> QED
  BY <1>1, <1>2

LEMMA NoLocalsTyped ==
  /\ NoLocals \in Locals /\ NoLocals.op = "none" /\ NoLocals.pkg = None
  /\ NoLocals.left = {} /\ NoLocals.fd = "none" /\ NoLocals.todo = {}
  /\ Where("idle", NoLocals)
<1>1. NoRecord \in Records
  BY DEF NoRecord, Records
<1> QED
  BY <1>1 DEF NoLocals, Locals, Where, Changing

LEMMA InitTyped == Init => TypeOK /\ Placed
<1> SUFFICES ASSUME Init PROVE TypeOK /\ Placed
  OBVIOUS
<1>1. Placed
  <2> SUFFICES ASSUME NEW p \in Proc PROVE Where(pc[p], local[p])
    BY DEF Placed
  <2> QED
    BY NoLocalsTyped DEF Init
<1> QED
  BY <1>1, NoLocalsTyped DEF Init, TypeOK, NoRecord, Records

\* One lysin takes a step: it goes to step, with the locals new.
Moves(p, step, new) ==
    /\ pc' = [pc EXCEPT ![p] = step]
    /\ local' = [local EXCEPT ![p] = new]

\* The part of the types that is about where the lysins are.
LysinsTyped ==
    /\ pc \in [Proc -> Steps \cup {"idle"}]
    /\ local \in [Proc -> Locals]
    /\ \A p \in Proc :
        /\ pc[p] # "idle" => local[p].op \in Ops
        /\ pc[p] \in {"delete", "unpack", "write", "rename"} => local[p].pkg \in Package
        /\ pc[p] = "unpack" => local[p].ver \in Version

LEMMA MovesTyped ==
  ASSUME TypeOK, Placed, NEW p \in Proc, NEW step \in Steps \cup {"idle"}, NEW new \in Locals,
         Moves(p, step, new), Where(step, new)
  PROVE  LysinsTyped' /\ Placed'
<1>1. pc' \in [Proc -> Steps \cup {"idle"}] /\ local' \in [Proc -> Locals]
  BY DEF Moves, TypeOK
<1>2. \A q \in Proc : Where(pc'[q], local'[q])
  BY DEF Moves, TypeOK, Placed
<1>3. Placed'
  BY <1>2 DEF Placed, Where
<1>4. \A q \in Proc :
        /\ pc'[q] # "idle" => local'[q].op \in Ops
        /\ pc'[q] \in {"delete", "unpack", "write", "rename"} => local'[q].pkg \in Package
        /\ pc'[q] = "unpack" => local'[q].ver \in Version
  BY <1>2 DEF Where, Changing
<1> QED
  BY <1>1, <1>3, <1>4 DEF LysinsTyped

(* The locals with which each operation starts.                              *)
LEMMA InstallStart ==
  ASSUME TypeOK, NEW p \in Proc, NEW a \in Package, Install(p, a)
  PROVE  \E new \in Locals :
            /\ Moves(p, "next", new)
            /\ new.op = "install" /\ new.name = a /\ new.first = index[a] /\ new.mem = Loaded
            /\ new.todo = {d \in Depends[a][index[a]] : Loaded[d] = 0}
            /\ new.pkg = None /\ new.left = {} /\ new.fd = "none"
            /\ index[a] \in Version /\ Loaded[a] = 0
<1> DEFINE todo == {d \in Depends[a][index[a]] : Loaded[d] = 0}
           new == [NoLocals EXCEPT !.op = "install", !.name = a, !.first = index[a],
                                   !.mem = Loaded, !.todo = todo]
<1>1. index[a] \in Version /\ Loaded \in Records /\ todo \subseteq Package
  BY RecordTyped, PackageAssumption DEF Install, Records
<1> HIDE DEF todo
<1>2. new \in Locals
  BY <1>1, NoLocalsTyped DEF Locals, Ops
<1>3. /\ new.op = "install" /\ new.name = a /\ new.first = index[a] /\ new.mem = Loaded
      /\ new.todo = todo /\ new.pkg = None /\ new.left = {} /\ new.fd = "none"
  BY NoLocalsTyped DEF Locals
<1>4. Moves(p, "next", new)
  BY DEF Install, Moves, Goto, todo
<1> HIDE DEF new
<1> QED
  BY <1>1, <1>2, <1>3, <1>4 DEF Install, todo

LEMMA RemoveStart ==
  ASSUME TypeOK, NEW p \in Proc, NEW a \in Package, NEW force \in BOOLEAN, Remove(p, a, force)
  PROVE  \E new \in Locals :
            /\ Moves(p, "delete", new)
            /\ new.op = "remove" /\ new.force = force /\ new.mem = Loaded
            /\ new.todo = {} /\ new.pkg = a /\ new.ver = 0
            /\ new.left = Files(a, Loaded[a]) /\ new.fd = "none"
<1> DEFINE left == Files(a, Loaded[a])
           new == [NoLocals EXCEPT !.op = "remove", !.force = force, !.name = a,
                                   !.mem = Loaded, !.pkg = a, !.left = left]
<1>1. Loaded \in Records /\ left \subseteq Path
  BY RecordTyped, FilesTyped DEF Records
<1> HIDE DEF left
<1>2. new \in Locals
  BY <1>1, NoLocalsTyped DEF Locals, Ops
<1>3. /\ new.op = "remove" /\ new.force = force /\ new.mem = Loaded
      /\ new.todo = {} /\ new.pkg = a /\ new.ver = 0
      /\ new.left = left /\ new.fd = "none"
  BY NoLocalsTyped DEF Locals, NoLocals
<1>4. Moves(p, "delete", new)
  BY DEF Remove, Moves, Goto, left
<1> HIDE DEF new
<1> QED
  BY <1>2, <1>3, <1>4 DEF left

LEMMA UpdateStart ==
  ASSUME TypeOK, NEW p \in Proc, Update(p)
  PROVE  \E new \in Locals :
            /\ Moves(p, "next", new)
            /\ new.op = "update" /\ new.mem = Loaded
            /\ \A a \in new.todo : /\ 0 < Loaded[a] /\ Loaded[a] < index[a]
                                   /\ new.new[a] = index[a] /\ index[a] \in Version
            /\ new.pkg = None /\ new.left = {} /\ new.fd = "none"
<1> DEFINE newer == {a \in Package : 0 < Loaded[a] /\ Loaded[a] < index[a]}
           to == [a \in Package |-> IF a \in newer THEN index[a] ELSE 0]
           new == [NoLocals EXCEPT !.op = "update", !.mem = Loaded, !.todo = newer, !.new = to]
<1>1. Loaded \in Records /\ index \in Records
  BY RecordTyped
<1>2. \A a \in newer : a \in Package /\ 0 < Loaded[a] /\ Loaded[a] < index[a]
  OBVIOUS
<1>3. newer \subseteq Package
  OBVIOUS
<1>4. Moves(p, "next", new)
  BY DEF Update, Moves, Goto
<1> HIDE DEF newer
<1>5. to \in Records /\ \A a \in newer : to[a] = index[a]
  BY <1>1, <1>3 DEF Records
<1>6. \A a \in Package : Loaded[a] \in Nat /\ index[a] \in Version \cup {0}
  BY <1>1, RecordedVersion
<1>7. \A a \in newer : index[a] \in Version
  BY <1>2, <1>6
<1> HIDE DEF to
<1>8. new \in Locals
  BY <1>1, <1>3, <1>5, NoLocalsTyped DEF Locals, Ops
<1>9. /\ new.op = "update" /\ new.mem = Loaded /\ new.todo = newer /\ new.new = to
      /\ new.pkg = None /\ new.left = {} /\ new.fd = "none"
  BY NoLocalsTyped DEF Locals
<1> HIDE DEF new
<1> QED
  BY <1>2, <1>4, <1>5, <1>7, <1>8, <1>9

LEMMA StartTyped ==
  ASSUME TypeOK, Placed, NEW p \in Proc,
         \/ \E a \in Package : Install(p, a)
         \/ \E a \in Package, force \in BOOLEAN : Remove(p, a, force)
         \/ Update(p)
  PROVE  TypeOK' /\ Placed'
<1>1. ASSUME NEW a \in Package, Install(p, a) PROVE TypeOK' /\ Placed'
  <2>1. PICK new \in Locals :
            /\ Moves(p, "next", new)
            /\ new.op = "install" /\ new.name = a /\ new.first = index[a]
            /\ new.pkg = None /\ index[a] \in Version
    BY <1>1, InstallStart
  <2>2. Where("next", new)
    BY <2>1 DEF Where, Ops, Changing
  <2>3. LysinsTyped' /\ Placed'
    BY <2>1, <2>2, MovesTyped DEF Steps
  <2> QED
    BY <1>1, <2>3 DEF Install, history, TypeOK, LysinsTyped
<1>2. ASSUME NEW a \in Package, NEW force \in BOOLEAN, Remove(p, a, force)
      PROVE  TypeOK' /\ Placed'
  <2>1. PICK new \in Locals :
            Moves(p, "delete", new) /\ new.op = "remove" /\ new.pkg = a /\ new.ver = 0
    BY <1>2, RemoveStart
  <2>2. Where("delete", new)
    BY <2>1 DEF Where, Ops, Changing
  <2>3. LysinsTyped' /\ Placed'
    BY <2>1, <2>2, MovesTyped DEF Steps
  <2> QED
    BY <1>2, <2>3 DEF Remove, TypeOK, LysinsTyped
<1>3. CASE Update(p)
  <2>1. PICK new \in Locals :
            /\ Moves(p, "next", new)
            /\ new.op = "update" /\ new.pkg = None
            /\ \A a \in new.todo : new.new[a] = index[a] /\ index[a] \in Version
    BY <1>3, UpdateStart
  <2>2. Where("next", new)
    BY <2>1 DEF Where, Ops, Changing
  <2>3. LysinsTyped' /\ Placed'
    BY <2>1, <2>2, MovesTyped DEF Steps
  <2> QED
    BY <1>3, <2>3 DEF Update, history, TypeOK, LysinsTyped
<1> QED
  BY <1>1, <1>2, <1>3

-----------------------------------------------------------------------------
(* The locals after each of the other steps.                                 *)
\* What stays as it is through an operation.
SameOp(l, new) ==
    /\ new.op = l.op /\ new.force = l.force /\ new.name = l.name
    /\ new.first = l.first /\ new.new = l.new

LEMMA InstallSingleStep ==
  ASSUME TypeOK, NEW p \in Proc, NEW a \in Package, InstallSingle(p, a)
  PROVE  LET l == local[p]
             new == local'[p]
         IN  /\ new \in Locals /\ Moves(p, "unpack", new) /\ SameOp(l, new)
             /\ new.mem = l.mem /\ new.todo = l.todo \ {a} /\ new.pkg = a
             /\ new.ver = index[a] /\ index[a] \in Version
             /\ new.left = Files(a, index[a]) /\ new.fd = l.fd
<1> DEFINE l == local[p]
           left == Files(a, index[a])
           new == [l EXCEPT !.todo = @ \ {a}, !.pkg = a, !.ver = index[a], !.left = left]
<1>1. l \in Locals /\ index[a] \in Version /\ index[a] \in Version \cup {0}
  BY DEF TypeOK, Records, InstallSingle
<1>2. left \subseteq Path
  BY <1>1, FilesTyped
<1>3. Moves(p, "unpack", new)
  BY DEF InstallSingle, Moves, Goto, left
<1> HIDE DEF left
<1>4. new \in Locals
  BY <1>1, <1>2 DEF Locals
<1>5. /\ SameOp(l, new) /\ new.mem = l.mem /\ new.todo = l.todo \ {a} /\ new.pkg = a
      /\ new.ver = index[a] /\ new.left = left /\ new.fd = l.fd
  BY <1>1 DEF Locals, SameOp
<1> HIDE DEF new
<1>6. local'[p] = new
  BY <1>3 DEF Moves, TypeOK
<1> QED
  BY <1>1, <1>3, <1>4, <1>5, <1>6 DEF left

LEMMA UpdateSingleStep ==
  ASSUME TypeOK, NEW p \in Proc, NEW a \in Package, UpdateSingle(p, a)
  PROVE  LET l == local[p]
             new == local'[p]
         IN  /\ new \in Locals /\ Moves(p, "delete", new) /\ SameOp(l, new)
             /\ new.mem = l.mem /\ new.todo = l.todo \ {a} /\ new.pkg = a
             /\ new.ver = l.new[a]
             /\ new.left = Files(a, l.mem[a]) /\ new.fd = l.fd
<1> DEFINE l == local[p]
           left == Files(a, l.mem[a])
           new == [l EXCEPT !.todo = @ \ {a}, !.pkg = a, !.ver = l.new[a], !.left = left]
<1>1. l \in Locals /\ l.new \in Records /\ l.mem \in Records
  BY DEF TypeOK, Locals
<1>2. left \subseteq Path /\ l.new[a] \in Version \cup {0}
  BY <1>1, FilesTyped, RecordedVersion
<1>3. Moves(p, "delete", new)
  BY DEF UpdateSingle, Moves, Goto, left
<1> HIDE DEF left
<1>4. new \in Locals
  BY <1>1, <1>2 DEF Locals
<1>5. /\ SameOp(l, new) /\ new.mem = l.mem /\ new.todo = l.todo \ {a} /\ new.pkg = a
      /\ new.ver = l.new[a] /\ new.left = left /\ new.fd = l.fd
  BY <1>1 DEF Locals, SameOp
<1> HIDE DEF new
<1>6. local'[p] = new
  BY <1>3 DEF Moves, TypeOK
<1> QED
  BY <1>3, <1>4, <1>5, <1>6 DEF left

LEMMA SkipUpdateStep ==
  ASSUME TypeOK, NEW p \in Proc, NEW a \in Package, SkipUpdate(p, a)
  PROVE  LET l == local[p]
             new == local'[p]
         IN  /\ new \in Locals /\ Moves(p, "next", new) /\ SameOp(l, new)
             /\ new.mem = l.mem /\ new.pkg = l.pkg /\ new.ver = l.ver /\ new.fd = l.fd
             /\ new.todo = l.todo \ {a} /\ new.left = l.left
<1> DEFINE l == local[p]
           new == [l EXCEPT !.todo = @ \ {a}]
<1>1. l \in Locals /\ pc' = [pc EXCEPT ![p] = "next"]
  BY DEF TypeOK, SkipUpdate
<1>2. local' = [local EXCEPT ![p] = new]
  BY DEF SkipUpdate
<1>3. new \in Locals
  BY <1>1 DEF Locals
<1>4. /\ SameOp(l, new) /\ new.mem = l.mem /\ new.pkg = l.pkg /\ new.ver = l.ver
      /\ new.fd = l.fd /\ new.todo = l.todo \ {a} /\ new.left = l.left
  BY <1>1 DEF Locals, SameOp
<1> HIDE DEF new
<1>5. local'[p] = new /\ Moves(p, "next", new)
  BY <1>1, <1>2 DEF TypeOK, Moves
<1> QED
  BY <1>3, <1>4, <1>5

\* A file is done with.
LEMMA FileStep ==
  ASSUME TypeOK, NEW p \in Proc, NEW f \in Path, Unpack(p, f) \/ Delete(p, f) \/ DeleteFails(p, f)
  PROVE  LET l == local[p]
             new == local'[p]
         IN  /\ new \in Locals /\ Moves(p, pc[p], new) /\ SameOp(l, new)
             /\ new.mem = l.mem /\ new.pkg = l.pkg /\ new.ver = l.ver /\ new.fd = l.fd
             /\ new.todo = l.todo /\ new.left = l.left \ {f}
<1> DEFINE l == local[p]
           new == [l EXCEPT !.left = @ \ {f}]
<1>1. l \in Locals /\ pc' = [pc EXCEPT ![p] = pc[p]]
  BY DEF TypeOK, Unpack, Delete, DeleteFails
<1>2. local' = [local EXCEPT ![p] = new]
  BY DEF Unpack, Delete, DeleteFails
<1>3. new \in Locals
  BY <1>1 DEF Locals
<1>4. /\ SameOp(l, new) /\ new.mem = l.mem /\ new.pkg = l.pkg /\ new.ver = l.ver
      /\ new.fd = l.fd /\ new.todo = l.todo /\ new.left = l.left \ {f}
  BY <1>1 DEF Locals, SameOp
<1> HIDE DEF new
<1>5. local'[p] = new /\ Moves(p, pc[p], new)
  BY <1>1, <1>2 DEF TypeOK, Moves
<1> QED
  BY <1>3, <1>4, <1>5

LEMMA UnpackUpdateStep ==
  ASSUME TypeOK, Placed, NEW p \in Proc, UnpackUpdate(p)
  PROVE  LET l == local[p]
             new == local'[p]
         IN  /\ new \in Locals /\ Moves(p, "unpack", new) /\ SameOp(l, new)
             /\ new.mem = l.mem /\ new.todo = l.todo /\ new.pkg = l.pkg /\ new.ver = l.ver
             /\ new.fd = l.fd /\ l.pkg \in Package /\ l.ver \in Version
             /\ new.left = Ships[l.pkg][l.ver]
<1> DEFINE l == local[p]
           left == Ships[l.pkg][l.ver]
           new == [l EXCEPT !.left = left]
<1>1. l \in Locals /\ l.pkg \in Package /\ l.ver \in Version
  BY DEF TypeOK, UnpackUpdate, Placed, Where
<1>2. left \subseteq Path
  BY <1>1, PackageAssumption
<1>3. Moves(p, "unpack", new)
  BY DEF UnpackUpdate, Moves, Goto, left
<1> HIDE DEF left
<1>4. new \in Locals
  BY <1>1, <1>2 DEF Locals
<1>5. /\ SameOp(l, new) /\ new.mem = l.mem /\ new.todo = l.todo /\ new.pkg = l.pkg
      /\ new.ver = l.ver /\ new.left = left /\ new.fd = l.fd
  BY <1>1 DEF Locals, SameOp
<1> HIDE DEF new
<1>6. local'[p] = new
  BY <1>3 DEF Moves, TypeOK
<1> QED
  BY <1>1, <1>3, <1>4, <1>5, <1>6 DEF left

LEMMA SaveStep ==
  ASSUME TypeOK, NEW p \in Proc, Save(p)
  PROVE  LET l == local[p]
             new == local'[p]
         IN  /\ new \in Locals /\ Moves(p, "write", new) /\ SameOp(l, new)
             /\ new.mem = [l.mem EXCEPT ![l.pkg] = l.ver] /\ l.pkg \in Package
             /\ new.todo = l.todo /\ new.pkg = l.pkg /\ new.ver = l.ver
             /\ new.left = {} /\ new.fd = "tmp"
<1> DEFINE l == local[p]
           mem == [l.mem EXCEPT ![l.pkg] = l.ver]
           new == [l EXCEPT !.mem = mem, !.fd = "tmp"]
<1>1. l \in Locals /\ l.pkg \in Package /\ l.left = {}
  BY DEF TypeOK, Save
<1>2. mem \in Records
  BY <1>1 DEF Locals, Records
<1>3. Moves(p, "write", new)
  BY DEF Save, Moves, Goto, mem
<1> HIDE DEF mem
<1>4. new \in Locals
  BY <1>1, <1>2 DEF Locals
<1>5. /\ SameOp(l, new) /\ new.mem = mem /\ new.todo = l.todo /\ new.pkg = l.pkg
      /\ new.ver = l.ver /\ new.left = {} /\ new.fd = "tmp"
  BY <1>1 DEF Locals, SameOp
<1> HIDE DEF new
<1>6. local'[p] = new
  BY <1>3 DEF Moves, TypeOK
<1> QED
  BY <1>1, <1>3, <1>4, <1>5, <1>6 DEF mem

LEMMA UpdateFailsStep ==
  ASSUME TypeOK, NEW p \in Proc, UpdateFails(p)
  PROVE  LET l == local[p]
             new == local'[p]
         IN  /\ new \in Locals /\ Moves(p, "next", new) /\ SameOp(l, new)
             /\ new.mem = l.mem /\ new.todo = l.todo /\ new.pkg = None /\ new.ver = 0
             /\ new.left = {} /\ new.fd = "none"
<1> DEFINE l == local[p]
           new == [l EXCEPT !.pkg = None, !.ver = 0, !.left = {}, !.fd = "none"]
<1>1. l \in Locals
  BY DEF TypeOK
<1>2. Moves(p, "next", new)
  BY DEF UpdateFails, Moves, Goto
<1>3. new \in Locals
  BY <1>1 DEF Locals
<1>4. /\ SameOp(l, new) /\ new.mem = l.mem /\ new.todo = l.todo /\ new.pkg = None
      /\ new.ver = 0 /\ new.left = {} /\ new.fd = "none"
  BY <1>1 DEF Locals, SameOp
<1> HIDE DEF new
<1>5. local'[p] = new
  BY <1>2 DEF Moves, TypeOK
<1> QED
  BY <1>2, <1>3, <1>4, <1>5

\* The save that ends with the rename, and the lysin that made it.
LEMMA RenameStep ==
  ASSUME TypeOK, NEW p \in Proc, RenameTmp(p)
  PROVE  /\ pc' = [pc EXCEPT ![p] = IF Finished(p) THEN "idle" ELSE "next"]
         /\ \A q \in Proc \ {p} :
               /\ local'[q] \in Locals /\ SameOp(local[q], local'[q])
               /\ local'[q].mem = local[q].mem /\ local'[q].todo = local[q].todo
               /\ local'[q].pkg = local[q].pkg /\ local'[q].ver = local[q].ver
               /\ local[q] = NoLocals => local'[q] = NoLocals
         /\ local' \in [Proc -> Locals]
         /\ Finished(p) => local'[p] = NoLocals
         /\ ~Finished(p) =>
               /\ SameOp(local[p], local'[p])
               /\ local'[p].mem = local[p].mem /\ local'[p].todo = local[p].todo
               /\ local'[p].pkg = None /\ local'[p].ver = 0
               /\ local'[p].left = local[p].left /\ local'[p].fd = "none"
<1> DEFINE next == [local[p] EXCEPT !.pkg = None, !.ver = 0, !.fd = "none"]
<1>1. \A q \in Proc : local[q] \in Locals
  BY DEF TypeOK
<1>2. \A q \in Proc :
         /\ Renamed(q) \in Locals /\ SameOp(local[q], Renamed(q))
         /\ Renamed(q).mem = local[q].mem /\ Renamed(q).todo = local[q].todo
         /\ Renamed(q).pkg = local[q].pkg /\ Renamed(q).ver = local[q].ver
         /\ local[q] = NoLocals => Renamed(q) = NoLocals
  <2> SUFFICES ASSUME NEW q \in Proc
               PROVE  /\ Renamed(q) \in Locals /\ SameOp(local[q], Renamed(q))
                      /\ Renamed(q).mem = local[q].mem /\ Renamed(q).todo = local[q].todo
                      /\ Renamed(q).pkg = local[q].pkg /\ Renamed(q).ver = local[q].ver
                      /\ local[q] = NoLocals => Renamed(q) = NoLocals
    OBVIOUS
  <2> DEFINE l == local[q]
             fd == IF l.fd = "tmp" THEN "db" ELSE "none"
  <2>1. l \in Locals /\ fd \in {"none", "tmp", "db"}
    BY <1>1
  <2>2. Renamed(q) = [l EXCEPT !.fd = fd]
    BY DEF Renamed
  <2>3. l = NoLocals => fd = "none"
    BY NoLocalsTyped
  <2> HIDE DEF fd
  <2>4. [l EXCEPT !.fd = fd] \in Locals
    BY <2>1 DEF Locals
  <2>5. l = NoLocals => [l EXCEPT !.fd = fd] = NoLocals
    <3>1. l.fd = "none" => [l EXCEPT !.fd = "none"] = l
      BY <2>1 DEF Locals
    <3> QED
      BY <2>3, <3>1, NoLocalsTyped
  <2> QED
    BY <2>1, <2>2, <2>4, <2>5 DEF Locals, SameOp
<1>3. /\ next \in Locals /\ SameOp(local[p], next)
      /\ next.mem = local[p].mem /\ next.todo = local[p].todo
      /\ next.pkg = None /\ next.ver = 0
      /\ next.left = local[p].left /\ next.fd = "none"
  BY <1>1 DEF Locals, SameOp
<1>4. /\ local' = [q \in Proc |->
                IF q # p THEN Renamed(q) ELSE IF Finished(p) THEN NoLocals ELSE next]
      /\ pc' = [pc EXCEPT ![p] = IF Finished(p) THEN "idle" ELSE "next"]
  BY DEF RenameTmp, Goto
<1> HIDE DEF next
<1>5. local' \in [Proc -> Locals]
  BY <1>2, <1>3, <1>4, NoLocalsTyped
<1> QED
  BY <1>2, <1>3, <1>4, <1>5

\* Half of a file, or nothing, changes.
LEMMA HalfTyped ==
  ASSUME TypeOK, NEW p \in Proc, HalfUnpacked(p)
  PROVE  fs' \in [Path -> {None, Partial} \cup Package \X Version]
BY DEF TypeOK, HalfUnpacked, Locals

LEMMA PackageStepTyped ==
  ASSUME TypeOK, Placed, NEW p \in Proc, NEW a \in Package,
         InstallSingle(p, a) \/ UpdateSingle(p, a) \/ SkipUpdate(p, a)
  PROVE  TypeOK' /\ Placed'
<1> DEFINE l == local[p]
           new == local'[p]
<1>1. Where(pc[p], l)
  BY DEF Placed
<1>2. CASE InstallSingle(p, a)
  <2>1. Where("unpack", new)
    BY <1>1, <1>2, InstallSingleStep DEF InstallSingle, Where, SameOp, Changing
  <2>2. LysinsTyped' /\ Placed'
    BY <1>2, <2>1, InstallSingleStep, MovesTyped DEF Steps
  <2> QED
    BY <1>2, <2>2 DEF InstallSingle, history, TypeOK, LysinsTyped
<1>3. CASE UpdateSingle(p, a)
  <2>1. Where("delete", new)
    BY <1>1, <1>3, UpdateSingleStep DEF UpdateSingle, Where, SameOp, Changing
  <2>2. LysinsTyped' /\ Placed'
    BY <1>3, <2>1, UpdateSingleStep, MovesTyped DEF Steps
  <2> QED
    BY <1>3, <2>2 DEF UpdateSingle, TypeOK, LysinsTyped
<1>4. CASE SkipUpdate(p, a)
  <2>1. Where("next", new)
    BY <1>1, <1>4, SkipUpdateStep DEF SkipUpdate, Where, SameOp
  <2>2. LysinsTyped' /\ Placed'
    BY <1>4, <2>1, SkipUpdateStep, MovesTyped DEF Steps
  <2> QED
    BY <1>4, <2>2 DEF SkipUpdate, history, TypeOK, LysinsTyped
<1> QED
  BY <1>2, <1>3, <1>4

LEMMA FileStepTyped ==
  ASSUME TypeOK, Placed, NEW p \in Proc, NEW f \in Path,
         Unpack(p, f) \/ Delete(p, f) \/ DeleteFails(p, f)
  PROVE  TypeOK' /\ Placed'
<1> DEFINE l == local[p]
           new == local'[p]
<1>1. Where(pc[p], l) /\ pc[p] \in Steps \cup {"idle"}
  BY DEF Placed, TypeOK
<1>2. Where(pc[p], new)
  BY <1>1, FileStep DEF Where, SameOp, Unpack, Delete, DeleteFails
<1>3. LysinsTyped' /\ Placed'
  BY <1>1, <1>2, FileStep, MovesTyped
<1>4. fs' \in [Path -> {None, Partial} \cup Package \X Version]
  <2>1. Unpack(p, f) => <<l.pkg, l.ver>> \in Package \X Version
    BY <1>1 DEF Unpack, Where, Changing
  <2> QED
    BY <2>1 DEF TypeOK, Unpack, Delete, DeleteFails
<1>5. troubled' \subseteq Package
  <2>1. DeleteFails(p, f) => l.pkg \in Package
    BY <1>1 DEF DeleteFails, Where, Changing
  <2> QED
    BY <2>1 DEF TypeOK, Unpack, Delete, DeleteFails, history
<1>6. UNCHANGED <<index, db, tmp, broken, asked>>
  BY DEF Unpack, Delete, DeleteFails, history
<1> QED
  BY <1>3, <1>4, <1>5, <1>6 DEF TypeOK, LysinsTyped

LEMMA SaveStepTyped ==
  ASSUME TypeOK, Placed, NEW p \in Proc, UnpackUpdate(p) \/ Save(p) \/ WriteTmp(p)
  PROVE  TypeOK' /\ Placed'
<1> DEFINE l == local[p]
           new == local'[p]
<1>1. Where(pc[p], l) /\ l \in Locals
  BY DEF Placed, TypeOK
<1>2. CASE UnpackUpdate(p)
  <2>1. Where("unpack", new)
    BY <1>1, <1>2, UnpackUpdateStep DEF UnpackUpdate, Where, SameOp, Changing
  <2>2. LysinsTyped' /\ Placed'
    BY <1>2, <2>1, UnpackUpdateStep, MovesTyped DEF Steps
  <2> QED
    BY <1>2, <2>2 DEF UnpackUpdate, history, TypeOK, LysinsTyped
<1>3. CASE Save(p)
  <2>1. Where("write", new)
    BY <1>1, <1>3, SaveStep DEF Save, Where, SameOp, Changing
  <2>2. LysinsTyped' /\ Placed'
    BY <1>3, <2>1, SaveStep, MovesTyped DEF Steps
  <2> QED
    BY <1>3, <2>2 DEF Save, history, TypeOK, LysinsTyped
<1>4. CASE WriteTmp(p)
  <2>1. Moves(p, "rename", l)
    BY <1>4 DEF WriteTmp, Moves, Goto, TypeOK
  <2>2. Where("rename", l)
    BY <1>1, <1>4 DEF WriteTmp, Where, Changing
  <2>3. LysinsTyped' /\ Placed'
    BY <1>1, <2>1, <2>2, MovesTyped DEF Steps
  <2>4. db' \in Records \cup {Partial} /\ tmp' \in Records \cup {None, Partial}
    BY <1>1, <1>4 DEF WriteTmp, TypeOK, Locals
  <2> QED
    BY <1>4, <2>3, <2>4 DEF WriteTmp, history, TypeOK, LysinsTyped
<1> QED
  BY <1>2, <1>3, <1>4

LEMMA RenameTyped ==
  ASSUME TypeOK, Placed, NEW p \in Proc, RenameTmp(p)
  PROVE  TypeOK' /\ Placed'
<1> DEFINE step == IF Finished(p) THEN "idle" ELSE "next"
<1>1. step \in Steps \cup {"idle"} /\ pc' = [pc EXCEPT ![p] = step]
  BY RenameStep DEF Steps
<1>2. pc' \in [Proc -> Steps \cup {"idle"}] /\ local' \in [Proc -> Locals]
  BY <1>1, RenameStep DEF TypeOK
<1>3. Where(pc'[p], local'[p])
  <2>1. Where(pc[p], local[p]) /\ pc[p] = "rename" /\ pc'[p] = step
    BY <1>1 DEF Placed, RenameTmp, TypeOK
  <2>2. CASE Finished(p)
    BY <2>1, <2>2, RenameStep, NoLocalsTyped
  <2>3. CASE ~Finished(p)
    <3>1. Where("next", local'[p])
      BY <2>1, <2>3, RenameStep DEF Where, SameOp, Changing, Finished
    <3> QED
      BY <2>1, <2>3, <3>1
  <2> QED
    BY <2>2, <2>3
<1>4. \A q \in Proc : Where(pc'[q], local'[q])
  <2> SUFFICES ASSUME NEW q \in Proc \ {p} PROVE Where(pc'[q], local'[q])
    BY <1>3
  <2>1. Where(pc[q], local[q]) /\ pc'[q] = pc[q]
    BY <1>1 DEF Placed, TypeOK
  <2> QED
    BY <2>1, RenameStep DEF Where, SameOp
<1>5. Placed'
  BY <1>4 DEF Placed, Where
<1>6. LysinsTyped'
  <2>1. \A q \in Proc :
          /\ pc'[q] # "idle" => local'[q].op \in Ops
          /\ pc'[q] \in {"delete", "unpack", "write", "rename"} => local'[q].pkg \in Package
          /\ pc'[q] = "unpack" => local'[q].ver \in Version
    BY <1>4 DEF Where, Changing
  <2> QED
    BY <1>2, <2>1 DEF LysinsTyped
<1>7. db' \in Records \cup {Partial} /\ tmp' \in Records \cup {None, Partial}
  BY DEF RenameTmp, TypeOK
<1>8. broken' \subseteq Package /\ asked' \subseteq Package
  <2>1. local[p].op = "install" => local[p].name \in Package
    BY DEF Placed, Where
  <2> QED
    BY <2>1 DEF RenameTmp, TypeOK
<1> QED
  BY <1>5, <1>6, <1>7, <1>8 DEF RenameTmp, TypeOK, LysinsTyped

LEMMA EndTyped ==
  ASSUME TypeOK, Placed, NEW p \in Proc, Stop(p) \/ UpdateFails(p) \/ UpdateDone(p)
  PROVE  TypeOK' /\ Placed'
<1>1. fs' \in [Path -> {None, Partial} \cup Package \X Version]
  BY HalfTyped DEF Stop, UpdateFails, UpdateDone, TypeOK
<1>2. CASE Stop(p) \/ UpdateDone(p)
  <2>1. Moves(p, "idle", NoLocals)
    BY <1>2 DEF Stop, UpdateDone, Moves, Goto
  <2>2. LysinsTyped' /\ Placed'
    BY <2>1, NoLocalsTyped, MovesTyped
  <2> QED
    BY <1>1, <1>2, <2>2 DEF Stop, UpdateDone, history, TypeOK, LysinsTyped
<1>3. CASE UpdateFails(p)
  <2> DEFINE new == local'[p]
  <2>1. Where(pc[p], local[p])
    BY DEF Placed
  <2>2. Where("next", new)
    BY <1>3, <2>1, UpdateFailsStep DEF UpdateFails, Where, SameOp, Changing
  <2>3. LysinsTyped' /\ Placed'
    BY <1>3, <2>2, UpdateFailsStep, MovesTyped DEF Steps
  <2>4. local[p].pkg \in Package
    BY <1>3, <2>1 DEF UpdateFails, Where, Changing
  <2> QED
    BY <1>1, <1>3, <2>3, <2>4 DEF UpdateFails, TypeOK, LysinsTyped
<1> QED
  BY <1>2, <1>3

LEMMA PublishTyped ==
  ASSUME TypeOK, Placed, NEW a \in Package, NEW v \in Version, Publish(a, v)
  PROVE  TypeOK' /\ Placed'
<1>1. index' \in Records
  BY DEF Publish, TypeOK, Records
<1> QED
  BY <1>1 DEF Publish, history, TypeOK, Placed

(* Every variable keeps its type, and every lysin the locals that go with   *)
(* the step it is at, whatever number of them run at a time.                *)
THEOREM TypeCorrect == Spec => [](TypeOK /\ Placed)
<1>1. TypeOK /\ Placed /\ [Next]_vars => (TypeOK /\ Placed)'
  <2> SUFFICES ASSUME TypeOK, Placed, [Next]_vars PROVE (TypeOK /\ Placed)'
    OBVIOUS
  <2>1. CASE UNCHANGED vars
    BY <2>1 DEF vars, history, TypeOK, Placed
  <2>2. ASSUME NEW a \in Package, NEW v \in Version, Publish(a, v) PROVE (TypeOK /\ Placed)'
    BY <2>2, PublishTyped
  <2>3. ASSUME NEW p \in Proc, NEW a \in Package,
               Install(p, a) \/ \E force \in BOOLEAN : Remove(p, a, force)
        PROVE  (TypeOK /\ Placed)'
    BY <2>3, StartTyped
  <2>4. ASSUME NEW p \in Proc, NEW a \in Package,
               InstallSingle(p, a) \/ UpdateSingle(p, a) \/ SkipUpdate(p, a)
        PROVE  (TypeOK /\ Placed)'
    BY <2>4, PackageStepTyped
  <2>5. ASSUME NEW p \in Proc, NEW f \in Path, Unpack(p, f) \/ Delete(p, f) \/ DeleteFails(p, f)
        PROVE  (TypeOK /\ Placed)'
    BY <2>5, FileStepTyped
  <2>6. ASSUME NEW p \in Proc, Update(p) PROVE (TypeOK /\ Placed)'
    BY <2>6, StartTyped
  <2>7. ASSUME NEW p \in Proc, UnpackUpdate(p) \/ Save(p) \/ WriteTmp(p)
        PROVE  (TypeOK /\ Placed)'
    BY <2>7, SaveStepTyped
  <2>8. ASSUME NEW p \in Proc, RenameTmp(p) PROVE (TypeOK /\ Placed)'
    BY <2>8, RenameTyped
  <2>9. ASSUME NEW p \in Proc, Stop(p) \/ UpdateFails(p) \/ UpdateDone(p)
        PROVE  (TypeOK /\ Placed)'
    BY <2>9, EndTyped
  <2> QED
    BY <2>1, <2>2, <2>3, <2>4, <2>5, <2>6, <2>7, <2>8, <2>9 DEF Next
<1> QED
  BY <1>1, InitTyped, PTL DEF Spec

-----------------------------------------------------------------------------
(* The rest is about one lysin at a time.                                    *)
OneLysin == \A p, q \in Proc : p = q

(* A save writes the record that it is to, and the tmp file is its own.     *)
SaveWork(l, step, file) ==
    /\ step = "write" => l.fd = "tmp"
    /\ step = "rename" => file = l.mem
    /\ step \in {"write", "rename"} => l.mem[l.pkg] = l.ver /\ l.left = {}

(* What is in memory is what is recorded, but for the package being saved   *)
(* and, in an update, those whose save failed.                              *)
Recorded(l, step, base, unsaved, a) ==
    \/ l.mem[a] = base[a]
    \/ a = l.pkg /\ step \in {"write", "rename"}
    \/ l.op = "update" /\ a \in unsaved /\ a \notin l.todo
InstallWork(l, step, base) ==
    /\ l.name \notin l.todo /\ l.pkg \notin l.todo
    /\ \A d \in l.todo : l.mem[d] = 0
    /\ l.pkg # l.name => l.mem[l.name] = 0
    /\ step \in Changing => base[l.pkg] = 0
    /\ l.pkg = l.name => l.todo = {}
    /\ \A d \in Depends[l.name][l.first] :
          d \in l.todo \/ (step = "unpack" /\ d = l.pkg) \/ l.mem[d] # 0
UpdateWork(l, step, base) ==
    /\ l.pkg \notin l.todo
    /\ \A a \in Package : l.mem[a] = base[a] \/ (0 < base[a] /\ base[a] < l.mem[a])
    /\ \A a \in l.todo : l.mem[a] = base[a] /\ 0 < base[a] /\ base[a] < l.new[a]
    /\ step \in Changing => 0 < base[l.pkg] /\ base[l.pkg] < l.ver
RemoveWork(l, base) == ~l.force => Dependents(base, l.pkg) = {}
MemoryWork(l, step, base, unsaved) ==
    /\ step # "idle" => \A a \in Package : Recorded(l, step, base, unsaved, a)
    /\ l.op = "install" => InstallWork(l, step, base)
    /\ l.op = "update" => UpdateWork(l, step, base)
    /\ l.op = "remove" => RemoveWork(l, base)

(* How far the files of the package in work are.                            *)
DiskWork(l, step, files, base) ==
    /\ step = "delete" => l.left \subseteq Files(l.pkg, base[l.pkg])
    /\ step = "unpack" => l.left \subseteq Files(l.pkg, l.ver)
    /\ step \in {"unpack", "write", "rename"} =>
          \A f \in Files(l.pkg, l.ver) \ l.left : files[f] = <<l.pkg, l.ver>>
OwnWork(l, step, files) ==
    step \in Changing => \A f \in Own(l.pkg) : files[f] # None =>
        f \in IF step = "delete" THEN l.left ELSE Files(l.pkg, l.ver)

WorkOf(l, step, files, base, file, brk, trb) ==
    /\ SaveWork(l, step, file)
    /\ MemoryWork(l, step, base, brk \cap trb)
    /\ DiskWork(l, step, files, base)
    /\ step \in Changing /\ l.op # "install" => l.pkg \in brk
    /\ l.pkg \notin trb => OwnWork(l, step, files)
Working == \A p \in Proc : WorkOf(local[p], pc[p], fs, db, tmp, broken, troubled)

IInv == /\ TypeOK /\ Placed /\ Working
        /\ DbWhole /\ FilesPresent /\ NoneLeftBehind /\ DepsRecorded
Rest == Working /\ DbWhole /\ FilesPresent /\ NoneLeftBehind /\ DepsRecorded

(* What is known before a step, ...                                          *)
LEMMA Before ==
  ASSUME OneLysin, IInv, NEW p \in Proc
  PROVE  /\ Where(pc[p], local[p]) /\ local[p] \in Locals /\ local[p].mem \in Records
         /\ WorkOf(local[p], pc[p], fs, db, tmp, broken, troubled)
         /\ InWork = {local[p].pkg} /\ db \in Records /\ Loaded = db
         /\ index \in Records
<1>1. Where(pc[p], local[p]) /\ local[p] \in Locals /\ index \in Records
  BY DEF IInv, Placed, TypeOK
<1>2. local[p].mem \in Records
  BY <1>1 DEF Locals
<1>3. InWork = {local[p].pkg}
  BY DEF OneLysin, InWork
<1>4. db \in Records /\ Loaded = db
  BY DEF IInv, TypeOK, DbWhole, Loaded
<1>5. WorkOf(local[p], pc[p], fs, db, tmp, broken, troubled)
  BY DEF IInv, Working
<1> QED
  BY <1>1, <1>2, <1>3, <1>4, <1>5

(* ... and what is to be shown after it.                                     *)
LEMMA After ==
  ASSUME OneLysin, NEW p \in Proc,
         WorkOf(local'[p], pc'[p], fs', db', tmp', broken', troubled')
  PROVE  Working' /\ InWork' = {local'[p].pkg}
<1>1. \A q \in Proc : WorkOf(local'[q], pc'[q], fs', db', tmp', broken', troubled')
  BY DEF OneLysin
<1>2. Working'
  BY <1>1 DEF Working, WorkOf, SaveWork, MemoryWork, Recorded, InstallWork, UpdateWork, RemoveWork,
     DiskWork, OwnWork
<1>3. InWork' = {local'[p].pkg}
  BY DEF OneLysin, InWork
<1> QED
  BY <1>2, <1>3

\* The parts about the files and the records, when no file and no record changes.
LEMMA Unchanged ==
  ASSUME IInv, UNCHANGED <<fs, db>>, broken \subseteq broken', troubled \subseteq troubled',
         UNCHANGED asked,
         InWork \cap Package \subseteq InWork' \cup troubled'
  PROVE  DbWhole' /\ FilesPresent' /\ NoneLeftBehind' /\ DepsRecorded'
<1>1. DbWhole' /\ DepsRecorded'
  BY DEF IInv, DbWhole, DepsRecorded
<1>2. FilesPresent'
  BY DEF IInv, FilesPresent
<1>3. NoneLeftBehind'
  <2>1. Package \ (troubled' \cup InWork') \subseteq Package \ (troubled \cup InWork)
    OBVIOUS
  <2> QED
    BY <2>1 DEF IInv, NoneLeftBehind
<1> QED
  BY <1>1, <1>2, <1>3

\* No lysin is changing files.
LEMMA AtRest ==
  ASSUME NEW l, NEW step \in {"idle", "next"}, NEW files, NEW base, NEW file, NEW brk, NEW trb,
         MemoryWork(l, step, base, brk \cap trb)
  PROVE  WorkOf(l, step, files, base, file, brk, trb)
BY DEF WorkOf, SaveWork, DiskWork, OwnWork, Changing

LEMMA PublishKeeps ==
  ASSUME IInv, NEW a \in Package, NEW v \in Version, Publish(a, v)
  PROVE  Rest'
BY DEF Publish, history, IInv, Rest, Working, DbWhole, FilesPresent, NoneLeftBehind, DepsRecorded, InWork,
   WorkOf, SaveWork, MemoryWork, Recorded, InstallWork, UpdateWork, RemoveWork, DiskWork, OwnWork

LEMMA NoWork ==
  ASSUME NEW base, NEW unsaved
  PROVE  MemoryWork(NoLocals, "idle", base, unsaved)
BY NoLocalsTyped DEF MemoryWork

LEMMA InstallKeeps ==
  ASSUME OneLysin, IInv, NEW p \in Proc, NEW a \in Package, Install(p, a)
  PROVE  Rest'
<1>1. PICK new \in Locals :
            /\ Moves(p, "next", new)
            /\ new.op = "install" /\ new.name = a /\ new.first = index[a] /\ new.mem = Loaded
            /\ new.todo = {d \in Depends[a][index[a]] : Loaded[d] = 0}
            /\ new.pkg = None /\ new.left = {} /\ new.fd = "none"
            /\ index[a] \in Version /\ Loaded[a] = 0
  BY InstallStart DEF IInv
<1>2. new = local'[p] /\ pc'[p] = "next"
  BY <1>1 DEF Moves, IInv, TypeOK
<1>3. /\ \A d \in new.todo : d \in Package /\ Loaded[d] = 0
      /\ a \notin new.todo /\ None \notin new.todo
      /\ \A d \in Depends[a][index[a]] : d \in new.todo \/ Loaded[d] # 0
  BY <1>1, PackageAssumption, MarkAssumption
<1>4. InstallWork(new, "next", db)
  BY <1>1, <1>3, MarkAssumption DEF InstallWork, Changing
<1>5. MemoryWork(new, "next", db, broken \cap troubled)
  BY <1>1, <1>4, Before DEF MemoryWork, Recorded
<1>6. UNCHANGED <<fs, db, tmp, broken, troubled, asked>> /\ pc[p] = "idle"
  BY DEF Install, history
<1>7. Working' /\ InWork' = {None}
  <2>1. WorkOf(new, "next", fs, db, tmp, broken, troubled)
    BY <1>5, AtRest
  <2> QED
    BY <1>1, <1>2, <1>6, <2>1, After
<1>8. InWork = {None}
  BY <1>6, Before, NoLocalsTyped DEF Where
<1> QED
  BY <1>6, <1>7, <1>8, Unchanged DEF Rest

LEMMA InstallSingleKeeps ==
  ASSUME OneLysin, IInv, NEW p \in Proc, NEW a \in Package, InstallSingle(p, a)
  PROVE  Rest'
<1> DEFINE l == local[p]
           new == local'[p]
           v == index[a]
<1>1. /\ new \in Locals /\ Moves(p, "unpack", new) /\ SameOp(l, new)
      /\ new.mem = l.mem /\ new.todo = l.todo \ {a} /\ new.pkg = a
      /\ new.ver = v /\ v \in Version /\ new.left = Files(a, v)
  BY InstallSingleStep DEF IInv
<1>2. /\ UNCHANGED <<fs, db, tmp, broken, troubled, asked>> /\ pc'[p] = "unpack"
      /\ pc[p] = "next" /\ l.op = "install" /\ l.pkg = None
      /\ IF l.todo = {} THEN a = l.name ELSE a \in l.todo
  <2>1. pc'[p] = "unpack"
    BY <1>1 DEF Moves, IInv, TypeOK
  <2> QED
    BY <2>1, Before DEF InstallSingle, history, Where
<1>3. /\ InstallWork(l, "next", db) /\ InWork = {None} /\ l.name \in Package
      /\ \A b \in Package : l.mem[b] = db[b]
  BY <1>2, Before, MarkAssumption DEF WorkOf, MemoryWork, Recorded, Where
<1>4. l.mem[a] = 0 /\ db[a] = 0
  BY <1>2, <1>3, MarkAssumption DEF InstallWork
<1>5. InstallWork(new, "unpack", db)
  BY <1>1, <1>2, <1>3, <1>4, MarkAssumption DEF InstallWork, SameOp
<1>6. MemoryWork(new, "unpack", db, broken \cap troubled)
  BY <1>1, <1>2, <1>3, <1>5 DEF MemoryWork, Recorded, SameOp
<1>7. ASSUME a \notin troubled PROVE OwnWork(new, "unpack", fs)
  <2>1. \A f \in Own(a) : fs[f] = None
    BY <1>3, <1>4, <1>7, MarkAssumption DEF IInv, NoneLeftBehind, Files
  <2> QED
    BY <1>1, <2>1 DEF OwnWork
<1>8. WorkOf(new, "unpack", fs, db, tmp, broken, troubled)
  BY <1>1, <1>2, <1>6, <1>7 DEF WorkOf, SaveWork, DiskWork, SameOp
<1>9. Working' /\ InWork' = {a}
  BY <1>1, <1>2, <1>8, After
<1> QED
  BY <1>2, <1>3, <1>9, MarkAssumption, Unchanged DEF Rest

LEMMA RemoveKeeps ==
  ASSUME OneLysin, IInv, NEW p \in Proc, NEW a \in Package, NEW force \in BOOLEAN,
         Remove(p, a, force)
  PROVE  Rest'
<1>1. PICK new \in Locals :
            /\ Moves(p, "delete", new)
            /\ new.op = "remove" /\ new.force = force /\ new.mem = Loaded
            /\ new.todo = {} /\ new.pkg = a /\ new.ver = 0
            /\ new.left = Files(a, Loaded[a]) /\ new.fd = "none"
  BY RemoveStart DEF IInv
<1>2. /\ UNCHANGED <<fs, db, tmp, troubled, asked>> /\ broken' = broken \cup {a}
      /\ pc[p] = "idle" /\ (force \/ Dependents(db, a) = {})
      /\ pc'[p] = "delete" /\ local'[p] = new
  <2>1. pc'[p] = "delete" /\ local'[p] = new
    BY <1>1 DEF Moves, IInv, TypeOK
  <2> QED
    BY <2>1, Before DEF Remove
<1>3. MemoryWork(new, "delete", db, broken' \cap troubled)
  BY <1>1, <1>2, Before DEF MemoryWork, Recorded, RemoveWork
<1>4. InWork = {None}
  BY <1>2, Before, NoLocalsTyped DEF Where
<1>5. ASSUME a \notin troubled PROVE OwnWork(new, "delete", fs)
  <2>1. \A f \in Own(a) : fs[f] # None => f \in Files(a, db[a])
    BY <1>4, <1>5, MarkAssumption DEF IInv, NoneLeftBehind
  <2> QED
    BY <1>1, <2>1, Before DEF OwnWork
<1>6. WorkOf(new, "delete", fs, db, tmp, broken', troubled)
  BY <1>1, <1>2, <1>3, <1>5, Before DEF WorkOf, SaveWork, DiskWork
<1>7. Working' /\ InWork' = {a}
  BY <1>1, <1>2, <1>6, After
<1> QED
  BY <1>2, <1>4, <1>7, MarkAssumption, Unchanged DEF Rest

LEMMA UpdateKeeps ==
  ASSUME OneLysin, IInv, NEW p \in Proc, Update(p)
  PROVE  Rest'
<1>1. PICK new \in Locals :
            /\ Moves(p, "next", new)
            /\ new.op = "update" /\ new.mem = Loaded
            /\ \A a \in new.todo : /\ 0 < Loaded[a] /\ Loaded[a] < index[a]
                                   /\ new.new[a] = index[a] /\ index[a] \in Version
            /\ new.pkg = None /\ new.left = {} /\ new.fd = "none"
  BY UpdateStart DEF IInv
<1>2. new = local'[p] /\ pc'[p] = "next"
  BY <1>1 DEF Moves, IInv, TypeOK
<1>3. UNCHANGED <<fs, db, tmp, broken, troubled, asked>> /\ pc[p] = "idle"
  BY DEF Update, history
<1>4. new.todo \subseteq Package
  BY DEF Locals
<1>5. UpdateWork(new, "next", db)
  BY <1>1, <1>4, Before, MarkAssumption DEF UpdateWork, Changing
<1>6. MemoryWork(new, "next", db, broken \cap troubled)
  BY <1>1, <1>5, Before DEF MemoryWork, Recorded
<1>7. Working' /\ InWork' = {None}
  <2>1. WorkOf(new, "next", fs, db, tmp, broken, troubled)
    BY <1>6, AtRest
  <2> QED
    BY <1>1, <1>2, <1>3, <2>1, After
<1>8. InWork = {None}
  BY <1>3, Before, NoLocalsTyped DEF Where
<1> QED
  BY <1>3, <1>7, <1>8, Unchanged DEF Rest

LEMMA UpdateSingleKeeps ==
  ASSUME OneLysin, IInv, NEW p \in Proc, NEW a \in Package, UpdateSingle(p, a)
  PROVE  Rest'
<1> DEFINE l == local[p]
           new == local'[p]
<1>1. /\ new \in Locals /\ Moves(p, "delete", new) /\ SameOp(l, new)
      /\ new.mem = l.mem /\ new.todo = l.todo \ {a} /\ new.pkg = a
      /\ new.ver = l.new[a] /\ new.left = Files(a, l.mem[a])
  BY UpdateSingleStep DEF IInv
<1>2. /\ UNCHANGED <<fs, db, tmp, troubled, asked>> /\ pc'[p] = "delete"
      /\ broken' = broken \cup {a}
      /\ pc[p] = "next" /\ l.op = "update" /\ l.pkg = None /\ a \in l.todo
  <2>1. pc'[p] = "delete"
    BY <1>1 DEF Moves, IInv, TypeOK
  <2> QED
    BY <2>1, Before DEF UpdateSingle, Where
<1>3. /\ UpdateWork(l, "next", db) /\ InWork = {None}
      /\ \A b \in Package : Recorded(l, "next", db, broken \cap troubled, b)
  BY <1>2, Before DEF WorkOf, MemoryWork
<1>4. UpdateWork(new, "delete", db)
  BY <1>1, <1>2, <1>3 DEF UpdateWork, SameOp
<1>5. l.mem[a] = db[a]
  BY <1>2, <1>3 DEF UpdateWork
<1>6. \A b \in Package : Recorded(new, "delete", db, broken' \cap troubled, b)
  BY <1>1, <1>2, <1>3 DEF Recorded, SameOp
<1>7. MemoryWork(new, "delete", db, broken' \cap troubled)
  BY <1>1, <1>2, <1>4, <1>6 DEF MemoryWork, SameOp
<1>8. ASSUME a \notin troubled PROVE OwnWork(new, "delete", fs)
  <2>1. \A f \in Own(a) : fs[f] # None => f \in Files(a, db[a])
    BY <1>3, <1>8, MarkAssumption DEF IInv, NoneLeftBehind
  <2> QED
    BY <1>1, <1>5, <2>1 DEF OwnWork
<1>9. WorkOf(new, "delete", fs, db, tmp, broken', troubled)
  BY <1>1, <1>2, <1>5, <1>7, <1>8 DEF WorkOf, SaveWork, DiskWork
<1>10. Working' /\ InWork' = {a}
  BY <1>1, <1>2, <1>9, After
<1> QED
  BY <1>2, <1>3, <1>10, MarkAssumption, Unchanged DEF Rest

LEMMA SkipUpdateKeeps ==
  ASSUME OneLysin, IInv, NEW p \in Proc, NEW a \in Package, SkipUpdate(p, a)
  PROVE  Rest'
<1> DEFINE l == local[p]
           new == local'[p]
<1>1. /\ SameOp(l, new) /\ new.mem = l.mem /\ new.todo = l.todo \ {a} /\ new.pkg = l.pkg
      /\ new.ver = l.ver
  BY SkipUpdateStep DEF IInv
<1>2. /\ UNCHANGED <<fs, db, tmp, pc, broken, troubled, asked>>
      /\ pc[p] = "next" /\ l.op = "update" /\ l.pkg = None
  BY Before DEF SkipUpdate, Where, history
<1>3. /\ UpdateWork(l, "next", db) /\ InWork = {None}
      /\ \A b \in Package : Recorded(l, "next", db, broken \cap troubled, b)
  BY <1>2, Before DEF WorkOf, MemoryWork
<1>4. UpdateWork(new, "next", db)
  BY <1>1, <1>3 DEF UpdateWork, SameOp, Changing
<1>5. \A b \in Package : Recorded(new, "next", db, broken \cap troubled, b)
  BY <1>1, <1>2, <1>3 DEF Recorded, SameOp
<1>6. WorkOf(new, "next", fs, db, tmp, broken, troubled)
  <2>1. MemoryWork(new, "next", db, broken \cap troubled)
    BY <1>1, <1>2, <1>4, <1>5 DEF MemoryWork, SameOp
  <2> QED
    BY <2>1, AtRest
<1>7. Working' /\ InWork' = {None}
  BY <1>1, <1>2, <1>6, After
<1> QED
  BY <1>2, <1>3, <1>7, Unchanged DEF Rest

\* What the files of the package in work are, is no matter to the others.
LEMMA OthersFiles ==
  ASSUME OneLysin, IInv, NEW p \in Proc, pc[p] \in {"delete", "unpack"}, NEW f \in local[p].left,
         NEW a \in Package, f \in Own(a)
  PROVE  /\ a = local[p].pkg
         /\ f \in Files(a, db[a]) => a \in broken
<1> DEFINE l == local[p]
<1>1. /\ l.pkg \in Package /\ f \in Path
      /\ WorkOf(l, pc[p], fs, db, tmp, broken, troubled) /\ db \in Records
      /\ pc[p] \in Changing /\ Where(pc[p], l)
  BY Before DEF Where, Changing, Locals
<1>2. PICK v \in Version : f \in Ships[l.pkg][v]
  <2>1. CASE pc[p] = "delete"
    BY <1>1, <2>1, RecordedVersion DEF WorkOf, DiskWork, Files, Records
  <2>2. CASE pc[p] = "unpack"
    BY <1>1, <2>2 DEF WorkOf, DiskWork, Files, Where
  <2> QED
    BY <2>1, <2>2
<1>3. a = l.pkg
  BY <1>1, <1>2 DEF Own
<1>4. ASSUME a \notin broken PROVE Files(a, db[a]) = {}
  <2>1. l.op = "install"
    BY <1>1, <1>3, <1>4 DEF WorkOf
  <2>2. db[a] = 0
    BY <1>1, <1>3, <2>1 DEF WorkOf, MemoryWork, InstallWork
  <2> QED
    BY <2>2 DEF Files
<1> QED
  BY <1>3, <1>4

\* The parts about the files and the records, when a file of the package in work changes.
LEMMA FileChanged ==
  ASSUME OneLysin, IInv, NEW p \in Proc, pc[p] \in {"delete", "unpack"}, NEW f \in local[p].left,
         NEW x, fs' = [fs EXCEPT ![f] = x], UNCHANGED <<db, broken, asked>>,
         troubled \subseteq troubled',
         local[p].pkg \in InWork' \cup troubled'
  PROVE  DbWhole' /\ FilesPresent' /\ NoneLeftBehind' /\ DepsRecorded'
<1>1. DbWhole' /\ DepsRecorded'
  BY DEF IInv, DbWhole, DepsRecorded
<1>2. \A g \in Path \ {f} : fs'[g] = fs[g]
  BY DEF IInv, TypeOK
<1>3. FilesPresent'
  <2> SUFFICES ASSUME NEW a \in Package \ broken, NEW g \in Own(a) \cap Files(a, db[a])
               PROVE  fs'[g] = <<a, db[a]>>
    BY DEF FilesPresent
  <2>1. g # f
    BY OthersFiles
  <2> QED
    BY <1>2, <2>1 DEF IInv, FilesPresent, Own
<1>4. NoneLeftBehind'
  <2> SUFFICES ASSUME NEW a \in Package \ (troubled' \cup InWork'), NEW g \in Own(a),
                      fs'[g] # None
               PROVE  g \in Files(a, db[a])
    BY DEF NoneLeftBehind
  <2>1. g # f /\ a # local[p].pkg
    BY OthersFiles
  <2>2. a \notin InWork
    BY <2>1, Before
  <2> QED
    BY <1>2, <2>1, <2>2 DEF IInv, NoneLeftBehind, Own
<1> QED
  BY <1>1, <1>3, <1>4

\* A file is done with: nothing but the files changes in what the operation knows.
LEMMA FileDoneMemory ==
  ASSUME NEW l, NEW new, NEW step \in {"delete", "unpack"}, NEW base, NEW unsaved, NEW more,
         SameOp(l, new), new.mem = l.mem, new.pkg = l.pkg, new.ver = l.ver, new.todo = l.todo,
         unsaved \subseteq more, MemoryWork(l, step, base, unsaved)
  PROVE  MemoryWork(new, step, base, more)
BY DEF MemoryWork, SameOp, Recorded, InstallWork, UpdateWork, RemoveWork

LEMMA FileStepKeeps ==
  ASSUME OneLysin, IInv, NEW p \in Proc, NEW f \in Path,
         Unpack(p, f) \/ Delete(p, f) \/ DeleteFails(p, f)
  PROVE  Rest'
<1> DEFINE l == local[p]
           new == local'[p]
<1>1. /\ new \in Locals /\ Moves(p, pc[p], new) /\ SameOp(l, new)
      /\ new.mem = l.mem /\ new.pkg = l.pkg /\ new.ver = l.ver
      /\ new.todo = l.todo /\ new.left = l.left \ {f}
  BY FileStep DEF IInv
<1>2. /\ UNCHANGED <<db, tmp, pc, broken, asked>> /\ troubled \subseteq troubled'
      /\ pc[p] \in {"delete", "unpack"} /\ f \in l.left
      /\ WorkOf(l, pc[p], fs, db, tmp, broken, troubled) /\ Where(pc[p], l) /\ l.pkg \in Package
      /\ l.left \subseteq Path
  BY Before DEF Unpack, Delete, DeleteFails, history, Where, Changing, Locals
<1>3. MemoryWork(new, pc[p], db, broken' \cap troubled')
  <2>1. broken \cap troubled \subseteq broken' \cap troubled'
    BY <1>2
  <2> QED
    BY <1>1, <1>2, <2>1, FileDoneMemory DEF WorkOf
<1>4. \A g \in Path \ {f} : fs'[g] = fs[g]
  BY DEF Unpack, Delete, DeleteFails, IInv, TypeOK
<1>5. DiskWork(new, pc[p], fs', db)
  <2>1. CASE pc[p] = "delete"
    BY <1>1, <1>2, <2>1 DEF WorkOf, DiskWork
  <2>2. CASE pc[p] = "unpack"
    <3>1. fs' = [fs EXCEPT ![f] = <<l.pkg, l.ver>>]
      BY <2>2 DEF Unpack, Delete, DeleteFails
    <3>2. fs'[f] = <<new.pkg, new.ver>>
      BY <1>1, <3>1 DEF IInv, TypeOK
    <3>3. Files(l.pkg, l.ver) \subseteq Path
      BY <1>2, <2>2, FilesTyped DEF Where
    <3>4. \A g \in Files(l.pkg, l.ver) \ l.left : fs[g] = <<l.pkg, l.ver>>
      BY <1>2, <2>2 DEF WorkOf, DiskWork
    <3>5. \A g \in Files(new.pkg, new.ver) \ new.left : fs'[g] = <<new.pkg, new.ver>>
      BY <1>1, <1>4, <3>2, <3>3, <3>4
    <3> QED
      BY <1>1, <1>2, <2>2, <3>5 DEF WorkOf, DiskWork
  <2> QED
    BY <1>2, <2>1, <2>2
<1>6. ASSUME l.pkg \notin troubled' PROVE OwnWork(new, pc[p], fs')
  <2>1. ~DeleteFails(p, f) /\ OwnWork(l, pc[p], fs)
    BY <1>2, <1>6 DEF DeleteFails, WorkOf
  <2>2. CASE pc[p] = "delete"
    <3>1. fs'[f] = None
      BY <2>1, <2>2 DEF Unpack, Delete, IInv, TypeOK
    <3>2. \A g \in Own(l.pkg) : g \in Path
      BY DEF Own
    <3> QED
      BY <1>1, <1>4, <2>1, <2>2, <3>1, <3>2 DEF OwnWork, Changing
  <2>3. CASE pc[p] = "unpack"
    <3>1. f \in Files(l.pkg, l.ver)
      BY <1>2, <2>3 DEF WorkOf, DiskWork
    <3>2. \A g \in Own(l.pkg) : g \in Path
      BY DEF Own
    <3> QED
      BY <1>1, <1>4, <2>1, <2>3, <3>1, <3>2 DEF OwnWork, Changing
  <2> QED
    BY <1>2, <2>2, <2>3
<1>7. WorkOf(new, pc[p], fs', db, tmp, broken', troubled')
  BY <1>1, <1>2, <1>3, <1>5, <1>6 DEF WorkOf, SaveWork, SameOp
<1>8. Working' /\ InWork' = {l.pkg}
  BY <1>1, <1>2, <1>7, After
<1>9. DbWhole' /\ FilesPresent' /\ NoneLeftBehind' /\ DepsRecorded'
  <2>1. CASE Unpack(p, f) \/ Delete(p, f)
    <3>1. PICK x : fs' = [fs EXCEPT ![f] = x]
      BY <2>1 DEF Unpack, Delete
    <3> QED
      BY <1>2, <1>8, <3>1, FileChanged
  <2>2. CASE DeleteFails(p, f)
    <3>1. UNCHANGED fs /\ InWork = {l.pkg}
      BY <2>2, Before DEF DeleteFails
    <3> QED
      BY <1>2, <1>8, <3>1, Unchanged
  <2> QED
    BY <2>1, <2>2
<1> QED
  BY <1>8, <1>9 DEF Rest

LEMMA UnpackUpdateKeeps ==
  ASSUME OneLysin, IInv, NEW p \in Proc, UnpackUpdate(p)
  PROVE  Rest'
<1> DEFINE l == local[p]
           new == local'[p]
<1>1. /\ Moves(p, "unpack", new) /\ SameOp(l, new)
      /\ new.mem = l.mem /\ new.todo = l.todo /\ new.pkg = l.pkg /\ new.ver = l.ver
      /\ l.pkg \in Package /\ l.ver \in Version /\ new.left = Ships[l.pkg][l.ver]
  BY UnpackUpdateStep DEF IInv
<1>2. /\ UNCHANGED <<fs, db, tmp, broken, troubled, asked>> /\ pc'[p] = "unpack"
      /\ pc[p] = "delete" /\ l.op = "update" /\ l.left = {} /\ InWork = {l.pkg}
      /\ WorkOf(l, "delete", fs, db, tmp, broken, troubled)
  <2>1. pc'[p] = "unpack"
    BY <1>1 DEF Moves, IInv, TypeOK
  <2> QED
    BY <2>1, Before DEF UnpackUpdate, history
<1>3. Files(l.pkg, l.ver) = new.left
  BY <1>1, VersionAssumption DEF Files
<1>4. MemoryWork(new, "unpack", db, broken \cap troubled)
  BY <1>1, <1>2 DEF WorkOf, MemoryWork, SameOp, Recorded, UpdateWork, Changing
<1>5. OwnWork(l, "delete", fs) => OwnWork(new, "unpack", fs)
  BY <1>1, <1>2 DEF OwnWork, Changing
<1>6. WorkOf(new, "unpack", fs, db, tmp, broken, troubled)
  BY <1>1, <1>2, <1>3, <1>4, <1>5 DEF WorkOf, SaveWork, DiskWork, SameOp, Changing
<1>7. Working' /\ InWork' = {l.pkg}
  BY <1>1, <1>2, <1>6, After
<1> QED
  BY <1>2, <1>7, Unchanged DEF Rest

LEMMA SaveKeeps ==
  ASSUME OneLysin, IInv, NEW p \in Proc, Save(p)
  PROVE  Rest'
<1> DEFINE l == local[p]
           new == local'[p]
<1>1. /\ Moves(p, "write", new) /\ SameOp(l, new)
      /\ new.mem = [l.mem EXCEPT ![l.pkg] = l.ver] /\ l.pkg \in Package
      /\ new.todo = l.todo /\ new.pkg = l.pkg /\ new.ver = l.ver
      /\ new.left = {} /\ new.fd = "tmp"
  BY SaveStep DEF IInv
<1>2. /\ UNCHANGED <<fs, db, broken, troubled, asked>> /\ pc'[p] = "write"
      /\ l.left = {} /\ InWork = {l.pkg} /\ l.mem \in Records /\ l \in Locals
      /\ WorkOf(l, pc[p], fs, db, tmp, broken, troubled) /\ Where(pc[p], l)
  <2>1. pc'[p] = "write"
    BY <1>1 DEF Moves, IInv, TypeOK
  <2> QED
    BY <2>1, Before DEF Save, history
<1>3. pc[p] = IF l.op = "remove" THEN "delete" ELSE "unpack"
  BY DEF Save
<1>4. /\ new.mem[l.pkg] = l.ver
      /\ \A b \in Package \ {l.pkg} : new.mem[b] = l.mem[b]
  BY <1>1, <1>2 DEF Records
<1>5. \A b \in Package : Recorded(new, "write", db, broken \cap troubled, b)
  <2>1. \A b \in Package : Recorded(l, pc[p], db, broken \cap troubled, b)
    BY <1>2, <1>3 DEF WorkOf, MemoryWork
  <2> QED
    BY <1>1, <1>3, <1>4, <2>1 DEF Recorded, SameOp
<1>6. l.todo \subseteq Package
  BY <1>2 DEF Locals
<1>7. ASSUME l.op = "install" PROVE InstallWork(new, "write", db)
  <2>1. /\ InstallWork(l, "unpack", db) /\ l.name \in Package /\ l.first \in Version
        /\ l.ver \in Version
    BY <1>2, <1>3, <1>7 DEF WorkOf, MemoryWork, Where
  <2>2. l.ver # 0 /\ Depends[l.name][l.first] \subseteq Package
    BY <2>1, VersionAssumption, PackageAssumption
  <2>3. \A d \in l.todo : new.mem[d] = 0
    BY <1>4, <1>6, <2>1 DEF InstallWork
  <2>4. l.pkg # l.name => new.mem[l.name] = 0
    BY <1>4, <2>1 DEF InstallWork
  <2>5. \A d \in Depends[l.name][l.first] : d \in l.todo \/ new.mem[d] # 0
    BY <1>4, <2>1, <2>2 DEF InstallWork
  <2> QED
    BY <1>1, <2>1, <2>3, <2>4, <2>5 DEF InstallWork, SameOp, Changing
<1>8. ASSUME l.op = "update" PROVE UpdateWork(new, "write", db)
  <2>1. UpdateWork(l, "unpack", db)
    BY <1>2, <1>3, <1>8 DEF WorkOf, MemoryWork
  <2>2. 0 < db[l.pkg] /\ db[l.pkg] < l.ver
    BY <2>1 DEF UpdateWork, Changing
  <2>3. \A b \in Package : new.mem[b] = db[b] \/ (0 < db[b] /\ db[b] < new.mem[b])
    BY <1>4, <2>1, <2>2 DEF UpdateWork
  <2>4. \A b \in l.todo : new.mem[b] = db[b] /\ 0 < db[b] /\ db[b] < l.new[b]
    BY <1>4, <1>6, <2>1 DEF UpdateWork
  <2> QED
    BY <1>1, <2>1, <2>2, <2>3, <2>4 DEF UpdateWork, SameOp
<1>9. MemoryWork(new, "write", db, broken \cap troubled)
  BY <1>1, <1>2, <1>3, <1>5, <1>7, <1>8 DEF WorkOf, MemoryWork, SameOp, RemoveWork
<1>10. OwnWork(l, pc[p], fs) => OwnWork(new, "write", fs)
  <2>1. CASE l.op = "remove"
    BY <1>1, <1>2, <1>3, <2>1 DEF OwnWork, Changing
  <2>2. CASE l.op # "remove"
    BY <1>1, <1>2, <1>3, <2>2 DEF OwnWork, Changing
  <2> QED
    BY <2>1, <2>2
<1>11. DiskWork(new, "write", fs, db)
  <2>1. CASE l.op = "remove"
    BY <1>1, <1>2, <1>3, <2>1 DEF DiskWork, Files, Where
  <2>2. CASE l.op # "remove"
    BY <1>1, <1>2, <1>3, <2>2 DEF WorkOf, DiskWork
  <2> QED
    BY <2>1, <2>2
<1>12. SaveWork(new, "write", tmp')
  BY <1>1, <1>4 DEF SaveWork
<1>13. WorkOf(new, "write", fs, db, tmp', broken, troubled)
  BY <1>1, <1>2, <1>3, <1>9, <1>10, <1>11, <1>12 DEF WorkOf, SameOp, Changing
<1>14. Working' /\ InWork' = {l.pkg}
  BY <1>1, <1>2, <1>13, After
<1> QED
  BY <1>2, <1>14, Unchanged DEF Rest

LEMMA WriteTmpKeeps ==
  ASSUME OneLysin, IInv, NEW p \in Proc, WriteTmp(p)
  PROVE  Rest'
<1> DEFINE l == local[p]
<1>1. WorkOf(l, "write", fs, db, tmp, broken, troubled) /\ InWork = {l.pkg} /\ pc[p] = "write"
  BY Before DEF WriteTmp
<1>2. l.fd = "tmp"
  BY <1>1 DEF WorkOf, SaveWork
<1>3. /\ UNCHANGED <<fs, db, local, broken, troubled, asked>> /\ pc'[p] = "rename"
      /\ tmp' = l.mem
  BY <1>2 DEF WriteTmp, Goto, history, IInv, TypeOK
<1>4. WorkOf(l, "rename", fs, db, tmp', broken, troubled)
  BY <1>1, <1>3 DEF WorkOf, SaveWork, MemoryWork, Recorded, InstallWork, UpdateWork, DiskWork,
     OwnWork, Changing
<1>5. Working' /\ InWork' = {l.pkg}
  BY <1>1, <1>3, <1>4, After
<1> QED
  BY <1>1, <1>3, <1>5, Unchanged DEF Rest

\* What a save makes the record.
LEMMA RenameFacts ==
  ASSUME OneLysin, IInv, NEW p \in Proc, RenameTmp(p)
  PROVE  LET l == local[p]
         IN  /\ db' = l.mem /\ l.mem \in Records /\ db \in Records
             /\ l.pkg \in Package /\ l.mem[l.pkg] = l.ver /\ l.left = {} /\ InWork = {l.pkg}
             /\ \A a \in Package \ {l.pkg} :
                   \/ l.mem[a] = db[a]
                   \/ l.op = "update" /\ a \in broken \cap troubled
             /\ WorkOf(l, "rename", fs, db, tmp, broken, troubled)
             /\ Where("rename", l)
<1> DEFINE l == local[p]
<1>1. /\ WorkOf(l, "rename", fs, db, tmp, broken, troubled) /\ Where("rename", l)
      /\ l.mem \in Records /\ db \in Records /\ InWork = {l.pkg}
  BY Before DEF RenameTmp
<1>2. db' = l.mem /\ l.mem[l.pkg] = l.ver /\ l.left = {} /\ l.pkg \in Package
  BY <1>1 DEF RenameTmp, WorkOf, SaveWork, Where, Changing
<1>3. \A a \in Package \ {l.pkg} :
         \/ l.mem[a] = db[a]
         \/ l.op = "update" /\ a \in broken \cap troubled
  BY <1>1 DEF WorkOf, MemoryWork, Recorded
<1> QED
  BY <1>1, <1>2, <1>3

\* A record that is there does not go, unless remove takes it.
LEMMA RecordStays ==
  ASSUME OneLysin, IInv, NEW p \in Proc, RenameTmp(p), NEW a \in Package, db[a] # 0,
         local[p].op # "remove" \/ a # local[p].pkg
  PROVE  db'[a] # 0
<1> DEFINE l == local[p]
<1>1. /\ db' = l.mem /\ l.mem \in Records /\ db \in Records /\ Where("rename", l)
      /\ WorkOf(l, "rename", fs, db, tmp, broken, troubled)
  BY RenameFacts
<1>2. CASE l.op = "update"
  <2>1. l.mem[a] = db[a] \/ (0 < db[a] /\ db[a] < l.mem[a])
    BY <1>1, <1>2 DEF WorkOf, MemoryWork, UpdateWork
  <2>2. db[a] \in Nat /\ l.mem[a] \in Nat
    BY <1>1, RecordedVersion
  <2> QED
    BY <1>1, <2>1, <2>2
<1>3. CASE l.op # "update" /\ a # l.pkg
  BY <1>1, <1>3, RenameFacts
<1>4. CASE l.op = "install" /\ a = l.pkg
  BY <1>1, <1>4, RenameFacts, VersionAssumption DEF Where
<1> QED
  BY <1>1, <1>2, <1>3, <1>4 DEF Where, Ops

LEMMA RenameKeepsDeps ==
  ASSUME OneLysin, IInv, NEW p \in Proc, RenameTmp(p)
  PROVE  DepsRecorded'
<1> DEFINE l == local[p]
<1>1. /\ db' = l.mem /\ l.mem \in Records /\ db \in Records /\ Where("rename", l)
      /\ l.mem[l.pkg] = l.ver /\ l.pkg \in Package
      /\ WorkOf(l, "rename", fs, db, tmp, broken, troubled)
  BY RenameFacts
<1> SUFFICES ASSUME NEW a \in asked', NEW d \in Needs(a, db'[a])
             PROVE  db'[d] # 0
  BY DEF DepsRecorded
<1>2. CASE a \in asked \ Orphaned(p) /\ l.mem[a] = db[a]
  <2>1. a \in Package /\ d \in Package /\ d # a
    <3>1. a \in Package /\ db[a] \in Version \cup {0}
      BY <1>1, <1>2, RecordedVersion DEF IInv, TypeOK
    <3> QED
      BY <1>1, <1>2, <3>1, PackageAssumption DEF Needs
  <2>2. d \in Needs(a, db[a]) /\ db[d] # 0
    BY <1>1, <1>2 DEF IInv, DepsRecorded
  <2>3. ASSUME l.op = "remove", d = l.pkg PROVE FALSE
    <3>1. a \in Dependents(db, l.pkg)
      BY <2>1, <2>2, <2>3 DEF Dependents
    <3>2. l.force
      BY <1>1, <2>3, <3>1 DEF WorkOf, MemoryWork, RemoveWork
    <3> QED
      BY <1>2, <2>3, <3>1, <3>2 DEF Orphaned
  <2> QED
    BY <2>1, <2>2, <2>3, RecordStays
<1>3. CASE l.op = "install" /\ l.pkg = l.name /\ l.ver = l.first /\ a = l.name
  <2>1. l.first \in Version /\ l.first # 0
    BY <1>1, <1>3, VersionAssumption DEF Where
  <2>2. d \in Depends[l.name][l.first]
    BY <1>1, <1>3, <2>1 DEF Needs
  <2> QED
    BY <1>1, <1>3, <2>2 DEF WorkOf, MemoryWork, InstallWork
<1> QED
  BY <1>2, <1>3 DEF RenameTmp

LEMMA RenameKeeps ==
  ASSUME OneLysin, IInv, NEW p \in Proc, RenameTmp(p)
  PROVE  Rest'
<1> DEFINE l == local[p]
           new == local'[p]
<1>1. /\ db' = l.mem /\ l.mem \in Records /\ db \in Records /\ Where("rename", l)
      /\ l.mem[l.pkg] = l.ver /\ l.pkg \in Package /\ l.left = {} /\ InWork = {l.pkg}
      /\ \A a \in Package \ {l.pkg} :
            \/ l.mem[a] = db[a]
            \/ l.op = "update" /\ a \in broken \cap troubled
      /\ WorkOf(l, "rename", fs, db, tmp, broken, troubled)
  BY RenameFacts
<1>2. UNCHANGED <<fs, troubled>> /\ broken' = broken \ {l.pkg}
  BY DEF RenameTmp
<1>3. pc'[p] = IF Finished(p) THEN "idle" ELSE "next"
  BY RenameStep DEF IInv, TypeOK
<1>4. Working' /\ InWork' = {None}
  <2>1. CASE Finished(p)
    <3>1. new = NoLocals
      BY <2>1, RenameStep DEF IInv
    <3>2. WorkOf(new, "idle", fs', db', tmp', broken', troubled')
      BY <3>1, NoWork, AtRest
    <3> QED
      BY <1>3, <2>1, <3>1, <3>2, After, NoLocalsTyped
  <2>2. CASE ~Finished(p)
    <3>1. /\ SameOp(l, new) /\ new.mem = l.mem /\ new.todo = l.todo
          /\ new.pkg = None /\ new.ver = 0 /\ new.left = {} /\ new.fd = "none"
          /\ new.todo \subseteq Package
      <4>1. new.todo \subseteq Package
        BY RenameStep DEF IInv, Locals
      <4> QED
        BY <1>1, <2>2, <4>1, RenameStep DEF IInv
    <3>2. l.op \in {"install", "update"}
      BY <1>1, <2>2 DEF Where, Ops, Finished
    <3>3. ASSUME l.op = "install" PROVE InstallWork(new, "next", db')
      <4>1. InstallWork(l, "rename", db) /\ l.pkg # l.name /\ l.name \in Package
        BY <1>1, <2>2, <3>3 DEF WorkOf, MemoryWork, Finished, Where
      <4> QED
        BY <3>1, <4>1, MarkAssumption DEF InstallWork, SameOp, Changing
    <3>4. ASSUME l.op = "update" PROVE UpdateWork(new, "next", db')
      <4>1. UpdateWork(l, "rename", db)
        BY <1>1, <3>4 DEF WorkOf, MemoryWork
      <4> QED
        BY <1>1, <3>1, <4>1, MarkAssumption DEF UpdateWork, SameOp, Changing
    <3>5. MemoryWork(new, "next", db', broken' \cap troubled')
      BY <1>1, <3>1, <3>2, <3>3, <3>4 DEF MemoryWork, Recorded, SameOp
    <3>6. WorkOf(new, "next", fs', db', tmp', broken', troubled')
      BY <3>5, AtRest
    <3> QED
      BY <1>3, <2>2, <3>1, <3>6, After
  <2> QED
    BY <2>1, <2>2
<1>5. DbWhole'
  BY <1>1, MarkAssumption DEF DbWhole, Records
<1>6. FilesPresent'
  <2> SUFFICES ASSUME NEW a \in Package \ broken', NEW f \in Own(a) \cap Files(a, db'[a])
               PROVE  fs[f] = <<a, db'[a]>>
    BY <1>2 DEF FilesPresent
  <2>1. CASE a = l.pkg
    BY <1>1, <2>1 DEF WorkOf, DiskWork
  <2>2. CASE a # l.pkg
    BY <1>1, <1>2, <2>2 DEF IInv, FilesPresent
  <2> QED
    BY <2>1, <2>2
<1>7. NoneLeftBehind'
  <2> SUFFICES ASSUME NEW a \in Package \ troubled, NEW f \in Own(a), fs[f] # None
               PROVE  f \in Files(a, db'[a])
    BY <1>2 DEF NoneLeftBehind
  <2>1. CASE a = l.pkg
    BY <1>1, <2>1 DEF WorkOf, OwnWork, Changing
  <2>2. CASE a # l.pkg
    BY <1>1, <2>2 DEF IInv, NoneLeftBehind
  <2> QED
    BY <2>1, <2>2
<1> QED
  BY <1>4, <1>5, <1>6, <1>7, RenameKeepsDeps DEF Rest

LEMMA EndKeeps ==
  ASSUME OneLysin, IInv, NEW p \in Proc, Stop(p) \/ UpdateFails(p) \/ UpdateDone(p)
  PROVE  Rest'
<1> DEFINE l == local[p]
           new == local'[p]
<1>1. /\ UNCHANGED <<db, tmp, broken, asked>> /\ troubled \subseteq troubled'
      /\ InWork = {l.pkg}
      /\ l.pkg \in Package => l.pkg \in troubled'
  <2>1. UpdateDone(p) => l.pkg = None
    BY Before DEF UpdateDone, Where
  <2> QED
    BY <2>1, Before, MarkAssumption DEF Stop, UpdateFails, UpdateDone, history
<1>2. Working'
  <2>1. CASE Stop(p) \/ UpdateDone(p)
    <3>1. new = NoLocals /\ pc'[p] = "idle"
      BY <2>1 DEF Stop, UpdateDone, Goto, IInv, TypeOK
    <3>2. WorkOf(new, "idle", fs', db', tmp', broken', troubled')
      BY <3>1, NoWork, AtRest
    <3> QED
      BY <3>1, <3>2, After
  <2>2. CASE UpdateFails(p)
    <3>1. /\ SameOp(l, new) /\ new.mem = l.mem /\ new.todo = l.todo
          /\ new.pkg = None /\ new.todo \subseteq Package
      <4>1. new \in Locals
        BY <2>2, UpdateFailsStep DEF IInv
      <4> QED
        BY <2>2, <4>1, UpdateFailsStep DEF IInv, Locals
    <3>2. /\ pc'[p] = "next" /\ l.op = "update" /\ pc[p] \in Changing
          /\ WorkOf(l, pc[p], fs, db, tmp, broken, troubled) /\ l.pkg \in Package
      BY <2>2, Before DEF UpdateFails, Goto, IInv, TypeOK, Changing, Where
    <3>3. /\ UpdateWork(l, pc[p], db) /\ l.pkg \in broken \cap troubled'
          /\ \A a \in Package : Recorded(l, pc[p], db, broken \cap troubled, a)
      BY <1>1, <3>2 DEF WorkOf, MemoryWork, Changing
    <3>4. UpdateWork(new, "next", db)
      BY <3>1, <3>3, MarkAssumption DEF UpdateWork, SameOp, Changing
    <3>5. \A a \in Package : Recorded(new, "next", db, broken' \cap troubled', a)
      BY <1>1, <3>1, <3>2, <3>3 DEF Recorded, SameOp, UpdateWork
    <3>6. MemoryWork(new, "next", db', broken' \cap troubled')
      BY <1>1, <3>1, <3>2, <3>4, <3>5 DEF MemoryWork, SameOp
    <3>7. WorkOf(new, "next", fs', db', tmp', broken', troubled')
      BY <3>6, AtRest
    <3> QED
      BY <3>2, <3>7, After
  <2> QED
    BY <2>1, <2>2
<1>3. DbWhole' /\ FilesPresent' /\ NoneLeftBehind' /\ DepsRecorded'
  <2>1. CASE UNCHANGED fs
    BY <1>1, <2>1, Unchanged
  <2>2. CASE \E f \in l.left : pc[p] = "unpack" /\ fs' = [fs EXCEPT ![f] = Partial]
    <3>1. PICK f \in l.left : pc[p] = "unpack" /\ fs' = [fs EXCEPT ![f] = Partial]
      BY <2>2
    <3>2. l.pkg \in troubled'
      BY <1>1, <3>1, Before DEF Where, Changing
    <3> QED
      BY <1>1, <3>1, <3>2, FileChanged
  <2> QED
    BY <2>1, <2>2 DEF Stop, UpdateFails, UpdateDone, HalfUnpacked
<1> QED
  BY <1>2, <1>3 DEF Rest

-----------------------------------------------------------------------------
(* What one lysin at a time keeps.                                           *)
LEMMA InitInv == Init => IInv
<1> SUFFICES ASSUME Init PROVE IInv
  OBVIOUS
<1>1. Working
  <2> SUFFICES ASSUME NEW p \in Proc
               PROVE  WorkOf(local[p], pc[p], fs, db, tmp, broken, troubled)
    BY DEF Working
  <2> QED
    BY NoWork, AtRest DEF Init
<1>2. DbWhole
  BY MarkAssumption DEF Init, DbWhole, NoRecord
<1>3. FilesPresent /\ NoneLeftBehind /\ DepsRecorded
  BY DEF Init, NoRecord, FilesPresent, NoneLeftBehind, DepsRecorded, Files, Own
<1> QED
  BY <1>1, <1>2, <1>3, InitTyped DEF IInv

LEMMA NextInv == ASSUME OneLysin PROVE IInv /\ [Next]_vars => Rest'
<1> SUFFICES ASSUME IInv, [Next]_vars PROVE Rest'
  OBVIOUS
<1>1. CASE UNCHANGED vars
  BY <1>1 DEF vars, history, IInv, Rest, Working, DbWhole, FilesPresent, NoneLeftBehind,
     DepsRecorded, InWork, WorkOf, SaveWork, MemoryWork, Recorded, InstallWork, UpdateWork,
     RemoveWork, DiskWork, OwnWork
<1>2. ASSUME NEW a \in Package, NEW v \in Version, Publish(a, v) PROVE Rest'
  BY <1>2, PublishKeeps
<1>3. ASSUME NEW p \in Proc, NEW a \in Package,
             Install(p, a) \/ \E force \in BOOLEAN : Remove(p, a, force)
      PROVE  Rest'
  BY <1>3, InstallKeeps, RemoveKeeps
<1>4. ASSUME NEW p \in Proc, NEW a \in Package,
             InstallSingle(p, a) \/ UpdateSingle(p, a) \/ SkipUpdate(p, a)
      PROVE  Rest'
  BY <1>4, InstallSingleKeeps, UpdateSingleKeeps, SkipUpdateKeeps
<1>5. ASSUME NEW p \in Proc, NEW f \in Path, Unpack(p, f) \/ Delete(p, f) \/ DeleteFails(p, f)
      PROVE  Rest'
  BY <1>5, FileStepKeeps
<1>6. ASSUME NEW p \in Proc, Update(p) \/ UnpackUpdate(p) \/ Save(p) \/ WriteTmp(p) \/ RenameTmp(p)
      PROVE  Rest'
  BY <1>6, UpdateKeeps, UnpackUpdateKeeps, SaveKeeps, WriteTmpKeeps, RenameKeeps
<1>7. ASSUME NEW p \in Proc, Stop(p) \/ UpdateFails(p) \/ UpdateDone(p) PROVE Rest'
  BY <1>7, EndKeeps
<1> QED
  BY <1>1, <1>2, <1>3, <1>4, <1>5, <1>6, <1>7 DEF Next

LEMMA InvCorrect == ASSUME OneLysin PROVE Spec => []IInv
<1>1. TypeOK /\ Placed /\ Rest <=> IInv
  BY DEF IInv, Rest
<1> QED
  BY <1>1, InitInv, NextInv, TypeCorrect, PTL DEF Spec

(* installed.db holds a whole database wherever a save stops.                *)
THEOREM DbWholeTheorem == ASSUME OneLysin PROVE Spec => []DbWhole
<1>1. IInv => DbWhole
  BY DEF IInv
<1> QED
  BY <1>1, InvCorrect, PTL

(* The recorded files of a package that no remove or update has left half   *)
(* done are there, whole and of the recorded version, whatever else was     *)
(* killed, failed or was tried again.                                       *)
THEOREM FilesPresentTheorem == ASSUME OneLysin PROVE Spec => []FilesPresent
<1>1. IInv => FilesPresent
  BY DEF IInv
<1> QED
  BY <1>1, InvCorrect, PTL

(* A package on which every operation ran to its end has no file on disk    *)
(* that its record does not list.                                           *)
THEOREM NoneLeftTheorem == ASSUME OneLysin PROVE Spec => []NoneLeftBehind
<1>1. IInv => NoneLeftBehind
  BY DEF IInv
<1> QED
  BY <1>1, InvCorrect, PTL

(* The direct dependencies of a package that was asked for stay recorded    *)
(* until it changes or a --force takes one away.                            *)
THEOREM DepsTheorem == ASSUME OneLysin PROVE Spec => []DepsRecorded
<1>1. IInv => DepsRecorded
  BY DEF IInv
<1> QED
  BY <1>1, InvCorrect, PTL

-----------------------------------------------------------------------------
(* The refinement: a save's rename is one step of PackageDb, and no other   *)
(* step changes the database.                                               *)
LEMMA RenamePromised ==
  ASSUME OneLysin, IInv, NEW p \in Proc, RenameTmp(p)
  PROVE  Promise!Next
<1> DEFINE l == local[p]
<1>1. /\ db' = l.mem /\ l.mem \in Records /\ db \in Records /\ Where("rename", l)
      /\ l.mem[l.pkg] = l.ver /\ l.pkg \in Package
      /\ \A a \in Package \ {l.pkg} :
            \/ l.mem[a] = db[a]
            \/ l.op = "update" /\ a \in broken \cap troubled
      /\ WorkOf(l, "rename", fs, db, tmp, broken, troubled)
  BY RenameFacts
<1>2. CASE l.op = "update"
  <2>1. \A a \in Package : l.mem[a] = db[a] \/ (0 < db[a] /\ db[a] < l.mem[a])
    BY <1>1, <1>2 DEF WorkOf, MemoryWork, UpdateWork
  <2>2. \A a \in Package : db[a] \in Nat /\ l.mem[a] \in Nat
    BY <1>1, RecordedVersion
  <2>3. \A a \in Package : l.mem[a] = db[a] \/ (l.mem[a] > db[a] /\ db[a] > 0)
    BY <2>1, <2>2
  <2> QED
    BY <1>1, <2>3 DEF Promise!Next, Promise!Upgrade, Records
<1>3. CASE l.op # "update"
  <2>1. l.mem = [db EXCEPT ![l.pkg] = l.ver]
    BY <1>1, <1>3 DEF Records
  <2>2. CASE l.op = "remove"
    BY <1>1, <2>1, <2>2 DEF Promise!Next, Promise!Remove, Where
  <2>3. CASE l.op = "install"
    <3>1. db[l.pkg] = 0 /\ l.ver \in Version
      BY <1>1, <2>3 DEF WorkOf, MemoryWork, InstallWork, Where, Changing
    <3> QED
      BY <1>1, <2>1, <3>1 DEF Promise!Next, Promise!Install
  <2> QED
    BY <1>1, <1>3, <2>2, <2>3 DEF Where, Ops
<1> QED
  BY <1>2, <1>3

LEMMA StepPromised ==
  ASSUME OneLysin, IInv, [Next]_vars
  PROVE  Promise!Next \/ UNCHANGED db
<1>1. CASE UNCHANGED vars
  BY <1>1 DEF vars
<1>2. ASSUME NEW p \in Proc, RenameTmp(p) PROVE Promise!Next
  BY <1>2, RenamePromised
<1>3. ASSUME NEW p \in Proc, WriteTmp(p) PROVE UNCHANGED db
  <2>1. local[p].fd = "tmp"
    BY <1>3, Before DEF WriteTmp, WorkOf, SaveWork
  <2> QED
    BY <1>3, <2>1 DEF WriteTmp
<1>4. ASSUME NEW a \in Package, NEW v \in Version, Publish(a, v) PROVE UNCHANGED db
  BY <1>4 DEF Publish
<1>5. ASSUME NEW p \in Proc, NEW a \in Package,
             \/ Install(p, a) \/ InstallSingle(p, a) \/ UpdateSingle(p, a) \/ SkipUpdate(p, a)
             \/ \E force \in BOOLEAN : Remove(p, a, force)
      PROVE  UNCHANGED db
  BY <1>5 DEF Install, InstallSingle, UpdateSingle, SkipUpdate, Remove
<1>6. ASSUME NEW p \in Proc, NEW f \in Path, Unpack(p, f) \/ Delete(p, f) \/ DeleteFails(p, f)
      PROVE  UNCHANGED db
  BY <1>6 DEF Unpack, Delete, DeleteFails
<1>7. ASSUME NEW p \in Proc,
             \/ Update(p) \/ UnpackUpdate(p) \/ UpdateDone(p) \/ UpdateFails(p)
             \/ Save(p) \/ Stop(p)
      PROVE  UNCHANGED db
  BY <1>7 DEF Update, UnpackUpdate, UpdateDone, UpdateFails, Save, Stop
<1> QED
  BY <1>1, <1>2, <1>3, <1>4, <1>5, <1>6, <1>7 DEF Next

(* One lysin at a time implements PackageDb: packages come, move to newer   *)
(* versions and go, each change of the database whole.                      *)
THEOREM Refinement == ASSUME OneLysin PROVE Spec => ImplementsPackageDb
<1>1. Init => Promise!Init
  BY DEF Init, NoRecord, Promise!Init
<1>2. IInv /\ [Next]_vars => [Promise!Next]_db
  BY StepPromised
<1> QED
  BY <1>1, <1>2, InvCorrect, PTL DEF Spec, ImplementsPackageDb, Promise!Spec
=============================================================================
