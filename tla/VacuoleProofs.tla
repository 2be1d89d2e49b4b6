---------------------------- MODULE VacuoleProofs ----------------------------
(***************************************************************************)
(* Theorems about Vacuole, for any processes, contents and references.     *)
(***************************************************************************)
EXTENDS Vacuole, TLAPS

(***************************************************************************)
(* Every step but RemoveRef moves one process.                             *)
(***************************************************************************)
StepOf(p) ==
    \/ \E op \in Ops, c \in Content, n \in RefName : Put(p, op, c, n)
    \/ CreateTmp(p) \/ WriteTmp(p) \/ Rename(p) \/ PutFails(p)
    \/ TruncateRef(p) \/ WriteRef(p)
    \/ \E n \in RefName : ResolveRef(p, n) \/ ListRef(p, n)
    \/ Get(p) \/ Open(p)
    \/ Collect(p) \/ ReadRef(p) \/ Sweep(p) \/ Unlink(p) \/ GcDone(p)
    \/ \E e \in Entry : ListEntry(p, e) \/ MissEntry(p, e)
    \/ Stop(p)

(* What TypeOK says of the process p.                                      *)
TypedLocal(p) ==
    /\ local[p] \in Locals
    /\ pc[p] \in {"idle"} \cup PutSteps \cup ReadSteps \cup GcSteps
    /\ pc[p] \in PutSteps => local[p].op \in Ops /\ local[p].name \in RefName
    /\ pc[p] \in PutSteps \cup ReadSteps => local[p].digest \in Digest
    /\ pc[p] = "readref" => local[p].name \in RefName
    /\ pc[p] = "unlink" => local[p].entry \in Entry

(* A step of p leaves the other processes where they are.                  *)
OnlyMoves(p) == \A q \in Proc \ {p} : pc'[q] = pc[q] /\ local'[q] = local[q]

(* What a step does to the control and the locals of its process.          *)
LEMMA StepMoves ==
    ASSUME TypeOK, NEW p \in Proc, StepOf(p)
    PROVE  /\ TypedLocal(p)'
           /\ pc' \in [Proc -> {"idle"} \cup PutSteps \cup ReadSteps \cup GcSteps]
           /\ local' \in [Proc -> Locals]
           /\ OnlyMoves(p)
<1> DEFINE Typed(r, step) ==
               /\ local' = [local EXCEPT ![p] = r]
               /\ pc' = [pc EXCEPT ![p] = step]
               /\ r \in Locals
               /\ step \in {"idle"} \cup PutSteps \cup ReadSteps \cup GcSteps
               /\ step \in PutSteps => r.op \in Ops /\ r.name \in RefName
               /\ step \in PutSteps \cup ReadSteps => r.digest \in Digest
               /\ step = "readref" => r.name \in RefName
               /\ step = "unlink" => r.entry \in Entry
<1>a. SUFFICES \E r, step : Typed(r, step)
  BY DEF TypeOK, TypedLocal, OnlyMoves
<1> USE DEF PutSteps, ReadSteps, GcSteps, Goto
<1> DEFINE l == local[p]
<1>b. /\ l \in Locals
      /\ l.reachable \in SUBSET Digest
      /\ l.unread \in SUBSET RefName
      /\ l.unswept \in SUBSET Entry
      /\ local = [local EXCEPT ![p] = l]
      /\ pc = [pc EXCEPT ![p] = pc[p]]
  BY DEF TypeOK, Locals
<1>c. Typed(NoLocals, "idle") \/ ~Return(p)
  BY DEF Return, NoLocals, Locals
<1>1. ASSUME NEW op \in Ops, NEW c \in Content, NEW n \in RefName,
              Put(p, op, c, n)
      PROVE  \E r, step : Typed(r, step)
  <2> DEFINE r == [l EXCEPT !.op = op, !.digest = SHA256[c], !.name = n]
  <2>1. SHA256[c] \in Digest
    BY HashAssumption
  <2>2. r \in Locals /\ r.op = op /\ r.digest = SHA256[c] /\ r.name = n
    BY <1>b, <2>1 DEF Locals
  <2>3. local' = [local EXCEPT ![p] = r]
    BY <1>1 DEF Put, TypeOK
  <2>4. \/ pc' = [pc EXCEPT ![p] = "stored"]
        \/ pc' = [pc EXCEPT ![p] = "create"]
    BY <1>1 DEF Put
  <2>5. CASE pc' = [pc EXCEPT ![p] = "stored"]
    <3>1. Typed(r, "stored")
      BY <2>1, <2>2, <2>3, <2>5
    <3>2. QED
      BY <3>1
  <2>6. CASE pc' = [pc EXCEPT ![p] = "create"]
    <3>1. Typed(r, "create")
      BY <2>1, <2>2, <2>3, <2>6
    <3>2. QED
      BY <3>1
  <2>7. QED
    BY <2>4, <2>5, <2>6
<1>2. ASSUME CreateTmp(p) PROVE \E r, step : Typed(r, step)
  <2> DEFINE r == l
  <2>1. r \in Locals
    BY <1>b DEF Locals
  <2>2. Typed(r, "write")
    BY <1>b, <1>2, <2>1 DEF CreateTmp, TypeOK
  <2>3. QED
    BY <2>2
<1>3. ASSUME WriteTmp(p) PROVE \E r, step : Typed(r, step)
  <2> DEFINE r == l
  <2>1. r \in Locals
    BY <1>b DEF Locals
  <2>2. Typed(r, "rename")
    BY <1>b, <1>3, <2>1 DEF WriteTmp, TypeOK
  <2>3. QED
    BY <2>2
<1>4. ASSUME Rename(p) PROVE \E r, step : Typed(r, step)
  <2> DEFINE r == l
  <2>1. r \in Locals
    BY <1>b DEF Locals
  <2>2. Typed(r, "stored")
    BY <1>b, <1>4, <2>1 DEF Rename, TypeOK
  <2>3. QED
    BY <2>2
<1>5. ASSUME TruncateRef(p) PROVE \E r, step : Typed(r, step)
  <2> DEFINE r == l
  <2>1. r \in Locals
    BY <1>b DEF Locals
  <2>2. Typed(r, "addref")
    BY <1>b, <1>5, <2>1 DEF TruncateRef, TypeOK
  <2>3. QED
    BY <2>2
<1>6. ASSUME PutFails(p) \/ WriteRef(p) \/ Open(p) \/ GcDone(p) \/ Stop(p)
      PROVE \E r, step : Typed(r, step)
  BY <1>6, <1>c DEF PutFails, WriteRef, Open, GcDone, Stop
<1>7. ASSUME NEW n \in RefName, ResolveRef(p, n) PROVE \E r, step : Typed(r, step)
  <2> DEFINE r == [l EXCEPT !.digest = refs[n]]
  <2>1. r \in Locals /\ r.digest = refs[n]
    BY <1>b, <1>7 DEF Locals, ResolveRef
  <2>2. Typed(r, "resolved")
    BY <1>b, <1>7, <2>1 DEF ResolveRef, TypeOK
  <2>3. QED
    BY <2>2
<1>8. ASSUME Get(p) PROVE \E r, step : Typed(r, step)
  <2>1. CASE Return(p)
    BY <1>c, <2>1
  <2>2. CASE ~Return(p)
    <3>1. Typed(l, "handle")
      BY <1>8, <2>2, <1>b DEF Get, TypeOK
    <3>2. QED
      BY <3>1
  <2>3. QED
    BY <2>1, <2>2
<1>9. ASSUME Collect(p) PROVE \E r, step : Typed(r, step)
  <2> DEFINE r == [l EXCEPT !.unread = RefName]
  <2>1. r \in Locals
    BY <1>b DEF Locals
  <2>2. Typed(r, "mark")
    BY <1>b, <1>9, <2>1 DEF Collect, TypeOK
  <2>3. QED
    BY <2>2
<1>10. ASSUME NEW n \in RefName, ListRef(p, n) PROVE \E r, step : Typed(r, step)
  <2>1. CASE refs[n] = NoFile
    <3> DEFINE r == [l EXCEPT !.unread = @ \ {n}]
    <3>1. r \in Locals
      BY <1>b DEF Locals
    <3>2. Typed(r, "mark")
      BY <1>b, <1>10, <2>1, <3>1 DEF ListRef, TypeOK
    <3>3. QED
      BY <3>2
  <2>2. CASE refs[n] # NoFile
    <3> DEFINE r == [l EXCEPT !.unread = @ \ {n}, !.name = n]
    <3>1. r \in Locals /\ r.name = n
      BY <1>b DEF Locals
    <3>2. Typed(r, "readref")
      BY <1>b, <1>10, <2>2, <3>1 DEF ListRef, TypeOK
    <3>3. QED
      BY <3>2
  <2>3. QED
    BY <2>1, <2>2
<1>11. ASSUME ReadRef(p) PROVE \E r, step : Typed(r, step)
  <2> DEFINE ref == refs[l.name]
  <2>1. CASE ref = NoFile
    BY <1>11, <1>c, <2>1 DEF ReadRef
  <2>2. CASE ref # NoFile
    <3> DEFINE r == [l EXCEPT !.reachable = @ \cup ({ref} \cap Digest), !.name = NoFile]
    <3>1. r \in Locals
      BY <1>b DEF Locals
    <3>2. Typed(r, "mark")
      BY <1>b, <1>11, <2>2, <3>1 DEF ReadRef, TypeOK
    <3>3. QED
      BY <3>2
  <2>3. QED
    BY <2>1, <2>2
<1>12. ASSUME Sweep(p) PROVE \E r, step : Typed(r, step)
  <2> DEFINE r == [l EXCEPT !.unswept = {e \in Entry : Exists(e) /\ Garbage(p, e)}]
  <2>1. r \in Locals
    BY <1>b DEF Locals
  <2>2. Typed(r, "sweep")
    BY <1>b, <1>12, <2>1 DEF Sweep, TypeOK
  <2>3. QED
    BY <2>2
<1>13. ASSUME NEW e \in Entry, ListEntry(p, e) PROVE \E r, step : Typed(r, step)
  <2> DEFINE r == [l EXCEPT !.unswept = @ \ {e}, !.entry = e]
  <2>1. r \in Locals /\ r.entry = e
    BY <1>b DEF Locals
  <2>2. Typed(r, "unlink")
    BY <1>b, <1>13, <2>1 DEF ListEntry, TypeOK
  <2>3. QED
    BY <2>2
<1>14. ASSUME NEW e \in Entry, MissEntry(p, e) PROVE \E r, step : Typed(r, step)
  <2> DEFINE r == [l EXCEPT !.unswept = @ \ {e}]
  <2>1. r \in Locals
    BY <1>b DEF Locals
  <2>2. Typed(r, "sweep")
    BY <1>b, <1>14, <2>1 DEF MissEntry, TypeOK
  <2>3. QED
    BY <2>2
<1>15. ASSUME Unlink(p) PROVE \E r, step : Typed(r, step)
  <2>1. CASE Return(p)
    BY <1>c, <2>1
  <2>2. CASE ~Return(p)
    <3> DEFINE r == [l EXCEPT !.entry = NoFile]
    <3>1. r \in Locals
      BY <1>b DEF Locals
    <3>2. Typed(r, "sweep")
      BY <1>b, <1>15, <2>2, <3>1 DEF Unlink, TypeOK
    <3>3. QED
      BY <3>2
  <2>3. QED
    BY <2>1, <2>2
<1>16. QED
  BY <1>1, <1>2, <1>3, <1>4, <1>5, <1>6, <1>7, <1>8, <1>9, <1>10, <1>11, <1>12, <1>13, <1>14,
     <1>15 DEF StepOf

(***************************************************************************)
(* Every reachable state has the declared types.                           *)
(***************************************************************************)
LEMMA InitTyped == Init => TypeOK
BY DEF Init, TypeOK, Locals, NoLocals, PutSteps, ReadSteps, GcSteps

(* Every step, a killed call's too, keeps the declared types: each call    *)
(* has the locals its next step reads.                                     *)
LEMMA NextTyped == TypeOK /\ [Next]_vars => TypeOK'
<1> SUFFICES ASSUME TypeOK, [Next]_vars PROVE TypeOK'
  OBVIOUS
<1>1. ASSUME NEW p \in Proc, StepOf(p) PROVE TypeOK'
  <2>1. /\ files' \in [Entry -> Content \cup {NoFile, Partial}]
        /\ refs' \in [RefName -> Digest \cup {NoFile, Partial}]
        /\ linked' \in SUBSET Proc
        /\ steady' \in [Proc -> SUBSET RefName]
    <3> USE DEF TypeOK
    <3>1. CASE WriteTmp(p)
      BY <3>1 DEF WriteTmp, Goto
    <3>2. CASE Rename(p)
      <4>1. Tmp(p) \in Entry
        BY <3>2 DEF Rename, Tmp, Entry, PutSteps
      <4>2. QED
        BY <3>2, <4>1 DEF Rename
    <3>3. CASE CreateTmp(p) \/ PutFails(p)
      BY <3>3 DEF CreateTmp, PutFails, Return
    <3>4. CASE TruncateRef(p) \/ WriteRef(p)
      BY <3>4 DEF TruncateRef, WriteRef, Touch, Return, PutSteps
    <3>5. CASE Unlink(p)
      BY <3>5 DEF Unlink, Return
    <3>6. CASE \/ \E op \in Ops, c \in Content, n \in RefName : Put(p, op, c, n)
               \/ \E n \in RefName : ResolveRef(p, n) \/ ListRef(p, n)
               \/ Get(p) \/ Open(p) \/ Collect(p) \/ ReadRef(p) \/ Sweep(p)
               \/ GcDone(p) \/ Stop(p)
               \/ \E e \in Entry : ListEntry(p, e) \/ MissEntry(p, e)
      BY <3>6 DEF Put, ResolveRef, ListRef, Get, Open, Collect, ReadRef, Sweep, GcDone,
                  Stop, ListEntry, MissEntry, Return
    <3>7. QED
      BY <1>1, <3>1, <3>2, <3>3, <3>4, <3>5, <3>6 DEF StepOf
  <2>2. ASSUME NEW q \in Proc PROVE TypedLocal(q)'
    <3>1. CASE q = p
      BY <1>1, <3>1, StepMoves
    <3>2. CASE q # p
      <4>1. TypedLocal(q)
        BY DEF TypeOK, TypedLocal
      <4>2. OnlyMoves(p)
        BY <1>1, StepMoves
      <4>3. QED
        BY <3>2, <4>1, <4>2 DEF TypedLocal, OnlyMoves
    <3>3. QED
      BY <3>1, <3>2
  <2>3. /\ pc' \in [Proc -> {"idle"} \cup PutSteps \cup ReadSteps \cup GcSteps]
        /\ local' \in [Proc -> Locals]
    BY <1>1, StepMoves
  <2>4. QED
    BY <2>1, <2>2, <2>3 DEF TypeOK, TypedLocal
<1>2. ASSUME NEW p \in Proc, NEW n \in RefName, RemoveRef(p, n) PROVE TypeOK'
  BY <1>2 DEF TypeOK, RemoveRef, Touch
<1>3. CASE UNCHANGED vars
  BY <1>3 DEF TypeOK, vars
<1>4. QED
  BY <1>1, <1>2, <1>3 DEF Next, StepOf

(* Every reachable state has the declared types: TypeOK is an invariant of *)
(* the store, for any processes, contents and names.                       *)
THEOREM TypeCorrect == Spec => []TypeOK
BY InitTyped, NextTyped, PTL DEF Spec

(***************************************************************************)
(* Objects are intact.  ObjectsIntact alone is not inductive: what Rename  *)
(* publishes is what the tmp file holds, so the invariant must say what a  *)
(* writer about to rename has in its tmp file, unless a gc took the file.  *)
(***************************************************************************)
WrittenTmp(p) ==
    pc[p] = "rename" /\ Exists(Tmp(p)) =>
        /\ files[Tmp(p)] \in Content
        /\ local[p].op = "put_bytes" => SHA256[files[Tmp(p)]] = local[p].digest

IntactInv == ObjectsIntact /\ \A p \in Proc : WrittenTmp(p)

(* Steps that leave every file of objects/ alone or remove it, and bring   *)
(* no writer to its rename.                                                *)
LEMMA IntactKept ==
    ASSUME TypeOK, IntactInv,
           \A e \in Entry : files'[e] \in {files[e], NoFile},
           \A p \in Proc : pc'[p] = "rename" => pc[p] = "rename" /\ local'[p] = local[p]
    PROVE  IntactInv'
<1>1. ObjectsIntact'
  BY DEF IntactInv, ObjectsIntact, Exists, Obj, Entry
<1>2. ASSUME NEW p \in Proc PROVE WrittenTmp(p)'
  <2>1. CASE pc'[p] = "rename"
    <3>1. Tmp(p) \in Entry /\ Tmp(p)' = Tmp(p)
      BY <2>1 DEF TypeOK, Tmp, Entry, PutSteps
    <3>2. QED
      BY <2>1, <3>1 DEF IntactInv, WrittenTmp, Exists
  <2>2. QED
    BY <2>1 DEF WrittenTmp
<1>3. QED
  BY <1>1, <1>2 DEF IntactInv

(* Every step keeps objects intact: an object only ever comes by the       *)
(* rename of a tmp file that holds what its digest says.                   *)
LEMMA NextIntact == TypeOK /\ IntactInv /\ [Next]_vars => IntactInv'
<1> SUFFICES ASSUME TypeOK, IntactInv, [Next]_vars PROVE IntactInv'
  OBVIOUS
<1>1. ASSUME NEW p \in Proc, NEW q \in Proc, p # q,
             pc[p] \in PutSteps, pc[q] \in PutSteps
      PROVE  Tmp(p) # Tmp(q)
  BY <1>1 DEF Tmp
<1>2. ASSUME NEW p \in Proc, NEW d \in Digest PROVE Tmp(p) # Obj(d)
  BY ValueAssumption DEF Tmp, Obj
<1>3. ASSUME NEW p \in Proc, CreateTmp(p) PROVE IntactInv'
  <2>1. ObjectsIntact'
    BY <1>2, <1>3 DEF CreateTmp, IntactInv, ObjectsIntact, Exists, TypeOK, Entry, Obj
  <2>2. ASSUME NEW q \in Proc PROVE WrittenTmp(q)'
    BY <1>1, <1>3, <2>2 DEF CreateTmp, Goto, IntactInv, WrittenTmp, Exists, TypeOK, Tmp,
                            PutSteps, Entry
  <2>3. QED
    BY <2>1, <2>2 DEF IntactInv
<1>4. ASSUME NEW p \in Proc, WriteTmp(p) PROVE IntactInv'
  <2>1. ObjectsIntact'
    BY <1>2, <1>4 DEF WriteTmp, IntactInv, ObjectsIntact, Exists, TypeOK, Entry, Obj
  <2>2. WrittenTmp(p)'
    BY <1>4 DEF WriteTmp, WrittenTmp, Exists, TypeOK, Tmp, Entry, PutSteps
  <2>3. ASSUME NEW q \in Proc \ {p} PROVE WrittenTmp(q)'
    BY <1>1, <1>4, <2>3 DEF WriteTmp, Goto, IntactInv, WrittenTmp, Exists, TypeOK, Tmp,
                            PutSteps, Entry
  <2>4. QED
    BY <2>1, <2>2, <2>3 DEF IntactInv
<1>5. ASSUME NEW p \in Proc, Rename(p) PROVE IntactInv'
  <2> DEFINE d == local[p].digest
  <2>1. d \in Digest /\ local[p].op \in Ops /\ Tmp(p) \in Entry /\ Obj(d) \in Entry
    BY <1>5 DEF Rename, TypeOK, PutSteps, Tmp, Obj, Entry
  <2>2. files[Tmp(p)] \in Content /\ SHA256[files[Tmp(p)]] = d
    BY <1>5, <2>1 DEF Rename, Verified, IntactInv, WrittenTmp, Ops
  <2>3. files' = [files EXCEPT ![Obj(d)] = files[Tmp(p)], ![Tmp(p)] = NoFile]
    BY <1>5 DEF Rename
  <2>4. ASSUME NEW e \in Digest, Exists(Obj(e))' 
        PROVE  files'[Obj(e)] \in Content /\ SHA256[files'[Obj(e)]] = e
    <3>1. Obj(e) \in Entry /\ Obj(e) # Tmp(p)
      BY <1>2 DEF Obj, Entry
    <3>2. CASE e = d
      BY <1>2, <2>1, <2>2, <2>3, <3>1, <3>2 DEF TypeOK
    <3>3. CASE e # d
      <4>1. files'[Obj(e)] = files[Obj(e)]
        BY <2>1, <2>3, <3>1, <3>3 DEF TypeOK, Obj
      <4>2. QED
        BY <2>4, <4>1 DEF IntactInv, ObjectsIntact, Exists, Obj
    <3>4. QED
      BY <3>2, <3>3
  <2>5. ASSUME NEW q \in Proc PROVE WrittenTmp(q)'
    <3>1. CASE q = p
      BY <1>5, <3>1 DEF Rename, Goto, WrittenTmp, TypeOK
    <3>2. CASE q # p /\ pc[q] = "rename"
      <4>1. Tmp(q) \in Entry /\ Tmp(q) # Tmp(p) /\ Tmp(q) # Obj(d) /\ Tmp(q)' = Tmp(q)
        BY <1>1, <1>2, <1>5, <2>1, <3>2 DEF Rename, TypeOK, PutSteps, Tmp, Entry
      <4>2. QED
        BY <1>5, <2>3, <3>2, <4>1 DEF Rename, Goto, IntactInv, WrittenTmp, Exists, TypeOK
    <3>3. CASE q # p /\ pc[q] # "rename"
      BY <1>5, <3>3 DEF Rename, Goto, WrittenTmp, TypeOK
    <3>4. QED
      BY <3>1, <3>2, <3>3
  <2>6. QED
    BY <2>4, <2>5 DEF IntactInv, ObjectsIntact
<1>6. ASSUME NEW p \in Proc,
             \/ PutFails(p) \/ TruncateRef(p) \/ WriteRef(p) \/ Get(p) \/ Open(p)
             \/ Collect(p) \/ ReadRef(p) \/ Sweep(p) \/ Unlink(p) \/ GcDone(p) \/ Stop(p)
      PROVE  IntactInv'
  <2>1. \A e \in Entry : files'[e] \in {files[e], NoFile}
    BY <1>6 DEF PutFails, TruncateRef, WriteRef, Get, Open, Collect, ReadRef, Sweep,
                Unlink, GcDone, Stop, TypeOK
  <2>2. ASSUME NEW q \in Proc, pc'[q] = "rename"
        PROVE  pc[q] = "rename" /\ local'[q] = local[q]
    BY <1>6, <2>2 DEF PutFails, TruncateRef, WriteRef, Get, Open, Collect, ReadRef, Sweep,
                Unlink, GcDone, Stop, Return, Goto, TypeOK
  <2>3. QED
    BY <2>1, <2>2, IntactKept
<1>7. ASSUME NEW p \in Proc,
             \/ \E op \in Ops, c \in Content, n \in RefName : Put(p, op, c, n)
             \/ \E n \in RefName : RemoveRef(p, n) \/ ResolveRef(p, n) \/ ListRef(p, n)
             \/ \E e \in Entry : ListEntry(p, e) \/ MissEntry(p, e)
      PROVE  IntactInv'
  <2>1. \A e \in Entry : files'[e] \in {files[e], NoFile}
    BY <1>7 DEF Put, RemoveRef, ResolveRef, ListRef, ListEntry, MissEntry
  <2>2. ASSUME NEW q \in Proc, pc'[q] = "rename"
        PROVE  pc[q] = "rename" /\ local'[q] = local[q]
    BY <1>7, <2>2 DEF Put, RemoveRef, ResolveRef, ListRef, ListEntry, MissEntry, Goto, TypeOK
  <2>3. QED
    BY <2>1, <2>2, IntactKept
<1>8. CASE UNCHANGED vars
  BY <1>8 DEF vars, IntactInv, ObjectsIntact, WrittenTmp, Exists, Tmp, Obj
<1>9. QED
  BY <1>3, <1>4, <1>5, <1>6, <1>7, <1>8 DEF Next

(* In every reachable state, objects are complete and match their digest.  *)
THEOREM IntactCorrect == Spec => []ObjectsIntact
<1>1. Init => IntactInv
  BY DEF Init, IntactInv, ObjectsIntact, WrittenTmp, Exists, Obj, Entry
<1>2. IntactInv => ObjectsIntact
  BY DEF IntactInv
<1>3. QED
  BY <1>1, <1>2, TypeCorrect, NextIntact, PTL DEF Spec

(***************************************************************************)
(* A gc spares what has been referenced since it began.  A name that was   *)
(* not written since then is still to be read, being read, or read: once   *)
(* the marking ends, the gc knows its digest.                              *)
(***************************************************************************)
Marked(p, n) ==
    \/ refs[n] \in local[p].reachable
    \/ pc[p] \in {"mark", "readref"} /\ n \in local[p].unread
    \/ pc[p] = "readref" /\ n = local[p].name

MarkInv == \A p \in Proc :
    /\ pc[p] \notin GcSteps => steady[p] = {}
    /\ \A n \in steady[p] : refs[n] \in Digest => Marked(p, n)
    /\ pc[p] = "unlink" /\ local[p].entry[1] = Object =>
           local[p].entry[2] \notin local[p].reachable

(* Steps of others, which may rewrite a reference but then touch it.       *)
LEMMA MarkKept ==
    ASSUME NEW p \in Proc, MarkInv,
           pc'[p] = pc[p], local'[p] = local[p],
           steady'[p] \subseteq steady[p],
           \A n \in steady'[p] : refs'[n] = refs[n]
    PROVE  /\ pc'[p] \notin GcSteps => steady'[p] = {}
           /\ \A n \in steady'[p] : refs'[n] \in Digest => Marked(p, n)'
           /\ pc'[p] = "unlink" /\ local'[p].entry[1] = Object =>
                  local'[p].entry[2] \notin local'[p].reachable
BY DEF MarkInv, Marked

(* A process that is not collecting, before the step and after it.         *)
LEMMA NotMarking ==
    ASSUME NEW p \in Proc, pc'[p] \notin GcSteps, steady'[p] = {}
    PROVE  /\ pc'[p] \notin GcSteps => steady'[p] = {}
           /\ \A n \in steady'[p] : refs'[n] \in Digest => Marked(p, n)'
           /\ pc'[p] = "unlink" /\ local'[p].entry[1] = Object =>
                  local'[p].entry[2] \notin local'[p].reachable
BY DEF GcSteps

(* Every step keeps what a gc knows: a reference it has read and that was  *)
(* not touched since is among the digests it marked.                       *)
LEMMA NextMarks == TypeOK /\ MarkInv /\ [Next]_vars => MarkInv'
<1> SUFFICES ASSUME TypeOK, MarkInv, [Next]_vars, NEW p \in Proc
             PROVE  /\ pc'[p] \notin GcSteps => steady'[p] = {}
                    /\ \A n \in steady'[p] : refs'[n] \in Digest => Marked(p, n)'
                    /\ pc'[p] = "unlink" /\ local'[p].entry[1] = Object =>
                           local'[p].entry[2] \notin local'[p].reachable
  BY DEF MarkInv
<1> DEFINE Goal == /\ pc'[p] \notin GcSteps => steady'[p] = {}
                   /\ \A n \in steady'[p] : refs'[n] \in Digest => Marked(p, n)'
                   /\ pc'[p] = "unlink" /\ local'[p].entry[1] = Object =>
                          local'[p].entry[2] \notin local'[p].reachable
<1>1. ASSUME NEW q \in Proc \ {p}, StepOf(q) PROVE Goal
  <2>1. pc'[p] = pc[p] /\ local'[p] = local[p]
    BY <1>1, StepMoves DEF OnlyMoves
  <2>2. /\ steady'[p] \subseteq steady[p]
        /\ \A n \in steady'[p] : refs'[n] = refs[n]
    <3>1. CASE TruncateRef(q) \/ WriteRef(q)
      BY <3>1 DEF TruncateRef, WriteRef, Touch, TypeOK
    <3>2. CASE ~(TruncateRef(q) \/ WriteRef(q))
      <4>1. refs' = refs
        BY <1>1, <3>2 DEF StepOf, Put, CreateTmp, WriteTmp, Rename, PutFails, ResolveRef,
              ListRef, Get, Open, Collect, ReadRef, Sweep, Unlink, GcDone, ListEntry,
              MissEntry, Stop
      <4>2. \/ steady' = steady
            \/ \E X \in SUBSET RefName : steady' = [steady EXCEPT ![q] = X]
        BY <1>1, <3>2 DEF StepOf, Put, CreateTmp, WriteTmp, Rename, PutFails, ResolveRef,
              ListRef, Get, Open, Collect, ReadRef, Sweep, Unlink, GcDone, ListEntry,
              MissEntry, Stop
      <4>3. QED
        BY <4>1, <4>2 DEF TypeOK
    <3>3. QED
      BY <3>1, <3>2
  <2>3. QED
    BY <2>1, <2>2, MarkKept
<1>2. ASSUME NEW q \in Proc, NEW n \in RefName, RemoveRef(q, n) PROVE Goal
  <2>1. pc'[p] = pc[p] /\ local'[p] = local[p]
    BY <1>2 DEF RemoveRef
  <2>2. /\ steady'[p] \subseteq steady[p]
        /\ \A m \in steady'[p] : refs'[m] = refs[m]
    BY <1>2 DEF RemoveRef, Touch, TypeOK
  <2>3. QED
    BY <2>1, <2>2, MarkKept
<1>3. CASE \/ \E op \in Ops, c \in Content, n \in RefName : Put(p, op, c, n)
           \/ CreateTmp(p) \/ WriteTmp(p) \/ Rename(p) \/ PutFails(p) \/ TruncateRef(p)
           \/ WriteRef(p) \/ (\E n \in RefName : ResolveRef(p, n)) \/ Get(p) \/ Open(p)
  <2>1. pc[p] \notin GcSteps /\ pc'[p] \notin GcSteps
    BY <1>3 DEF Put, CreateTmp, WriteTmp, Rename, PutFails, TruncateRef, WriteRef,
                ResolveRef, Get, Open, Return, Goto, MayStart, TypeOK, GcSteps
  <2>2. steady[p] = {}
    BY <2>1 DEF MarkInv
  <2>3. steady'[p] = {}
    <3>1. CASE TruncateRef(p) \/ WriteRef(p)
      BY <2>2, <3>1 DEF TruncateRef, WriteRef, Touch
    <3>2. CASE ~(TruncateRef(p) \/ WriteRef(p))
      BY <1>3, <2>2, <3>2 DEF Put, CreateTmp, WriteTmp, Rename, PutFails, ResolveRef,
                              Get, Open
    <3>3. QED
      BY <3>1, <3>2
  <2>4. QED
    BY <2>1, <2>3, NotMarking
<1>4. CASE GcDone(p) \/ Stop(p)
  <2>1. pc'[p] \notin GcSteps /\ steady'[p] = {}
    BY <1>4 DEF GcDone, Stop, Return, Goto, TypeOK, GcSteps
  <2>2. QED
    BY <2>1, NotMarking
<1>5. CASE Collect(p)
  <2>1. pc'[p] = "mark" /\ local'[p].unread = RefName /\ steady'[p] \subseteq RefName
    BY <1>5 DEF Collect, Goto, TypeOK, Locals
  <2>2. QED
    BY <2>1 DEF Marked, GcSteps
<1>6. CASE \E n \in RefName : ListRef(p, n)
  <2>1. PICK n \in RefName : ListRef(p, n)
    BY <1>6
  <2>2. /\ pc[p] = "mark" /\ steady' = steady /\ refs' = refs
        /\ local'[p].unread = local[p].unread \ {n}
        /\ local'[p].reachable = local[p].reachable
    BY <2>1 DEF ListRef, TypeOK, Locals
  <2>3. \/ refs[n] = NoFile /\ pc'[p] = "mark"
        \/ pc'[p] = "readref" /\ local'[p].name = n
    BY <2>1 DEF ListRef, Goto, TypeOK, Locals
  <2>4. QED
    BY <2>2, <2>3, ValueAssumption DEF MarkInv, Marked, GcSteps
<1>7. CASE ReadRef(p)
  <2>1. CASE refs[local[p].name] = NoFile
    <3>1. pc'[p] \notin GcSteps /\ steady'[p] = {}
      BY <1>7, <2>1 DEF ReadRef, Return, Goto, TypeOK, GcSteps
    <3>2. QED
      BY <3>1, NotMarking
  <2>2. CASE refs[local[p].name] # NoFile
    <3>1. /\ pc[p] = "readref" /\ pc'[p] = "mark" /\ steady' = steady /\ refs' = refs
          /\ local'[p].unread = local[p].unread
          /\ local'[p].reachable =
                 local[p].reachable \cup ({refs[local[p].name]} \cap Digest)
      BY <1>7, <2>2 DEF ReadRef, Goto, TypeOK, Locals
    <3>2. QED
      BY <3>1 DEF MarkInv, Marked, GcSteps
  <2>3. QED
    BY <2>1, <2>2
<1>8. CASE Sweep(p)
  <2>1. /\ pc[p] = "mark" /\ pc'[p] = "sweep" /\ steady' = steady /\ refs' = refs
        /\ local[p].unread = {}
        /\ local'[p].reachable = local[p].reachable
    BY <1>8 DEF Sweep, Goto, TypeOK, Locals
  <2>2. QED
    BY <2>1 DEF MarkInv, Marked, GcSteps
<1>9. CASE \E e \in Entry : ListEntry(p, e) \/ MissEntry(p, e)
  <2>1. PICK e \in Entry : ListEntry(p, e) \/ MissEntry(p, e)
    BY <1>9
  <2>2. /\ pc[p] = "sweep" /\ pc'[p] \in {"sweep", "unlink"}
        /\ steady' = steady /\ refs' = refs
        /\ local'[p].reachable = local[p].reachable
        /\ pc'[p] = "unlink" => local'[p].entry = e /\ Garbage(p, e)
    BY <2>1 DEF ListEntry, MissEntry, Goto, TypeOK, Locals
  <2>3. QED
    BY <2>2 DEF MarkInv, Marked, Garbage, GcSteps
<1>10. CASE Unlink(p)
  <2>1. CASE pc'[p] = "idle"
    <3>1. steady'[p] = {}
      BY <1>10, <2>1 DEF Unlink, Goto, TypeOK
    <3>2. QED
      BY <2>1, <3>1, NotMarking DEF GcSteps
  <2>2. CASE pc'[p] # "idle"
    <3>1. /\ pc[p] = "unlink" /\ pc'[p] = "sweep" /\ steady' = steady /\ refs' = refs
          /\ local'[p].reachable = local[p].reachable
      BY <1>10, <2>2 DEF Unlink, Return, Goto, TypeOK, Locals
    <3>2. QED
      BY <3>1 DEF MarkInv, Marked, GcSteps
  <2>3. QED
    BY <2>1, <2>2
<1>11. CASE UNCHANGED vars
  BY <1>11, MarkKept DEF vars
<1>12. QED
  BY <1>1, <1>2, <1>3, <1>4, <1>5, <1>6, <1>7, <1>8, <1>9, <1>10, <1>11 DEF Next, StepOf

(* In every reachable state, a gc has marked what the references it has    *)
(* read, and nobody has touched, name.                                     *)
LEMMA MarkCorrect == Spec => []MarkInv
<1>1. Init => MarkInv
  BY DEF Init, MarkInv, GcSteps
<1>2. QED
  BY <1>1, TypeCorrect, NextMarks, PTL DEF Spec

(* A gc removes no object that a reference has named ever since it began.  *)
THEOREM GcSparesRootedCorrect == Spec => GcSparesRooted
<1>1. ASSUME TypeOK, MarkInv, NEW p \in Proc, NEW n \in RefName,
             Unlink(p), n \in steady[p], refs[n] \in Digest, Exists(Obj(refs[n]))
      PROVE  Exists(Obj(refs[n]))'
  <2> DEFINE e == local[p].entry
  <2>1. pc[p] = "unlink" /\ refs' = refs
    BY <1>1 DEF Unlink
  <2>2. refs[n] \in local[p].reachable
    BY <1>1, <2>1 DEF MarkInv, Marked
  <2>3. e # Obj(refs[n])
    BY <1>1, <2>1, <2>2 DEF MarkInv, Obj
  <2>4. files' = files \/ files' = [files EXCEPT ![e] = NoFile]
    BY <1>1 DEF Unlink
  <2>5. Obj(refs[n]) \in Entry
    BY <1>1 DEF Obj, Entry
  <2>6. QED
    BY <1>1, <2>1, <2>3, <2>4, <2>5 DEF Exists, Obj, TypeOK
<1>2. TypeOK /\ MarkInv /\ [Next]_vars
        => [\A p \in Proc, n \in RefName :
             /\ Unlink(p)
             /\ n \in steady[p]
             /\ refs[n] \in Digest
             /\ Exists(Obj(refs[n]))
             => Exists(Obj(refs[n]))']_vars
  BY <1>1
<1>3. QED
  BY <1>2, TypeCorrect, MarkCorrect, PTL DEF Spec, GcSparesRooted

(***************************************************************************)
(* What holds when gc is only run while the store is idle.                 *)
(***************************************************************************)
QuietInv ==
    \* a gc is alone, so no reference it has read is rewritten before it ends;
    /\ \A p \in Proc : pc[p] \in GcSteps =>
          /\ \A q \in Proc \ {p} : pc[q] = "idle"
          /\ steady[p] = RefName
    \* what a writer is about to name, and what a reader was told of, is there.
    /\ \A p \in Proc : pc[p] \in {"stored", "addref"} => Exists(Obj(local[p].digest))
    /\ ReadersServed
    /\ RefsResolve

(* Only Unlink takes objects away.                                         *)
LEMMA ObjectsStay ==
    ASSUME TypeOK, NEW p \in Proc, StepOf(p), ~Unlink(p), NEW d \in Digest,
           Exists(Obj(d))
    PROVE  Exists(Obj(d))'
<1> USE DEF Exists, Obj
<1>1. Obj(d) \in Entry /\ Obj(d) # Tmp(p)
  BY ValueAssumption DEF Entry, Tmp
<1>2. CASE CreateTmp(p) \/ PutFails(p)
  BY <1>1, <1>2 DEF CreateTmp, PutFails, TypeOK
<1>3. CASE WriteTmp(p)
  BY <1>1, <1>3 DEF WriteTmp, TypeOK
<1>4. CASE Rename(p)
  <2> DEFINE o == Obj(local[p].digest)
  <2>1. o \in Entry /\ Tmp(p) # o
    BY <1>4, ValueAssumption DEF Rename, TypeOK, Entry, Tmp, PutSteps
  <2>2. files' = [files EXCEPT ![o] = files[Tmp(p)], ![Tmp(p)] = NoFile]
    BY <1>4 DEF Rename
  <2>3. files'[Obj(d)] \in {files[Obj(d)], files[Tmp(p)]}
    BY <1>1, <2>1, <2>2 DEF TypeOK
  <2>4. QED
    BY <1>4, <2>3 DEF Rename
<1>5. CASE files' = files
  BY <1>5
<1>6. QED
  BY <1>2, <1>3, <1>4, <1>5 DEF StepOf, Put, TruncateRef, WriteRef, ResolveRef, ListRef, Get,
     Open, Collect, ReadRef, Sweep, GcDone, ListEntry, MissEntry, Stop

(* An unlink, whose gc is alone with the store, removes nothing that a     *)
(* reference or a running call relies on: it takes only unmarked objects.  *)
LEMMA QuietUnlink ==
    ASSUME TypeOK, MarkInv, QuietInv, NEW p \in Proc, Unlink(p) PROVE QuietInv'
<1>1. pc[p] = "unlink" /\ refs' = refs /\ pc[p] \in GcSteps
  BY DEF Unlink, GcSteps
<1>2. \A q \in Proc \ {p} : pc'[q] = "idle"
  <2>1. OnlyMoves(p)
    BY StepMoves DEF StepOf
  <2>2. QED
    BY <1>1, <2>1 DEF QuietInv, OnlyMoves
<1>3. pc'[p] = "idle" \/ (pc'[p] = "sweep" /\ steady' = steady)
  BY DEF Unlink, Return, Goto, TypeOK
<1>4. RefsResolve'
  <2> SUFFICES ASSUME NEW n \in RefName, refs[n] \in Digest PROVE Exists(Obj(refs[n]))'
    BY <1>1 DEF RefsResolve, Exists, Obj
  <2>1. refs[n] \in local[p].reachable
    BY <1>1 DEF QuietInv, MarkInv, Marked
  <2>2. local[p].entry # Obj(refs[n])
    BY <1>1, <2>1 DEF MarkInv, Obj
  <2>3. files' = files \/ files' = [files EXCEPT ![local[p].entry] = NoFile]
    BY DEF Unlink
  <2>4. Obj(refs[n]) \in Entry /\ Exists(Obj(refs[n]))
    BY DEF Obj, Entry, QuietInv, RefsResolve
  <2>5. QED
    BY <1>1, <2>2, <2>3, <2>4 DEF Exists, Obj, TypeOK
<1>5. QED
  BY <1>1, <1>2, <1>3, <1>4 DEF QuietInv, ReadersServed, ReadSteps, GcSteps

(* With gc run only while the store is idle, every step keeps what calls   *)
(* rely on: the object they stored or resolved is there.                   *)
LEMMA NextQuiet ==
    ASSUME QuietGC PROVE TypeOK /\ MarkInv /\ QuietInv /\ [Next]_vars => QuietInv'
<1> SUFFICES ASSUME TypeOK, MarkInv, QuietInv, [Next]_vars PROVE QuietInv'
  OBVIOUS
<1>1. ASSUME NEW p \in Proc, StepOf(p), ~Unlink(p) PROVE QuietInv'
  <2>1. OnlyMoves(p) /\ TypedLocal(p)'
    BY <1>1, StepMoves
  <2>2. \A d \in Digest : files[Obj(d)] # NoFile => files'[Obj(d)] # NoFile
    BY <1>1, ObjectsStay DEF Exists, Obj
  <2>3. ASSUME NEW q \in Proc, pc'[q] \in GcSteps
        PROVE  (\A r \in Proc \ {q} : pc'[r] = "idle") /\ steady'[q] = RefName
    <3>1. CASE q = p /\ Collect(p)
      <4>1. \A r \in Proc \ {p} : pc[r] = "idle"
        BY <3>1 DEF Collect, MayCollect
      <4>2. steady'[p] = RefName
        BY <3>1 DEF Collect, TypeOK
      <4>3. QED
        BY <2>1, <3>1, <4>1, <4>2 DEF OnlyMoves
    <3>2. CASE q = p /\ ~Collect(p)
      <4>1. pc[p] \in GcSteps
        BY <1>1, <2>3, <3>2 DEF StepOf, Put, CreateTmp, WriteTmp, Rename, PutFails,
              TruncateRef, WriteRef, ResolveRef, ListRef, Get, Open, ReadRef, Sweep,
              GcDone, ListEntry, MissEntry, Stop, Return, Goto, TypeOK, GcSteps
      <4>2. steady'[p] = steady[p]
        BY <1>1, <2>3, <3>2, <4>1 DEF StepOf, Put, MayStart, CreateTmp, WriteTmp, Rename,
              PutFails, TruncateRef, WriteRef, ResolveRef, ListRef, Get, Open, ReadRef,
              Sweep, GcDone, ListEntry, MissEntry, Stop, Return, Goto, TypeOK, GcSteps
      <4>3. QED
        BY <2>1, <3>2, <4>1, <4>2 DEF QuietInv, OnlyMoves
    <3>3. CASE q # p
      <4>1. pc[q] \in GcSteps
        BY <2>1, <2>3, <3>3 DEF OnlyMoves
      <4>2. pc[p] = "idle"
        BY <3>3, <4>1 DEF QuietInv
      <4>3. FALSE
        BY <1>1, <4>1, <4>2 DEF StepOf, Put, MayStart, CreateTmp, WriteTmp, Rename,
              PutFails, TruncateRef, WriteRef, ResolveRef, ListRef, Get, Open, Collect,
              MayCollect, ReadRef, Sweep, GcDone, ListEntry, MissEntry, Stop, GcSteps
      <4>4. QED
        BY <4>3
    <3>4. QED
      BY <3>1, <3>2, <3>3
  <2>4. RefsResolve'
    <3> SUFFICES ASSUME NEW n \in RefName, refs'[n] \in Digest
                 PROVE  files'[Obj(refs'[n])] # NoFile
      BY DEF RefsResolve, Exists, Obj
    <3>1. CASE refs'[n] = refs[n]
      BY <2>2, <3>1 DEF QuietInv, RefsResolve, Exists, Obj
    <3>2. CASE refs'[n] # refs[n]
      <4>1. CASE TruncateRef(p)
        BY <3>2, <4>1, ValueAssumption DEF TruncateRef, TypeOK
      <4>2. CASE WriteRef(p)
        <5>1. refs'[n] = local[p].digest /\ pc[p] = "addref"
          BY <3>2, <4>2 DEF WriteRef, TypeOK
        <5>2. QED
          BY <2>2, <5>1 DEF QuietInv, Exists, Obj
      <4>3. QED
        BY <1>1, <3>2, <4>1, <4>2 DEF StepOf, Put, CreateTmp, WriteTmp, Rename, PutFails,
           ResolveRef, ListRef, Get, Open, Collect, ReadRef, Sweep, GcDone, ListEntry,
           MissEntry, Stop
    <3>3. QED
      BY <3>1, <3>2
  <2>5. ASSUME NEW q \in Proc, pc'[q] \in {"stored", "addref"} \cup ReadSteps
        PROVE  files'[Obj(local'[q].digest)] # NoFile
    <3>1. CASE q # p
      BY <2>1, <2>2, <2>5, <3>1 DEF OnlyMoves, QuietInv, ReadersServed, TypeOK, PutSteps,
         ReadSteps, Exists, Obj
    <3>2. CASE q = p
      <4> DEFINE d == local[p].digest
      <4>1. CASE \E op \in Ops, c \in Content, n \in RefName : Put(p, op, c, n)
        <5>1. PICK op \in Ops, c \in Content, n \in RefName : Put(p, op, c, n)
          BY <4>1
        <5>2. Exists(Obj(SHA256[c])) /\ SHA256[c] \in Digest
          BY <2>5, <3>2, <5>1, HashAssumption DEF Put, Goto, TypeOK, ReadSteps
        <5>3. local'[p].digest = SHA256[c]
          BY <5>1 DEF Put, TypeOK, Locals
        <5>4. QED
          BY <2>2, <3>2, <5>2, <5>3 DEF Exists, Obj
      <4>2. CASE Rename(p)
        <5>1. d \in Digest /\ Obj(d) \in Entry /\ Obj(d) # Tmp(p) /\ local' = local
          BY <4>2, ValueAssumption DEF Rename, TypeOK, PutSteps, Obj, Tmp, Entry
        <5>2. files'[Obj(d)] = files[Tmp(p)]
          BY <4>2, <5>1 DEF Rename, TypeOK
        <5>3. QED
          BY <3>2, <4>2, <5>1, <5>2 DEF Rename, Exists, Obj
      <4>3. CASE TruncateRef(p)
        BY <2>2, <3>2, <4>3 DEF TruncateRef, QuietInv, TypeOK, PutSteps, Exists, Obj
      <4>4. CASE \E n \in RefName : ResolveRef(p, n)
        <5>1. PICK n \in RefName : ResolveRef(p, n)
          BY <4>4
        <5>2. local'[p].digest = refs[n] /\ refs[n] \in Digest
          BY <5>1 DEF ResolveRef, TypeOK, Locals
        <5>3. QED
          BY <2>2, <3>2, <5>2 DEF QuietInv, RefsResolve, Exists, Obj
      <4>5. CASE Get(p)
        <5>1. pc[p] = "resolved" /\ local' = local
          BY <2>5, <3>2, <4>5 DEF Get, Return, Goto, TypeOK, ReadSteps
        <5>2. QED
          BY <2>2, <3>2, <5>1 DEF QuietInv, ReadersServed, TypeOK, ReadSteps, Exists, Obj
      <4>6. QED
        BY <1>1, <2>5, <3>2, <4>1, <4>2, <4>3, <4>4, <4>5 DEF StepOf, CreateTmp, WriteTmp,
           PutFails, WriteRef, ListRef, Open, Collect, ReadRef, Sweep, GcDone, ListEntry,
           MissEntry, Stop, Return, Goto, TypeOK, ReadSteps
    <3>3. QED
      BY <3>1, <3>2
  <2>6. QED
    BY <2>3, <2>4, <2>5 DEF QuietInv, ReadersServed, Exists, Obj
<1>2. ASSUME NEW p \in Proc, Unlink(p) PROVE QuietInv'
  BY <1>2, QuietUnlink
<1>3. ASSUME NEW p \in Proc, NEW n \in RefName, RemoveRef(p, n) PROVE QuietInv'
  <2>1. \A q \in Proc : pc[q] \notin GcSteps
    BY <1>3 DEF RemoveRef, MayStart
  <2>2. RefsResolve'
    BY <1>3, ValueAssumption DEF RemoveRef, QuietInv, RefsResolve, Exists, Obj, TypeOK
  <2>3. QED
    BY <1>3, <2>1, <2>2 DEF RemoveRef, QuietInv, ReadersServed, Exists, Obj
<1>4. CASE UNCHANGED vars
  BY <1>4 DEF vars, QuietInv, ReadersServed, RefsResolve, Exists, Obj
<1>5. QED
  BY <1>1, <1>2, <1>3, <1>4 DEF Next, StepOf

(* With gc run only while the store is idle, in every reachable state      *)
(* calls and references find the objects they name.                        *)
LEMMA QuietCorrect == ASSUME QuietGC PROVE Spec => []QuietInv
<1>1. Init => QuietInv
  BY ValueAssumption DEF Init, QuietInv, ReadersServed, RefsResolve, GcSteps, ReadSteps
<1>2. TypeOK /\ MarkInv /\ QuietInv /\ [Next]_vars => QuietInv'
  BY NextQuiet
<1>3. QED
  BY <1>1, <1>2, TypeCorrect, MarkCorrect, PTL DEF Spec

(* No reference dangles, if gc is only run while the store is idle.        *)
THEOREM RefsResolveCorrect == ASSUME QuietGC PROVE Spec => []RefsResolve
<1>1. QuietInv => RefsResolve
  BY DEF QuietInv
<1>2. QED
  BY <1>1, QuietCorrect, PTL

(* Who resolved a reference finds and opens its object, if gc is only run  *)
(* while the store is idle.                                                *)
THEOREM ReadersServedCorrect == ASSUME QuietGC PROVE Spec => []ReadersServed
<1>1. QuietInv => ReadersServed
  BY DEF QuietInv
<1>2. QED
  BY <1>1, QuietCorrect, PTL

(***************************************************************************)
(* Vacuole implements RootedStore, if gc is only run while the store is    *)
(* idle: Rename puts a digest, TruncateRef and RemoveRef unbind a name,    *)
(* WriteRef binds it, Unlink of an object collects its digest, and all     *)
(* other steps stutter.                                                    *)
(***************************************************************************)
Have == {d \in Digest : Exists(Obj(d))}
Bound == [n \in RefName |-> IF refs[n] \in Digest THEN refs[n] ELSE NoFile]

(* A step that leaves refs/ alone leaves the abstract bindings alone.      *)
LEMMA SameBound ==
    ASSUME refs' = refs PROVE Bound' = Bound
BY DEF Bound

(* A step that neither adds nor removes an object leaves the abstract set  *)
(* of stored digests alone.                                                *)
LEMMA SameHave ==
    ASSUME \A d \in Digest : (files'[Obj(d)] # NoFile) <=> (files[Obj(d)] # NoFile)
    PROVE  Have' = Have
BY DEF Have, Exists, Obj

(* A step that only writes a tmp file leaves the stored digests alone.     *)
LEMMA TmpStepKeepsHave ==
    ASSUME TypeOK, NEW p \in Proc, CreateTmp(p) \/ WriteTmp(p) \/ PutFails(p)
    PROVE  Have' = Have
<1>1. ASSUME NEW d \in Digest PROVE files'[Obj(d)] = files[Obj(d)]
  <2>1. Obj(d) \in Entry /\ Obj(d) # Tmp(p)
    BY ValueAssumption DEF Obj, Tmp, Entry
  <2>2. QED
    BY <2>1 DEF CreateTmp, WriteTmp, PutFails, TypeOK
<1>2. QED
  BY <1>1, SameHave

(* With gc run only while the store is idle, every step of the store is a  *)
(* step of RootedStore or leaves its state alone: a rename puts, a         *)
(* reference write binds or unbinds, an unlink collects what no name is    *)
(* bound to.                                                               *)
LEMMA StepImplements ==
    ASSUME QuietGC, TypeOK, MarkInv, QuietInv, [Next]_vars
    PROVE  \/ \E d \in Digest : Have' = Have \cup {d} /\ Bound' = Bound
           \/ \E d \in Digest :
                 (\A n \in RefName : Bound[n] # d) /\ Have' = Have \ {d} /\ Bound' = Bound
           \/ \E n \in RefName : Bound' = [Bound EXCEPT ![n] = NoFile] /\ Have' = Have
           \/ \E n \in RefName, d \in Digest :
                 d \in Have /\ Bound' = [Bound EXCEPT ![n] = d] /\ Have' = Have
           \/ Have' = Have /\ Bound' = Bound
<1>1. ASSUME NEW p \in Proc, Rename(p)
      PROVE  \E d \in Digest : Have' = Have \cup {d} /\ Bound' = Bound
  <2> DEFINE d == local[p].digest
  <2>1. d \in Digest /\ refs' = refs
    BY <1>1 DEF Rename, TypeOK, PutSteps
  <2>2. ASSUME NEW e \in Digest
        PROVE  (files'[Obj(e)] # NoFile) <=> (files[Obj(e)] # NoFile \/ e = d)
    <3>1. Obj(e) \in Entry /\ Obj(e) # Tmp(p) /\ (Obj(e) = Obj(d) <=> e = d)
      BY ValueAssumption DEF Obj, Tmp, Entry
    <3>2. files' = [files EXCEPT ![Obj(d)] = files[Tmp(p)], ![Tmp(p)] = NoFile]
      BY <1>1 DEF Rename
    <3>3. files[Tmp(p)] # NoFile
      BY <1>1 DEF Rename, Exists
    <3>4. QED
      BY <3>1, <3>2, <3>3 DEF TypeOK
  <2>3. Have' = Have \cup {d}
    BY <2>1, <2>2 DEF Have, Exists, Obj
  <2>4. QED
    BY <2>1, <2>3, SameBound
<1>2. ASSUME NEW p \in Proc, Unlink(p)
      PROVE  \/ \E d \in Digest : /\ \A n \in RefName : Bound[n] # d
                                  /\ Have' = Have \ {d} /\ Bound' = Bound
             \/ Have' = Have /\ Bound' = Bound
  <2> DEFINE e == local[p].entry
  <2>1. pc[p] = "unlink" /\ refs' = refs /\ e \in Entry
    BY <1>2 DEF Unlink, TypeOK
  <2>2. Bound' = Bound
    BY <2>1, SameBound
  <2>3. CASE files' = files
    BY <2>2, <2>3, SameHave
  <2>4. CASE files' # files /\ e[1] = Object
    <3> DEFINE d == e[2]
    <3>1. d \in Digest /\ e = Obj(d)
      BY <2>1, <2>4 DEF Entry, Obj
    <3>2. files' = [files EXCEPT ![Obj(d)] = NoFile]
      BY <1>2, <2>4, <3>1 DEF Unlink
    <3>3. Have' = Have \ {d}
      BY <3>1, <3>2 DEF Have, Exists, Obj, Entry, TypeOK
    <3>4. ASSUME NEW n \in RefName PROVE Bound[n] # d
      <4>1. refs[n] \in Digest => refs[n] \in local[p].reachable
        BY <2>1 DEF QuietInv, MarkInv, Marked, GcSteps
      <4>2. d \notin local[p].reachable
        BY <2>1, <2>4 DEF MarkInv
      <4>3. QED
        BY <3>1, <4>1, <4>2, ValueAssumption DEF Bound
    <3>5. QED
      BY <2>2, <3>1, <3>3, <3>4
  <2>5. CASE files' # files /\ e[1] # Object
    <3>1. files' = [files EXCEPT ![e] = NoFile]
      BY <1>2, <2>5 DEF Unlink
    <3>2. \A d \in Digest : files'[Obj(d)] = files[Obj(d)]
      BY <2>5, <3>1 DEF Obj, Entry, TypeOK
    <3>3. QED
      BY <2>2, <3>2, SameHave
  <2>6. QED
    BY <2>3, <2>4, <2>5
<1>3. ASSUME NEW p \in Proc, TruncateRef(p)
      PROVE  \E n \in RefName : Bound' = [Bound EXCEPT ![n] = NoFile] /\ Have' = Have
  <2>1. local[p].name \in RefName /\ files' = files
    BY <1>3 DEF TruncateRef, TypeOK, PutSteps
  <2>2. Bound' = [Bound EXCEPT ![local[p].name] = NoFile]
    BY <1>3, <2>1, ValueAssumption DEF TruncateRef, Bound, TypeOK
  <2>3. QED
    BY <2>1, <2>2, SameHave
<1>4. ASSUME NEW p \in Proc, NEW n \in RefName, RemoveRef(p, n)
      PROVE  Bound' = [Bound EXCEPT ![n] = NoFile] /\ Have' = Have
  BY <1>4, SameHave, ValueAssumption DEF RemoveRef, Bound, TypeOK
<1>5. ASSUME NEW p \in Proc, WriteRef(p)
      PROVE  \/ \E n \in RefName, d \in Digest :
                   d \in Have /\ Bound' = [Bound EXCEPT ![n] = d] /\ Have' = Have
             \/ Have' = Have /\ Bound' = Bound
  <2> DEFINE n == local[p].name
             d == local[p].digest
  <2>1. n \in RefName /\ d \in Digest /\ pc[p] = "addref"
    BY <1>5 DEF WriteRef, TypeOK, PutSteps
  <2>2. Have' = Have
    BY <1>5, SameHave DEF WriteRef
  <2>3. d \in Have
    BY <2>1 DEF QuietInv, Have
  <2>4. CASE p \in linked
    <3>1. Bound' = [Bound EXCEPT ![n] = d]
      BY <1>5, <2>1, <2>4 DEF WriteRef, Bound, TypeOK
    <3>2. QED
      BY <2>1, <2>2, <2>3, <3>1
  <2>5. CASE p \notin linked
    <3>1. refs' = refs
      BY <1>5, <2>1, <2>5 DEF WriteRef, TypeOK
    <3>2. QED
      BY <2>2, <3>1, SameBound
  <2>6. QED
    BY <2>4, <2>5
<1>6. ASSUME NEW p \in Proc, CreateTmp(p) \/ WriteTmp(p) \/ PutFails(p)
      PROVE  Have' = Have /\ Bound' = Bound
  BY <1>6, TmpStepKeepsHave, SameBound DEF CreateTmp, WriteTmp, PutFails
<1>7. ASSUME NEW p \in Proc,
             \/ \E op \in Ops, c \in Content, n \in RefName : Put(p, op, c, n)
             \/ \E n \in RefName : ResolveRef(p, n) \/ ListRef(p, n)
             \/ Get(p) \/ Open(p) \/ Collect(p) \/ ReadRef(p) \/ Sweep(p) \/ GcDone(p)
             \/ \E e \in Entry : ListEntry(p, e) \/ MissEntry(p, e)
             \/ Stop(p)
      PROVE  Have' = Have /\ Bound' = Bound
  <2>1. files' = files /\ refs' = refs
    BY <1>7 DEF Put, ResolveRef, ListRef, Get, Open, Collect, ReadRef, Sweep, GcDone,
                ListEntry, MissEntry, Stop
  <2>2. QED
    BY <2>1, SameHave, SameBound
<1>8. CASE UNCHANGED vars
  BY <1>8, SameHave, SameBound DEF vars
<1>9. QED
  BY <1>1, <1>2, <1>3, <1>4, <1>5, <1>6, <1>7, <1>8 DEF Next

(* With gc run only while the store is idle, the store implements          *)
(* RootedStore: put, add_ref, remove_ref and gc look like atomic           *)
(* operations.                                                             *)
THEOREM Refinement == ASSUME QuietGC PROVE Spec => ImplementsRootedStore
<1>1. Init => Rooted!Init
  <2>1. ASSUME Init PROVE {d \in Digest : Exists(Obj(d))} = {}
    BY <2>1 DEF Init, Exists, Obj, Entry
  <2>2. ASSUME Init
        PROVE  [n \in RefName |-> IF refs[n] \in Digest THEN refs[n] ELSE NoFile]
                 = [n \in RefName |-> NoFile]
    BY <2>2 DEF Init
  <2>3. QED
    BY <2>1, <2>2 DEF Rooted!Init
<1>2. TypeOK /\ MarkInv /\ QuietInv /\ [Next]_vars => [Rooted!Next]_Rooted!rootedVars
  <2> SUFFICES ASSUME TypeOK, MarkInv, QuietInv, [Next]_vars
               PROVE  [Rooted!Next]_Rooted!rootedVars
    OBVIOUS
  <2>1. QED
    BY StepImplements DEF Have, Bound, Rooted!Next, Rooted!rootedVars, Rooted!Put,
       Rooted!Bind, Rooted!Unbind, Rooted!Collect
<1>3. QED
  BY <1>1, <1>2, TypeCorrect, MarkCorrect, QuietCorrect, PTL
     DEF Spec, ImplementsRootedStore, Rooted!Spec

(***************************************************************************)
(* A gc that ends leaves only referenced objects, if gc is only run while  *)
(* the store is idle: what it marked is referenced, and what is garbage is *)
(* still to be swept.                                                      *)
(***************************************************************************)
Swept(p) ==
    /\ pc[p] = "idle" => local[p].reachable = {}
    /\ pc[p] \in GcSteps => \A d \in local[p].reachable : \E n \in RefName : refs[n] = d
    /\ pc[p] \in {"sweep", "unlink"} => \A e \in Entry : Exists(e) /\ Garbage(p, e) =>
           e \in local[p].unswept \/ (pc[p] = "unlink" /\ e = local[p].entry)

SweptInv == \A p \in Proc : Swept(p)

(* Every step of a gc, alone with the store, keeps what it has swept clean *)
(* and what it still has to visit.                                         *)
LEMMA NextSwept ==
    ASSUME QuietGC PROVE TypeOK /\ QuietInv /\ SweptInv /\ [Next]_vars => SweptInv'
<1> SUFFICES ASSUME TypeOK, QuietInv, SweptInv, [Next]_vars, NEW p \in Proc
             PROVE  Swept(p)'
  BY DEF SweptInv
<1>1. ASSUME NEW q \in Proc \ {p}, StepOf(q) PROVE Swept(p)'
  <2>1. pc'[p] = pc[p] /\ local'[p] = local[p]
    BY <1>1, StepMoves DEF OnlyMoves
  <2>2. CASE pc[p] \in GcSteps
    <3>1. pc[q] = "idle"
      BY <2>2 DEF QuietInv
    <3>2. FALSE
      BY <1>1, <2>2, <3>1 DEF StepOf, Put, MayStart, CreateTmp, WriteTmp, Rename, PutFails,
         TruncateRef, WriteRef, ResolveRef, ListRef, Get, Open, Collect, MayCollect, ReadRef,
         Sweep, Unlink, GcDone, ListEntry, MissEntry, Stop, GcSteps
    <3>3. QED
      BY <3>2
  <2>3. CASE pc[p] \notin GcSteps
    BY <2>1, <2>3 DEF SweptInv, Swept, GcSteps
  <2>4. QED
    BY <2>2, <2>3
<1>2. ASSUME NEW q \in Proc, NEW n \in RefName, RemoveRef(q, n) PROVE Swept(p)'
  BY <1>2 DEF RemoveRef, MayStart, SweptInv, Swept, GcSteps
<1>3. CASE \/ CreateTmp(p) \/ WriteTmp(p) \/ Rename(p) \/ TruncateRef(p)
           \/ \E op \in Ops, c \in Content, n \in RefName : Put(p, op, c, n)
           \/ \E n \in RefName : ResolveRef(p, n)
  BY <1>3 DEF CreateTmp, WriteTmp, Rename, TruncateRef, Put, ResolveRef, Goto, TypeOK,
              Swept, GcSteps
<1>4. CASE pc'[p] = "idle"
  <2>1. \/ Return(p)
        \/ ~StepOf(p)
    BY <1>4 DEF StepOf, Put, CreateTmp, WriteTmp, Rename, PutFails, TruncateRef, WriteRef,
       ResolveRef, ListRef, Get, Open, Collect, ReadRef, Sweep, Unlink, GcDone, ListEntry,
       MissEntry, Stop, Goto, TypeOK
  <2>2. CASE Return(p)
    <3>1. local'[p].reachable = {}
      BY <2>2 DEF Return, NoLocals, TypeOK
    <3>2. QED
      BY <1>4, <3>1 DEF Swept, GcSteps
  <2>3. CASE ~StepOf(p) /\ UNCHANGED vars
    BY <2>3 DEF vars, SweptInv, Swept, Exists, Garbage
  <2>4. QED
    BY <1>1, <1>2, <2>1, <2>2, <2>3 DEF Next, StepOf
<1>5. CASE Get(p) /\ pc'[p] # "idle"
  BY <1>5 DEF Get, Return, Goto, TypeOK, Swept, GcSteps
<1>6. CASE Collect(p)
  <2>1. pc'[p] = "mark" /\ local'[p].reachable = {}
    BY <1>6 DEF Collect, MayCollect, Goto, SweptInv, Swept, TypeOK
  <2>2. QED
    BY <2>1 DEF Swept
<1>7. CASE \E n \in RefName : ListRef(p, n)
  <2>1. /\ pc[p] = "mark" /\ pc'[p] \in {"mark", "readref"}
        /\ local'[p].reachable = local[p].reachable /\ refs' = refs
    BY <1>7 DEF ListRef, Goto, TypeOK, Locals
  <2>2. QED
    BY <2>1 DEF SweptInv, Swept, GcSteps
<1>8. CASE ReadRef(p) /\ pc'[p] # "idle"
  <2> DEFINE n == local[p].name
  <2>1. /\ pc[p] = "readref" /\ pc'[p] = "mark" /\ refs' = refs
        /\ local'[p].reachable = local[p].reachable \cup ({refs[n]} \cap Digest)
        /\ n \in RefName
    BY <1>8 DEF ReadRef, Return, Goto, TypeOK, Locals
  <2>2. QED
    BY <2>1 DEF SweptInv, Swept, GcSteps
<1>9. CASE Sweep(p)
  <2>1. /\ pc[p] = "mark" /\ pc'[p] = "sweep" /\ refs' = refs /\ files' = files
        /\ local'[p].reachable = local[p].reachable
        /\ local'[p].unswept = {e \in Entry : Exists(e) /\ Garbage(p, e)}
    BY <1>9 DEF Sweep, Goto, TypeOK, Locals
  <2>2. QED
    BY <2>1 DEF SweptInv, Swept, GcSteps, Exists, Garbage
<1>10. CASE \E e \in Entry : ListEntry(p, e)
  <2>1. PICK e \in Entry : ListEntry(p, e)
    BY <1>10
  <2>2. /\ pc[p] = "sweep" /\ pc'[p] = "unlink" /\ refs' = refs /\ files' = files
        /\ local'[p].reachable = local[p].reachable
        /\ local'[p].unswept = local[p].unswept \ {e}
        /\ local'[p].entry = e
    BY <2>1 DEF ListEntry, Goto, TypeOK, Locals
  <2>3. QED
    BY <2>2 DEF SweptInv, Swept, GcSteps, Exists, Garbage
<1>11. CASE \E e \in Entry : MissEntry(p, e)
  <2>1. PICK e \in Entry : MissEntry(p, e)
    BY <1>11
  <2>2. /\ pc[p] = "sweep" /\ pc'[p] = "sweep" /\ refs' = refs /\ files' = files
        /\ local'[p].reachable = local[p].reachable
        /\ local'[p].unswept = local[p].unswept \ {e}
        /\ ~Exists(e)
    BY <2>1 DEF MissEntry, TypeOK, Locals
  <2>3. QED
    BY <2>2 DEF SweptInv, Swept, GcSteps, Exists, Garbage
<1>12. CASE Unlink(p) /\ pc'[p] # "idle"
  <2>1. /\ pc[p] = "unlink" /\ pc'[p] = "sweep" /\ refs' = refs
        /\ files' = [files EXCEPT ![local[p].entry] = NoFile]
        /\ local'[p].reachable = local[p].reachable
        /\ local'[p].unswept = local[p].unswept
    BY <1>12 DEF Unlink, Return, Goto, TypeOK, Locals
  <2>2. QED
    BY <2>1 DEF SweptInv, Swept, GcSteps, Exists, Garbage, TypeOK
<1>13. CASE UNCHANGED vars
  BY <1>13 DEF vars, SweptInv, Swept, Exists, Garbage
<1>14. CASE PutFails(p) \/ WriteRef(p) \/ Open(p) \/ GcDone(p) \/ Stop(p)
  <2>1. pc'[p] = "idle"
    BY <1>14 DEF PutFails, WriteRef, Open, GcDone, Stop, Return, Goto, TypeOK
  <2>2. QED
    BY <1>4, <2>1
<1>15. QED
  BY <1>1, <1>2, <1>3, <1>4, <1>5, <1>6, <1>7, <1>8, <1>9, <1>10, <1>11, <1>12, <1>13, <1>14
     DEF Next, StepOf

(* A gc that ends leaves objects/ with referenced objects only, if gc is    *)
(* only run while the store is idle.                                       *)
THEOREM SweptCleanCorrect == ASSUME QuietGC PROVE Spec => SweptClean
<1>1. Init => SweptInv
  BY DEF Init, SweptInv, Swept, NoLocals, GcSteps
<1>2. TypeOK /\ QuietInv /\ SweptInv /\ [Next]_vars => SweptInv'
  BY NextSwept
<1>3. ASSUME TypeOK, SweptInv, NEW p \in Proc, GcDone(p), NEW e \in Entry, Exists(e)
      PROVE  e[1] = Object /\ \E n \in RefName : refs[n] = e[2]
  <2>1. pc[p] = "sweep" /\ local[p].unswept = {}
    BY <1>3 DEF GcDone
  <2>2. Swept(p)
    BY <1>3 DEF SweptInv
  <2>3. ~Garbage(p, e)
    BY <1>3, <2>1, <2>2 DEF Swept
  <2>4. e[1] = Object /\ e[2] \in local[p].reachable
    BY <2>3 DEF Garbage
  <2>5. QED
    BY <2>1, <2>2, <2>4 DEF Swept, GcSteps
<1>4. TypeOK /\ SweptInv /\ [Next]_vars
        => [\A p \in Proc : GcDone(p) =>
              \A e \in Entry : Exists(e) =>
                  e[1] = Object /\ \E n \in RefName : refs[n] = e[2]]_vars
  BY <1>3
<1>5. QED
  BY <1>1, <1>2, <1>4, TypeCorrect, QuietCorrect, PTL DEF Spec, SweptClean
=============================================================================
