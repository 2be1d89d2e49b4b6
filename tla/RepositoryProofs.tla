-------------------------- MODULE RepositoryProofs --------------------------
(***************************************************************************)
(* Proofs about Repository: its types, that the index is right about the   *)
(* packages whose publishing ended undisturbed (IndexMatches) and has the  *)
(* newest file of each (NewestIndexed), and that the sidecar belongs to    *)
(* the index (SidecarMatches).  An operation that meets no other works on  *)
(* what it has read: what it has still to write is right when it is read,  *)
(* and stays so.                                                           *)
(***************************************************************************)
EXTENDS Repository, TLAPS

Busy(p) == pc[p] # "idle"

\* Versions compare alike as numbers and as text.
Alike ==
    \A f, g \in File :
        Parsed(f, g) => /\ f.num < g.num => f.text < g.text
                        /\ Equal(f, g) => f.text = g.text

\* Then add_entry follows one order of the files, in which f is not above g.
Under(f, g) == Alike => \/ f.text < g.text
                        \/ f.text = g.text /\ (f.num # 0 => f.rel <= g.rel)

\* The index is right about package n, if files are what the paths hold.
Right(files, index, n) ==
    IF \A f \in File : f.name = n => files[f] = None
      THEN index[n] = None
      ELSE /\ index[n] # None
           /\ index[n].file.name = n
           /\ index[n].of = files[index[n].file]
           /\ \A f \in File : f.name = n /\ files[f] # None => Under(f, index[n].file)

\* Whose entry e a publish of f replaces, or need not: no other file is above it.
Kept(files, f, e) ==
    /\ e = None \/ e.file = f \/ (e.file.name = f.name /\ e.of = files[e.file])
    /\ \A g \in File \ {f} : g.name = f.name /\ files[g] # None => e # None /\ Under(g, e.file)

\* What rebuild_index has seen.
Seen(files, todo) == [f \in File |-> IF f \in todo THEN None ELSE files[f]]

\* Which steps belong to which operation.
OpSteps ==
    \A p \in Proc :
        /\ pc[p] = "idle" => local[p].op = "none"
        /\ pc[p] # "idle" => local[p].op \in {"create", "publish", "rebuild"}
        /\ pc[p] \in {"copy", "hash", "load"} => local[p].op = "publish"
        /\ pc[p] = "scan" => local[p].op = "rebuild"
        /\ local[p].op = "publish" => local[p].file \in File /\ prots[local[p].file] # None
        /\ pc[p] = "copy" => local[p].source \in Content
        /\ pc[p] = "load" => local[p].mem[local[p].file.name] \in Entries
        /\ local[p].op = "create" => pc[p] \in {"save", "write", "rename", "sidecar"}
        /\ local[p].op = "rebuild" => pc[p] \in {"scan", "write", "rename", "sidecar"}

\* An operation that met no other is alone; if one has, all is in doubt.
Alone == \A p \in solo : Busy(p) /\ \A q \in Proc \ {p} : ~Busy(q)
Met == \A p \in Proc \ solo : Busy(p) => dirty = Name /\ stale

\* Without an index there is no package, and only create is at work.
Empty ==
    db = None => /\ \A f \in File : prots[f] = None
                 /\ \A p \in Proc : local[p].op \in {"none", "create"}
Readable == db = Partial => dirty = Name

\* What an operation that is alone has done so far.
CreateWork(p) ==
    /\ local[p].mem = NoEntries
    /\ pc[p] # "sidecar" => db = None
PublishWork(p) ==
    LET f == local[p].file
    IN  /\ pc[p] = "load" => local[p].mem[f.name] = [file |-> f, of |-> prots[f]]
        /\ pc[p] # "sidecar" /\ f.name \notin dirty => Kept(prots, f, Loaded[f.name])
        /\ pc[p] \in {"save", "write", "rename"} =>
              \A n \in Name \ dirty : Right(prots, local[p].mem, n)
RebuildWork(p) ==
    /\ pc[p] = "scan" => \A n \in Name : Right(Seen(prots, local[p].todo), local[p].mem, n)
    /\ pc[p] # "scan" => \A n \in Name : Right(prots, local[p].mem, n)
SaveWork(p) ==
    /\ pc[p] = "write" => local[p].fd = "tmp"
    /\ pc[p] = "rename" => tmp = local[p].mem
    /\ pc[p] = "sidecar" => db = local[p].mem
Work ==
    \A p \in solo :
        /\ SaveWork(p)
        /\ local[p].op = "create" => CreateWork(p)
        /\ local[p].op = "publish" => PublishWork(p)
        /\ local[p].op = "rebuild" => RebuildWork(p)

Indexed ==
    \A n \in Name \ dirty : (\A p \in Proc : n \notin Pending(p)) => Right(prots, Loaded, n)

IInv ==
    /\ TypeOK /\ OpSteps /\ Alone /\ Met /\ Empty /\ Readable
    /\ Work /\ Indexed /\ SidecarMatches

-----------------------------------------------------------------------------
(* add_entry replaces an entry only by one of a file that is not under it.   *)
LEMMA ReplacesUnder ==
  ASSUME NEW f \in File, NEW g \in File
  PROVE  /\ Replaces(f, g) => Under(g, f)
         /\ ~Replaces(f, g) => Under(f, g)
<1>1. {f.num, f.rest, f.text, f.rel, g.num, g.rest, g.text, g.rel} \subseteq Nat
  BY FileAssumption
<1>2. f.text = g.text => f.num = g.num /\ f.rest = g.rest
  BY FileAssumption
<1>3. Alike /\ Parsed(f, g) => /\ f.num < g.num => f.text < g.text
                               /\ g.num < f.num => g.text < f.text
                               /\ Equal(f, g) => f.text = g.text
  BY DEF Alike, Parsed
<1>4. SUFFICES ASSUME Alike
               PROVE  /\ Replaces(f, g) => g.text < f.text \/ (g.text = f.text /\ (g.num # 0 => g.rel <= f.rel))
                      /\ ~Replaces(f, g) => f.text < g.text \/ (f.text = g.text /\ (f.num # 0 => f.rel <= g.rel))
  BY DEF Under
<1>5. CASE Parsed(f, g)
  BY <1>1, <1>2, <1>3, <1>4, <1>5 DEF Replaces, Parsed, Equal
<1>6. CASE ~Parsed(f, g)
  BY <1>1, <1>2, <1>6 DEF Replaces, Parsed
<1> QED
  BY <1>5, <1>6

LEMMA UnderUnder ==
  ASSUME NEW f \in File, NEW g \in File, NEW h \in File, Under(f, g), Under(g, h)
  PROVE  Under(f, h)
<1>1. {f.num, f.text, f.rel, g.num, g.text, g.rel, h.num, h.text, h.rel} \subseteq Nat
  BY FileAssumption
<1>2. f.text = g.text => f.num = g.num
  BY FileAssumption
<1> QED
  BY <1>1, <1>2 DEF Under

(* add_entry gives a package a right entry from its newest file, if the one  *)
(* it had is of that file or right.                                          *)
LEMMA AddedRight ==
  ASSUME NEW index \in Indexes, NEW files, NEW f \in File,
         files[f] \in Content \cup {Partial}, Kept(files, f, index[f.name])
  PROVE  LET added == AddEntry(index, [file |-> f, of |-> files[f]])
         IN  /\ added \in Indexes
             /\ Right(files, added, f.name)
             /\ \A n \in Name \ {f.name} : added[n] = index[n]
<1> DEFINE entry == [file |-> f, of |-> files[f]]
           e == index[f.name]
           added == AddEntry(index, entry)
<1>1. f.name \in Name /\ entry \in Entries /\ entry # None /\ files[f] # None /\ entry.file = f
  BY EntryAssumption, MarkAssumption DEF Name, Entries
<1>2. entry.of = files[f]
  OBVIOUS
<1>3. added \in Indexes /\ \A n \in Name \ {f.name} : added[n] = index[n]
  BY <1>1 DEF AddEntry, Indexes
<1>4. Replaces(f, f) /\ Under(f, f)
  BY FileAssumption DEF Replaces, Parsed, Equal, Under
<1>5. added[f.name] = IF e = None \/ Replaces(f, e.file) THEN entry ELSE e
  BY <1>1 DEF AddEntry, Indexes
<1>6. e # None => e.file \in File
  BY <1>1 DEF Indexes, Entries
<1>7. ASSUME NEW g \in File \ {f}, g.name = f.name, files[g] # None
      PROVE  e # None /\ Under(g, e.file)
  BY <1>7 DEF Kept
<1> HIDE DEF added, e, entry
<1>8. ASSUME e = None \/ Replaces(f, e.file) PROVE Right(files, added, f.name)
  <2>1. added[f.name] = entry
    BY <1>5, <1>8
  <2>2. ASSUME NEW g \in File, g.name = f.name, files[g] # None PROVE Under(g, f)
    <3>1. CASE g = f
      BY <1>4, <3>1
    <3>2. CASE g # f
      <4>1. e # None /\ Under(g, e.file)
        BY <1>7, <2>2, <3>2
      <4>2. Under(e.file, f)
        BY <1>6, <1>8, <4>1, ReplacesUnder
      <4> QED
        BY <1>6, <4>1, <4>2, UnderUnder
    <3> QED
      BY <3>1, <3>2
  <2> QED
    BY <1>1, <1>2, <2>1, <2>2 DEF Right
<1>9. ASSUME ~(e = None \/ Replaces(f, e.file)) PROVE Right(files, added, f.name)
  <2>1. added[f.name] = e /\ e # None /\ e.file # f
    BY <1>4, <1>5, <1>9
  <2>2. e.file.name = f.name /\ e.of = files[e.file]
    BY <2>1 DEF Kept, e
  <2>3. ASSUME NEW g \in File, g.name = f.name, files[g] # None PROVE Under(g, e.file)
    <3>1. CASE g = f
      BY <1>6, <1>9, <2>1, <3>1, ReplacesUnder
    <3>2. CASE g # f
      BY <1>7, <2>3, <3>2
    <3> QED
      BY <3>1, <3>2
  <2> QED
    BY <1>1, <2>1, <2>2, <2>3 DEF Right
<1> QED
  BY <1>3, <1>8, <1>9 DEF added, entry

-----------------------------------------------------------------------------
(* The types, and which steps belong to which operation.                     *)
LEMMA NoLocalsTyped ==
  /\ NoEntries \in Indexes /\ NoLocals \in Locals
  /\ NoLocals.op = "none" /\ NoLocals.mem = NoEntries
BY DEF NoLocals, Locals, NoEntries, Indexes

LEMMA InitInv == Init => IInv
<1> SUFFICES ASSUME Init PROVE IInv
  OBVIOUS
<1>1. TypeOK /\ OpSteps
  BY NoLocalsTyped DEF Init, TypeOK, OpSteps
<1>2. db = None /\ Loaded = NoEntries /\ \A f \in File : prots[f] = None
  BY DEF Init, Loaded
<1>3. Indexed
  BY <1>2 DEF Indexed, Right, NoEntries
<1> QED
  BY <1>1, <1>2, <1>3, NoLocalsTyped, MarkAssumption DEF Init, IInv, Alone, Met, Empty, Readable, Work,
     SidecarMatches, Busy

\* One process takes a step: it goes to step, with the locals new.
Moves(p, step, new) ==
    /\ pc' = [pc EXCEPT ![p] = step]
    /\ local' = [local EXCEPT ![p] = new]

LEMMA MovesTyped ==
  ASSUME TypeOK, OpSteps, NEW p \in Proc, NEW step \in Steps \cup {"idle"}, NEW new \in Locals,
         Moves(p, step, new),
         step = "idle" => new.op = "none",
         step # "idle" => new.op \in {"create", "publish", "rebuild"},
         step \in {"copy", "hash", "load"} => new.op = "publish",
         step = "scan" => new.op = "rebuild",
         new.op = "publish" => new.file \in File /\ prots'[new.file] # None,
         step = "copy" => new.source \in Content,
         step = "load" => new.mem[new.file.name] \in Entries,
         \A f \in File : prots[f] # None => prots'[f] # None,
         new.op = "create" => step \in {"save", "write", "rename", "sidecar"},
         new.op = "rebuild" => step \in {"scan", "write", "rename", "sidecar"}
  PROVE  /\ pc' \in [Proc -> Steps \cup {"idle"}] /\ local' \in [Proc -> Locals]
         /\ OpSteps'
BY DEF TypeOK, OpSteps, Moves

LEMMA BeginTyped ==
  ASSUME TypeOK, NEW p \in Proc, Begin(p)
  PROVE  solo' \subseteq Proc /\ dirty' \subseteq Name /\ stale' \in BOOLEAN
BY DEF TypeOK, Begin

LEMMA StartTyped ==
  ASSUME TypeOK, OpSteps, NEW p \in Proc,
         \/ Create(p)
         \/ \E f \in File, c \in Content : Publish(p, f, c)
         \/ Rebuild(p)
  PROVE  TypeOK' /\ OpSteps'
<1>1. solo' \subseteq Proc /\ dirty' \subseteq Name /\ stale' \in BOOLEAN
  BY BeginTyped DEF Create, Publish, Rebuild
<1>2. CASE Create(p)
  <2> DEFINE new == [NoLocals EXCEPT !.op = "create"]
  <2>1. new \in Locals /\ new.op = "create"
    BY NoLocalsTyped DEF NoLocals, Locals
  <2>2. Moves(p, "save", new)
    BY <1>2 DEF Create, Moves, Goto
  <2> HIDE DEF new
  <2> QED
    BY <1>1, <1>2, <2>1, <2>2, MovesTyped DEF Create, TypeOK, Steps
<1>3. ASSUME NEW f \in File, NEW c \in Content, Publish(p, f, c)
      PROVE  TypeOK' /\ OpSteps'
  <2> DEFINE new == [NoLocals EXCEPT !.op = "publish", !.file = f, !.source = c]
  <2>1. new \in Locals /\ new.op = "publish" /\ new.file = f /\ new.source = c
    BY NoLocalsTyped DEF NoLocals, Locals
  <2>2. Moves(p, "copy", new)
    BY <1>3 DEF Publish, Moves, Goto
  <2>3. prots' \in [File -> Content \cup {None, Partial}]
    BY <1>3 DEF Publish, TypeOK
  <2>4. prots'[f] # None /\ \A g \in File : prots[g] # None => prots'[g] # None
    BY <1>3, MarkAssumption DEF Publish, TypeOK
  <2> HIDE DEF new
  <2> QED
    BY <1>1, <1>3, <2>1, <2>2, <2>3, <2>4, MovesTyped DEF Publish, TypeOK, Steps
<1>4. CASE Rebuild(p)
  <2> DEFINE new == [NoLocals EXCEPT !.op = "rebuild", !.todo = File]
  <2>1. new \in Locals /\ new.op = "rebuild"
    BY NoLocalsTyped DEF NoLocals, Locals
  <2>2. Moves(p, "scan", new)
    BY <1>4 DEF Rebuild, Moves, Goto
  <2> HIDE DEF new
  <2> QED
    BY <1>1, <1>4, <2>1, <2>2, MovesTyped DEF Rebuild, TypeOK, Steps
<1> QED
  BY <1>2, <1>3, <1>4

(* add_entry makes an index of an index.                                     *)
LEMMA AddEntryTyped ==
  ASSUME NEW index \in Indexes, NEW entry \in Entries
  PROVE  AddEntry(index, entry) \in Indexes
BY DEF AddEntry, Indexes, Entries, Name

LEMMA PublishTyped ==
  ASSUME TypeOK, OpSteps, NEW p \in Proc,
         Copy(p) \/ Hash(p) \/ LoadIndex(p)
  PROVE  TypeOK' /\ OpSteps'
<1> DEFINE l == local[p]
           f == l.file
<1>1. l \in Locals /\ l.op = "publish" /\ f \in File /\ f.name \in Name /\ prots[f] # None
  BY DEF TypeOK, OpSteps, Copy, Hash, LoadIndex, Name
<1>2. CASE Copy(p)
  <2>1. Moves(p, "hash", l)
    BY <1>2 DEF Copy, Moves, Goto, TypeOK
  <2>2. PICK c \in Content \cup {Partial} : prots' = [prots EXCEPT ![f] = c]
    BY <1>2 DEF Copy, OpSteps
  <2>3. prots' \in [File -> Content \cup {None, Partial}]
    BY <1>1, <2>2 DEF TypeOK
  <2>4. prots'[f] # None /\ \A g \in File : prots[g] # None => prots'[g] # None
    BY <1>1, <2>2, MarkAssumption DEF TypeOK
  <2> HIDE DEF l
  <2> QED
    BY <1>1, <1>2, <2>1, <2>3, <2>4, MovesTyped DEF Copy, TypeOK, Steps, history
<1>3. CASE Hash(p)
  <2> DEFINE new == [l EXCEPT !.source = None, !.mem = [@ EXCEPT ![f.name] = EntryFor(f)]]
  <2>1. Moves(p, "load", new)
    BY <1>3 DEF Hash, Moves, Goto, TypeOK
  <2>2. EntryFor(f) \in Entries
    BY <1>1 DEF EntryFor, Entries, TypeOK
  <2>3. [l.mem EXCEPT ![f.name] = EntryFor(f)] \in Indexes
    BY <1>1, <2>2 DEF Indexes, Locals
  <2>4. new \in Locals /\ new.op = "publish" /\ new.file = f /\ new.mem[f.name] = EntryFor(f)
    BY <1>1, <2>3 DEF Locals, Indexes
  <2> HIDE DEF l, new
  <2> QED
    BY <1>1, <1>3, <2>1, <2>2, <2>4, MovesTyped DEF Hash, TypeOK, Steps, history
<1>4. CASE LoadIndex(p)
  <2> DEFINE mem == AddEntry(Loaded, l.mem[f.name])
             new == [l EXCEPT !.mem = mem]
  <2>1. Moves(p, "save", new)
    BY <1>4 DEF LoadIndex, Moves, Goto, TypeOK
  <2>2. mem \in Indexes
    <3>1. Loaded \in Indexes
      BY NoLocalsTyped DEF Loaded, TypeOK
    <3>2. l.mem[f.name] \in Entries
      BY <1>4 DEF LoadIndex, OpSteps
    <3> QED
      BY <3>1, <3>2, AddEntryTyped
  <2> HIDE DEF mem
  <2>3. new \in Locals /\ new.op = "publish" /\ new.file = f
    BY <1>1, <2>2 DEF Locals
  <2> HIDE DEF l, new
  <2> QED
    BY <1>1, <1>4, <2>1, <2>3, MovesTyped DEF LoadIndex, TypeOK, Steps, history
<1> QED
  BY <1>2, <1>3, <1>4

LEMMA ScanTyped ==
  ASSUME TypeOK, OpSteps, NEW p \in Proc, NEW f \in File, ScanProt(p, f) \/ ScanAbsent(p, f)
  PROVE  TypeOK' /\ OpSteps'
<1> DEFINE l == local[p]
<1>1. l \in Locals /\ l.op = "rebuild" /\ pc[p] = "scan" /\ f \in l.todo
  BY DEF TypeOK, OpSteps, ScanProt, ScanAbsent
<1>2. PICK mem \in Indexes : Moves(p, "scan", [l EXCEPT !.todo = @ \ {f}, !.mem = mem])
  <2>1. CASE ScanProt(p, f)
    <3>1. EntryFor(f) \in Entries
      BY <2>1 DEF ScanProt, EntryFor, Entries, TypeOK
    <3>2. AddEntry(l.mem, EntryFor(f)) \in Indexes
      BY <1>1, <3>1, AddEntryTyped DEF Locals
    <3>3. Moves(p, "scan", [l EXCEPT !.todo = @ \ {f}, !.mem = AddEntry(@, EntryFor(f))])
      BY <1>1, <2>1 DEF ScanProt, Moves, TypeOK
    <3> QED
      BY <3>2, <3>3
  <2>2. CASE ScanAbsent(p, f)
    <3>1. [l EXCEPT !.todo = @ \ {f}, !.mem = l.mem] = [l EXCEPT !.todo = @ \ {f}]
      BY <1>1 DEF Locals
    <3>2. Moves(p, "scan", [l EXCEPT !.todo = @ \ {f}])
      BY <1>1, <2>2 DEF ScanAbsent, Moves, TypeOK
    <3> QED
      BY <1>1, <3>1, <3>2 DEF Locals
  <2> QED
    BY <2>1, <2>2
<1> DEFINE new == [l EXCEPT !.todo = @ \ {f}, !.mem = mem]
<1>3. new \in Locals /\ new.op = "rebuild"
  BY <1>1 DEF Locals
<1>4. UNCHANGED <<prots, db, tmp, sidecar, history>>
  BY DEF ScanProt, ScanAbsent
<1> HIDE DEF l, new
<1> QED
  BY <1>2, <1>3, <1>4, MovesTyped DEF TypeOK, Steps, history, new

LEMMA SaveTyped ==
  ASSUME TypeOK, OpSteps, NEW p \in Proc, Save(p) \/ WriteTmp(p) \/ WriteSidecar(p) \/ Stop(p)
  PROVE  TypeOK' /\ OpSteps'
<1> DEFINE l == local[p]
<1>1. l \in Locals /\ l.op \in {"create", "publish", "rebuild"} /\ l.mem \in Indexes
  BY DEF TypeOK, OpSteps, Save, WriteTmp, WriteSidecar, Stop, Locals
<1>2. l.op = "publish" => l.file \in File /\ prots[l.file] # None
  BY DEF OpSteps
<1>3. ASSUME NEW fd \in {"none", "tmp"}, NEW step \in {"write", "rename"},
             Moves(p, step, [l EXCEPT !.fd = fd]), UNCHANGED prots
      PROVE  pc' \in [Proc -> Steps \cup {"idle"}] /\ local' \in [Proc -> Locals] /\ OpSteps'
  <2> DEFINE new == [l EXCEPT !.fd = fd]
  <2>1. new \in Locals /\ new.op = l.op /\ new.file = l.file
    BY <1>1 DEF Locals
  <2>2. Moves(p, step, new) /\ UNCHANGED prots
    BY <1>3
  <2> HIDE DEF new, l
  <2> QED
    BY <1>1, <1>2, <2>1, <2>2, MovesTyped DEF Steps
<1>4. CASE Save(p)
  <2>1. Moves(p, "write", [l EXCEPT !.fd = "tmp"])
    BY <1>4 DEF Save, Moves, Goto, TypeOK
  <2> HIDE DEF l
  <2> QED
    BY <1>3, <1>4, <2>1 DEF Save, TypeOK, history
<1>5. CASE WriteTmp(p)
  <2>1. Moves(p, "rename", [l EXCEPT !.fd = "none"])
    BY <1>5 DEF WriteTmp, Moves, Goto, TypeOK
  <2>2. {db', tmp'} \subseteq Indexes \cup {None, Partial}
    BY <1>1, <1>5 DEF WriteTmp, TypeOK
  <2> HIDE DEF l
  <2> QED
    BY <1>3, <1>5, <2>1, <2>2 DEF WriteTmp, TypeOK, history
<1>6. CASE WriteSidecar(p) \/ Stop(p)
  <2>1. Moves(p, "idle", NoLocals) /\ UNCHANGED prots
    BY <1>6 DEF WriteSidecar, Stop, Moves, Goto, TypeOK
  <2>2. Pending(p) \subseteq Name
    BY <1>2 DEF Pending, Name
  <2>3. sidecar' \in Indexes \cup {None} /\ solo' \subseteq Proc /\ dirty' \subseteq Name
        /\ stale' \in BOOLEAN
    BY <1>1, <1>6, <2>2 DEF WriteSidecar, Stop, TypeOK
  <2> HIDE DEF l
  <2> QED
    BY <1>6, <2>1, <2>3, NoLocalsTyped, MovesTyped DEF WriteSidecar, Stop, TypeOK, Steps
<1> QED
  BY <1>4, <1>5, <1>6

LEMMA RenameTyped ==
  ASSUME TypeOK, OpSteps, NEW p \in Proc, RenameTmp(p)
  PROVE  TypeOK' /\ OpSteps'
<1>1. \A q \in Proc : /\ local'[q] \in Locals
                      /\ local'[q].op = local[q].op /\ local'[q].file = local[q].file
                      /\ local'[q].source = local[q].source /\ local'[q].mem = local[q].mem
  <2> SUFFICES ASSUME NEW q \in Proc
               PROVE  /\ local'[q] \in Locals
                      /\ local'[q].op = local[q].op /\ local'[q].file = local[q].file
                      /\ local'[q].source = local[q].source /\ local'[q].mem = local[q].mem
    OBVIOUS
  <2>1. local[q] \in Locals
    BY DEF TypeOK
  <2>2. PICK fd \in {"db", "none"} : local'[q] = [local[q] EXCEPT !.fd = fd]
    BY DEF RenameTmp, Renamed
  <2> QED
    BY <2>1, <2>2 DEF Locals
<1>2. local' \in [Proc -> Locals]
  BY <1>1 DEF RenameTmp
<1>3. pc' = [pc EXCEPT ![p] = "sidecar"] /\ pc[p] = "rename" /\ UNCHANGED prots
  BY DEF RenameTmp, Goto
<1>4. OpSteps'
  <2> SUFFICES ASSUME NEW q \in Proc
               PROVE  (/\ pc[q] = "idle" => local[q].op = "none"
                       /\ pc[q] # "idle" => local[q].op \in {"create", "publish", "rebuild"}
                       /\ pc[q] \in {"copy", "hash", "load"} => local[q].op = "publish"
                       /\ pc[q] = "scan" => local[q].op = "rebuild"
                       /\ local[q].op = "publish" => local[q].file \in File /\ prots[local[q].file] # None
                       /\ pc[q] = "copy" => local[q].source \in Content
                       /\ pc[q] = "load" => local[q].mem[local[q].file.name] \in Entries
                       /\ local[q].op = "create" => pc[q] \in {"save", "write", "rename", "sidecar"}
                       /\ local[q].op = "rebuild" => pc[q] \in {"scan", "write", "rename", "sidecar"})'
    BY Zenon DEF OpSteps
  <2>1. CASE q = p
    BY <1>1, <1>3, <2>1 DEF OpSteps, TypeOK
  <2>2. CASE q # p
    BY <1>1, <1>3, <2>2 DEF OpSteps, TypeOK
  <2> QED
    BY <2>1, <2>2
<1> QED
  BY <1>2, <1>3, <1>4 DEF RenameTmp, TypeOK, Steps, history

\* What a process may do once its operation has begun.
Continues(p) ==
    \/ Copy(p) \/ Hash(p) \/ LoadIndex(p)
    \/ \E f \in File : ScanProt(p, f) \/ ScanAbsent(p, f)
    \/ Save(p) \/ WriteTmp(p) \/ RenameTmp(p) \/ WriteSidecar(p) \/ Stop(p)
Starts(p) ==
    \/ Create(p)
    \/ \E f \in File, c \in Content : Publish(p, f, c)
    \/ Rebuild(p)

LEMMA StepTyped ==
  ASSUME TypeOK, OpSteps, NEW p \in Proc, Starts(p) \/ Continues(p)
  PROVE  TypeOK' /\ OpSteps'
BY StartTyped, PublishTyped, ScanTyped, SaveTyped, RenameTyped DEF Starts, Continues

LEMMA EmptyKeeps ==
  ASSUME TypeOK, OpSteps, Empty, NEW p \in Proc, Starts(p) \/ Continues(p)
  PROVE  Empty'
<1>1. CASE db = None /\ db' = None
  <2>1. UNCHANGED prots
    BY <1>1 DEF Empty, OpSteps, Starts, Continues, Create, Publish, Rebuild, Copy, Hash, LoadIndex, ScanProt,
                ScanAbsent, Save, WriteTmp, RenameTmp, WriteSidecar, Stop
  <2>2. \A q \in Proc : local'[q].op \in {"none", "create"}
    <3> SUFFICES ASSUME NEW q \in Proc
                 PROVE  local'[q].op \in {"none", "create"}
      OBVIOUS
    <3>1. local[q] \in Locals /\ local[q].op \in {"none", "create"}
      BY <1>1 DEF Empty, TypeOK
    <3>2. Create(p) \/ Save(p) \/ WriteTmp(p) \/ RenameTmp(p) \/ WriteSidecar(p) \/ Stop(p)
      BY <1>1 DEF Empty, OpSteps, Starts, Continues, Publish, Rebuild, Copy, Hash, LoadIndex, ScanProt,
                  ScanAbsent
    <3>3. local \in [Proc -> Locals]
      BY DEF TypeOK
    <3>4. CASE Create(p)
      BY <3>1, <3>3, <3>4 DEF Create, NoLocals
    <3>5. CASE Save(p) \/ WriteTmp(p)
      <4>1. PICK fd : local' = [local EXCEPT ![p].fd = fd]
        BY <3>5 DEF Save, WriteTmp
      <4>2. local'[q].op = local[q].op
        BY <3>1, <3>3, <4>1 DEF Locals
      <4> QED
        BY <3>1, <4>2
    <3>6. CASE RenameTmp(p)
      <4>1. PICK fd : local'[q] = [local[q] EXCEPT !.fd = fd]
        BY <3>6 DEF RenameTmp, Renamed
      <4> QED
        BY <3>1, <4>1 DEF Locals
    <3>7. CASE WriteSidecar(p) \/ Stop(p)
      BY <3>1, <3>3, <3>7, NoLocalsTyped DEF WriteSidecar, Stop
    <3> QED
      BY <3>2, <3>4, <3>5, <3>6, <3>7
  <2> QED
    BY <1>1, <2>1, <2>2 DEF Empty
<1>2. CASE db # None /\ db' = None
  <2>1. local[p].mem # None
    BY EntryAssumption DEF TypeOK, Locals
  <2> QED
    BY <1>2, <2>1 DEF Starts, Continues, Create, Publish, Rebuild, Copy, Hash, LoadIndex, ScanProt,
                      ScanAbsent, Save, WriteTmp, RenameTmp, WriteSidecar, Stop
<1> QED
  BY <1>1, <1>2 DEF Empty

-----------------------------------------------------------------------------
(* Once two operations have met, everything is in doubt.                     *)
LEMMA InDoubt ==
  ASSUME TypeOK', OpSteps', Empty', solo' = {}, dirty' = Name, stale'
  PROVE  IInv'
BY DEF IInv, Alone, Met, Readable, Work, Indexed, SidecarMatches

LEMMA MetKeeps ==
  ASSUME IInv, NEW p \in Proc \ solo, Continues(p)
  PROVE  IInv'
<1>1. Busy(p)
  BY DEF Busy, Continues, Copy, Hash, LoadIndex, ScanProt, ScanAbsent, Save, WriteTmp, RenameTmp,
         WriteSidecar, Stop
<1>2. dirty = Name /\ stale /\ solo = {}
  BY <1>1 DEF IInv, Met, Alone, TypeOK
<1>3. TypeOK' /\ OpSteps' /\ Empty'
  BY StepTyped, EmptyKeeps DEF IInv
<1>4. solo' = {} /\ stale' /\ dirty \subseteq dirty'
  BY <1>2 DEF Continues, Copy, Hash, LoadIndex, ScanProt, ScanAbsent, Save, WriteTmp, RenameTmp,
              WriteSidecar, Stop, history
<1>5. dirty' = Name
  BY <1>2, <1>3, <1>4 DEF TypeOK
<1> QED
  BY <1>3, <1>4, <1>5, InDoubt

\* Another file makes no difference to a package.
LEMMA RightElsewhere ==
  ASSUME NEW index \in Indexes, NEW files, NEW others, NEW f \in File,
         \A g \in File \ {f} : others[g] = files[g],
         NEW n \in Name \ {f.name}, Right(files, index, n)
  PROVE  Right(others, index, n)
<1>1. index[n] \in Entries \cup {None}
  BY DEF Indexes
<1>2. index[n] # None => index[n].file \in File
  BY <1>1 DEF Entries
<1> QED
  BY <1>2 DEF Right

LEMMA Idle ==
  ASSUME OpSteps, NEW q \in Proc, ~Busy(q)
  PROVE  local[q].op = "none" /\ Pending(q) = {}
BY DEF OpSteps, Busy, Pending

-----------------------------------------------------------------------------
(* An operation begins.                                                      *)
LEMMA StartKeeps ==
  ASSUME IInv, NEW p \in Proc, Starts(p)
  PROVE  IInv'
<1>1. TypeOK' /\ OpSteps' /\ Empty'
  BY StepTyped, EmptyKeeps DEF IInv
<1>2. Begin(p) /\ pc[p] = "idle" /\ UNCHANGED <<db, tmp, sidecar>>
  BY DEF Starts, Create, Publish, Rebuild
<1>3. CASE \E q \in Proc \ {p} : pc[q] # "idle"
  BY <1>1, <1>2, <1>3, InDoubt DEF Begin
<1>4. CASE ~\E q \in Proc \ {p} : pc[q] # "idle"
  <2>1. /\ solo' = {p} /\ dirty' = dirty /\ stale' = stale
        /\ \A q \in Proc : pc[q] = "idle" /\ local[q].op = "none"
        /\ pc'[p] \in {"save", "copy", "scan"} /\ \A q \in Proc \ {p} : pc'[q] = "idle"
    BY <1>2, <1>4 DEF Begin, IInv, OpSteps, TypeOK, Starts, Create, Publish, Rebuild, Goto
  <2>2. Alone' /\ Met' /\ Readable'
    BY <1>2, <2>1 DEF Alone, Met, Readable, IInv, Busy
  <2>3. SidecarMatches'
    BY <1>2, <2>1 DEF SidecarMatches, IInv
  <2>4. \A n \in Name \ dirty : Right(prots, Loaded, n)
    BY <2>1 DEF IInv, Indexed, Pending
  <2>5. local \in [Proc -> Locals] /\ Loaded' = Loaded
    BY <1>2 DEF IInv, TypeOK, Loaded
  <2>7. CASE Create(p)
    <3>1. local'[p].op = "create" /\ local'[p].mem = NoEntries /\ pc'[p] = "save" /\ UNCHANGED prots
      BY <2>5, <2>7, NoLocalsTyped DEF Create, NoLocals, Goto, IInv, TypeOK
    <3>2. Work'
      BY <1>2, <2>1, <2>7, <3>1 DEF Work, SaveWork, CreateWork, Create
    <3>3. Indexed'
      BY <2>1, <2>4, <2>5, <3>1 DEF Indexed
    <3> QED
      BY <1>1, <2>2, <2>3, <3>2, <3>3 DEF IInv
  <2>8. ASSUME NEW f \in File, NEW c \in Content, Publish(p, f, c)
        PROVE  IInv'
    <3>1. /\ local'[p].op = "publish" /\ local'[p].file = f /\ pc'[p] = "copy"
          /\ prots' = [prots EXCEPT ![f] = Partial]
      BY <2>5, <2>8 DEF Publish, NoLocals, Goto, IInv, TypeOK
    <3>2. \A g \in File \ {f} : prots'[g] = prots[g]
      BY <3>1 DEF IInv, TypeOK
    <3>3. Loaded \in Indexes
      BY NoLocalsTyped DEF IInv, TypeOK, Loaded
    <3>4. f.name \notin dirty => Kept(prots', f, Loaded[f.name])
      <4>1. f.name \in Name
        BY DEF Name
      <4>2. Loaded[f.name] = None \/ Loaded[f.name].file \in File
        BY <3>3, <4>1 DEF Indexes, Entries
      <4> QED
        BY <2>4, <3>2, <4>1, <4>2 DEF Kept, Right
    <3>5. Work'
      BY <2>1, <2>5, <3>1, <3>4 DEF Work, SaveWork, PublishWork
    <3>6. \A n \in Name \ dirty : n # f.name => Right(prots', Loaded, n)
      BY <2>4, <3>2, <3>3, RightElsewhere
    <3>7. Indexed'
      BY <2>1, <2>5, <3>1, <3>6 DEF Indexed, Pending
    <3> QED
      BY <1>1, <2>2, <2>3, <3>5, <3>7 DEF IInv
  <2>9. CASE Rebuild(p)
    <3>1. /\ local'[p].op = "rebuild" /\ local'[p].mem = NoEntries /\ local'[p].todo = File
          /\ pc'[p] = "scan" /\ UNCHANGED prots
      BY <2>5, <2>9, NoLocalsTyped DEF Rebuild, NoLocals, Goto, IInv, TypeOK
    <3>2. \A n \in Name : Right(Seen(prots, File), NoEntries, n)
      BY DEF Right, Seen, NoEntries
    <3>3. Work'
      BY <2>1, <3>1, <3>2 DEF Work, SaveWork, RebuildWork
    <3>4. Indexed'
      BY <2>1, <2>4, <2>5, <3>1 DEF Indexed
    <3> QED
      BY <1>1, <2>2, <2>3, <3>3, <3>4 DEF IInv
  <2> QED
    BY <2>7, <2>8, <2>9 DEF Starts
<1> QED
  BY <1>3, <1>4

-----------------------------------------------------------------------------
(* An operation that is alone goes on.                                       *)
LEMMA OnlyOne ==
  ASSUME IInv, NEW p \in solo
  PROVE  /\ p \in Proc /\ solo = {p} /\ pc[p] # "idle" /\ local[p] \in Locals
         /\ \A q \in Proc \ {p} : pc[q] = "idle" /\ local[q].op = "none"
BY DEF IInv, TypeOK, Alone, OpSteps, Busy

\* What it goes on with is for each step to show; it stays alone.
LEMMA StaysAlone ==
  ASSUME IInv, NEW p \in solo, Continues(p), UNCHANGED <<solo, dirty, stale>>,
         NEW step \in Steps, pc' = [pc EXCEPT ![p] = step],
         Work', Indexed', UNCHANGED <<db, sidecar>> \/ (Readable' /\ step = "sidecar")
  PROVE  IInv'
<1>1. p \in Proc /\ solo = {p} /\ pc[p] # "idle" /\ \A q \in Proc \ {p} : pc[q] = "idle"
  BY OnlyOne
<1>2. TypeOK' /\ OpSteps' /\ Empty'
  BY <1>1, StepTyped, EmptyKeeps DEF IInv
<1>3. pc'[p] = step /\ step # "idle" /\ \A q \in Proc \ {p} : pc'[q] = "idle"
  BY <1>1 DEF IInv, TypeOK, Steps
<1>4. Alone' /\ Met'
  BY <1>1, <1>3 DEF Alone, Met, Busy
<1>5. Readable'
  BY DEF IInv, Readable
<1>6. SidecarMatches'
  <2>1. CASE step = "sidecar"
    BY <1>1, <1>3, <2>1 DEF SidecarMatches
  <2>2. CASE UNCHANGED <<db, sidecar>>
    <3>1. CASE pc[p] # "sidecar"
      BY <1>1, <2>2, <3>1 DEF IInv, SidecarMatches
    <3>2. CASE pc[p] = "sidecar" /\ step # "sidecar"
      BY <1>1, <1>3, <3>2, MarkAssumption DEF Continues, Copy, Hash, LoadIndex, ScanProt, ScanAbsent, Save, WriteTmp,
         RenameTmp, WriteSidecar, Stop, Goto, IInv, TypeOK
    <3> QED
      BY <2>1, <3>1, <3>2
  <2> QED
    BY <2>1, <2>2
<1> QED
  BY <1>2, <1>4, <1>5, <1>6 DEF IInv

LEMMA CopyKeeps ==
  ASSUME IInv, NEW p \in solo, Copy(p)
  PROVE  IInv'
<1> DEFINE f == local[p].file
<1>1. /\ p \in Proc /\ solo = {p} /\ \A q \in Proc \ {p} : local[q].op = "none"
      /\ local[p].op = "publish" /\ f \in File /\ f.name \in Name /\ pc[p] = "copy"
  BY OnlyOne DEF IInv, OpSteps, Copy, Name
<1>2. /\ UNCHANGED <<db, tmp, sidecar, local, solo, dirty, stale>>
      /\ pc' = [pc EXCEPT ![p] = "hash"] /\ pc'[p] = "hash"
      /\ \A g \in File \ {f} : prots'[g] = prots[g]
  BY <1>1 DEF Copy, history, Goto, IInv, TypeOK
<1>3. Loaded' = Loaded /\ Loaded \in Indexes
  BY <1>2, NoLocalsTyped DEF Loaded, IInv, TypeOK
<1>4. f.name \notin dirty => Kept(prots', f, Loaded[f.name])
  <2>1. f.name \notin dirty => Kept(prots, f, Loaded[f.name])
    BY <1>1 DEF IInv, Work, PublishWork
  <2>2. Loaded[f.name] = None \/ Loaded[f.name].file \in File
    BY <1>1, <1>3 DEF Indexes, Entries
  <2> QED
    BY <1>2, <2>1, <2>2 DEF Kept
<1>5. Work'
  BY <1>1, <1>2, <1>3, <1>4 DEF Work, SaveWork, PublishWork
<1>6. Indexed'
  <2>1. \A n \in Name \ dirty : n # f.name => Right(prots, Loaded, n)
    BY <1>1 DEF IInv, Indexed, Pending
  <2>2. \A n \in Name \ dirty : n # f.name => Right(prots', Loaded, n)
    BY <1>1, <1>2, <1>3, <2>1, RightElsewhere
  <2> QED
    BY <1>1, <1>2, <1>3, <2>2 DEF Indexed, Pending
<1> QED
  BY <1>2, <1>5, <1>6, StaysAlone DEF Continues, Steps

LEMMA HashKeeps ==
  ASSUME IInv, NEW p \in solo, Hash(p)
  PROVE  IInv'
<1> DEFINE f == local[p].file
<1>1. /\ p \in Proc /\ solo = {p} /\ \A q \in Proc \ {p} : local[q].op = "none"
      /\ local[p] \in Locals /\ local[p].op = "publish" /\ f \in File /\ f.name \in Name /\ pc[p] = "hash"
  BY OnlyOne DEF IInv, OpSteps, Hash, Name
<1>2. /\ UNCHANGED <<prots, db, tmp, sidecar, solo, dirty, stale>>
      /\ pc' = [pc EXCEPT ![p] = "load"] /\ pc'[p] = "load"
  BY <1>1 DEF Hash, history, Goto, IInv, TypeOK
<1>3. /\ local'[p].op = "publish" /\ local'[p].file = f
      /\ local'[p].mem[f.name] = [file |-> f, of |-> prots[f]]
      /\ \A q \in Proc \ {p} : local'[q] = local[q]
  BY <1>1 DEF Hash, IInv, TypeOK, Locals, Indexes, EntryFor
<1>4. Loaded' = Loaded
  BY <1>2 DEF Loaded
<1>5. Work'
  BY <1>1, <1>2, <1>3, <1>4 DEF IInv, Work, SaveWork, PublishWork
<1>6. Indexed'
  BY <1>1, <1>2, <1>3, <1>4 DEF IInv, Indexed, Pending
<1> QED
  BY <1>2, <1>5, <1>6, StaysAlone DEF Continues, Steps

LEMMA LoadKeeps ==
  ASSUME IInv, NEW p \in solo, LoadIndex(p)
  PROVE  IInv'
<1> DEFINE f == local[p].file
           mem == AddEntry(Loaded, [file |-> f, of |-> prots[f]])
<1>1. /\ p \in Proc /\ solo = {p} /\ \A q \in Proc \ {p} : local[q].op = "none"
      /\ local[p] \in Locals /\ local[p].op = "publish" /\ f \in File /\ f.name \in Name /\ pc[p] = "load"
      /\ prots[f] \in Content \cup {Partial}
      /\ local[p].mem[f.name] = [file |-> f, of |-> prots[f]]
  BY OnlyOne DEF IInv, OpSteps, LoadIndex, Name, TypeOK, Work, PublishWork
<1>2. /\ UNCHANGED <<prots, db, tmp, sidecar, solo, dirty, stale>>
      /\ pc' = [pc EXCEPT ![p] = "save"] /\ pc'[p] = "save"
  BY <1>1 DEF LoadIndex, history, Goto, IInv, TypeOK
<1>3. /\ local'[p].op = "publish" /\ local'[p].file = f /\ local'[p].mem = mem
      /\ \A q \in Proc \ {p} : local'[q] = local[q]
  BY <1>1 DEF LoadIndex, IInv, TypeOK, Locals
<1>4. Loaded' = Loaded /\ Loaded \in Indexes
  BY <1>2, NoLocalsTyped DEF Loaded, IInv, TypeOK
<1>5. f.name \notin dirty => Kept(prots, f, Loaded[f.name])
  BY <1>1 DEF IInv, Work, PublishWork
<1>6. \A n \in Name \ dirty : Right(prots, mem, n)
  <2> SUFFICES ASSUME NEW n \in Name \ dirty PROVE Right(prots, mem, n)
    OBVIOUS
  <2>1. CASE n = f.name
    BY <1>1, <1>4, <1>5, <2>1, AddedRight
  <2>2. CASE n # f.name
    <3>1. Right(prots, Loaded, n)
      BY <1>1, <2>2 DEF IInv, Indexed, Pending
    <3>2. mem[n] = Loaded[n]
      BY <1>1, <1>4, <2>2 DEF AddEntry, Indexes
    <3> HIDE DEF mem
    <3> QED
      BY <3>1, <3>2 DEF Right
  <2> QED
    BY <2>1, <2>2
<1> HIDE DEF mem
<1>7. Work'
  BY <1>1, <1>2, <1>3, <1>4, <1>5, <1>6 DEF Work, SaveWork, PublishWork
<1>8. Indexed'
  BY <1>1, <1>2, <1>3, <1>4 DEF IInv, Indexed, Pending
<1> QED
  BY <1>2, <1>7, <1>8, StaysAlone DEF Continues, Steps

LEMMA ScanKeeps ==
  ASSUME IInv, NEW p \in solo, NEW f \in File, ScanProt(p, f) \/ ScanAbsent(p, f)
  PROVE  IInv'
<1> DEFINE todo == local[p].todo
           seen == Seen(prots, todo)
           now == Seen(prots, todo \ {f})
           mem == local[p].mem
<1>1. /\ p \in Proc /\ solo = {p} /\ \A q \in Proc \ {p} : local[q].op = "none"
      /\ local[p] \in Locals /\ local[p].op = "rebuild" /\ pc[p] = "scan" /\ f \in todo
      /\ mem \in Indexes /\ f.name \in Name
  BY OnlyOne DEF IInv, OpSteps, ScanProt, ScanAbsent, Name, Locals
<1>2. /\ UNCHANGED <<prots, db, tmp, sidecar, pc, solo, dirty, stale>>
      /\ pc' = [pc EXCEPT ![p] = "scan"]
  BY <1>1 DEF ScanProt, ScanAbsent, history, IInv, TypeOK
<1>3. Loaded' = Loaded
  BY <1>2 DEF Loaded
<1>4. \A n \in Name : Right(seen, mem, n)
  BY <1>1 DEF IInv, Work, RebuildWork
<1>5. /\ local'[p].op = "rebuild" /\ local'[p].todo = todo \ {f}
      /\ \A n \in Name : Right(now, local'[p].mem, n)
      /\ \A q \in Proc \ {p} : local'[q] = local[q]
  <2>1. CASE ScanProt(p, f)
    <3> DEFINE added == AddEntry(mem, [file |-> f, of |-> now[f]])
    <3>1. now[f] = prots[f] /\ prots[f] \in Content \cup {Partial}
      BY <2>1 DEF Seen, ScanProt, IInv, TypeOK
    <3>2. /\ local'[p].op = "rebuild" /\ local'[p].todo = todo \ {f} /\ local'[p].mem = added
          /\ \A q \in Proc \ {p} : local'[q] = local[q]
      BY <1>1, <2>1, <3>1 DEF ScanProt, IInv, TypeOK, Locals, EntryFor
    <3>3. Kept(now, f, mem[f.name])
      <4>1. mem[f.name] = None \/ mem[f.name] \in Entries
        BY <1>1 DEF Indexes
      <4>2. ASSUME mem[f.name] \in Entries
            PROVE  mem[f.name].file.name = f.name /\ mem[f.name].of = now[mem[f.name].file]
        <5>1. /\ mem[f.name].file \in File /\ mem[f.name].of # None
              /\ mem[f.name].file.name = f.name /\ mem[f.name].of = seen[mem[f.name].file]
          BY <1>1, <1>4, <4>2, EntryAssumption, MarkAssumption DEF Right, Entries
        <5> QED
          BY <5>1 DEF Seen
      <4>3. ASSUME NEW g \in File \ {f}, g.name = f.name, now[g] # None
            PROVE  mem[f.name] # None /\ Under(g, mem[f.name].file)
        <5>1. Right(seen, mem, f.name) /\ seen[g] # None
          BY <1>1, <1>4, <4>3 DEF Seen
        <5> HIDE DEF seen, mem
        <5> QED
          BY <4>3, <5>1 DEF Right
      <4> QED
        BY <4>1, <4>2, <4>3 DEF Kept
    <3> HIDE DEF mem, now
    <3>4. Right(now, added, f.name) /\ \A n \in Name \ {f.name} : added[n] = mem[n]
      BY <1>1, <3>1, <3>3, AddedRight
    <3>5. ASSUME NEW n \in Name \ {f.name} PROVE Right(now, added, n)
      <4>1. \A g \in File \ {f} : now[g] = seen[g]
        BY DEF Seen, now
      <4> HIDE DEF seen, added
      <4>2. Right(now, mem, n)
        BY <1>1, <1>4, <4>1, RightElsewhere
      <4> QED
        BY <3>4, <4>2 DEF Right
    <3> QED
      BY <3>2, <3>4, <3>5
  <2>2. CASE ScanAbsent(p, f)
    <3>1. /\ local'[p].op = "rebuild" /\ local'[p].todo = todo \ {f} /\ local'[p].mem = mem
          /\ \A q \in Proc \ {p} : local'[q] = local[q]
      BY <1>1, <2>2 DEF ScanAbsent, IInv, TypeOK, Locals
    <3>2. now = seen
      BY <2>2 DEF ScanAbsent, Seen
    <3> QED
      BY <1>4, <3>1, <3>2
  <2> QED
    BY <2>1, <2>2
<1> HIDE DEF mem, seen
<1>6. Work'
  BY <1>1, <1>2, <1>5 DEF Work, SaveWork, RebuildWork, Seen
<1>7. Indexed'
  BY <1>1, <1>2, <1>3, <1>5 DEF IInv, Indexed, Pending
<1> QED
  BY <1>2, <1>6, <1>7, StaysAlone DEF Continues, Steps

LEMMA SaveKeeps ==
  ASSUME IInv, NEW p \in solo, Save(p)
  PROVE  IInv'
<1>1. /\ p \in Proc /\ solo = {p} /\ \A q \in Proc \ {p} : local[q].op = "none"
      /\ local[p] \in Locals /\ local[p].mem \in Indexes
      /\ \/ pc[p] = "save"
         \/ pc[p] = "scan" /\ local[p].op = "rebuild" /\ local[p].todo = {}
  <2>1. /\ p \in Proc /\ solo = {p} /\ \A q \in Proc \ {p} : local[q].op = "none"
        /\ local[p] \in Locals
    BY OnlyOne
  <2>2. local[p].mem \in Indexes
    BY <2>1 DEF Locals
  <2>3. pc[p] = "scan" => local[p].op = "rebuild"
    BY <2>1 DEF IInv, OpSteps
  <2> QED
    BY <2>1, <2>2, <2>3 DEF Save
<1>2. /\ UNCHANGED <<prots, db, sidecar, solo, dirty, stale>>
      /\ pc' = [pc EXCEPT ![p] = "write"] /\ pc'[p] = "write"
  BY <1>1 DEF Save, history, Goto, IInv, TypeOK
<1>3. /\ local'[p].op = local[p].op /\ local'[p].file = local[p].file
      /\ local'[p].mem = local[p].mem /\ local'[p].fd = "tmp"
      /\ \A q \in Proc \ {p} : local'[q] = local[q]
  BY <1>1 DEF Save, IInv, TypeOK, Locals
<1>4. Loaded' = Loaded
  BY <1>2 DEF Loaded
<1>5. ASSUME local[p].op = "rebuild", NEW n \in Name
      PROVE  Right(prots, local[p].mem, n)
  <2>1. CASE pc[p] = "scan"
    <3>1. Right(Seen(prots, {}), local[p].mem, n)
      BY <1>1, <1>5, <2>1 DEF IInv, Work, RebuildWork
    <3>2. \A g \in File : Seen(prots, {})[g] = prots[g]
      BY DEF Seen
    <3>3. local[p].mem[n] # None => local[p].mem[n].file \in File
      BY <1>1 DEF Indexes, Entries
    <3> QED
      BY <3>1, <3>2, <3>3 DEF Right
  <2>2. CASE pc[p] # "scan"
    BY <1>1, <1>5, <2>2 DEF IInv, Work, RebuildWork
  <2> QED
    BY <2>1, <2>2
<1>6. Work'
  BY <1>1, <1>2, <1>3, <1>4, <1>5 DEF IInv, OpSteps, Work, SaveWork, CreateWork, PublishWork, RebuildWork
<1>7. Indexed'
  BY <1>1, <1>2, <1>3, <1>4 DEF IInv, Indexed, Pending
<1> QED
  BY <1>2, <1>6, <1>7, StaysAlone DEF Continues, Steps

LEMMA WriteKeeps ==
  ASSUME IInv, NEW p \in solo, WriteTmp(p)
  PROVE  IInv'
<1>1. /\ p \in Proc /\ solo = {p} /\ \A q \in Proc \ {p} : local[q].op = "none"
      /\ local[p] \in Locals /\ pc[p] = "write" /\ local[p].fd = "tmp"
  BY OnlyOne DEF IInv, Work, SaveWork, WriteTmp
<1>2. /\ UNCHANGED <<prots, db, sidecar, solo, dirty, stale>> /\ tmp' = local[p].mem
      /\ pc' = [pc EXCEPT ![p] = "rename"] /\ pc'[p] = "rename"
  BY <1>1 DEF WriteTmp, history, Goto, IInv, TypeOK
<1>3. /\ local'[p].op = local[p].op /\ local'[p].file = local[p].file
      /\ local'[p].mem = local[p].mem
      /\ \A q \in Proc \ {p} : local'[q] = local[q]
  BY <1>1 DEF WriteTmp, IInv, TypeOK, Locals
<1>4. Loaded' = Loaded
  BY <1>2 DEF Loaded
<1>5. Work'
  BY <1>1, <1>2, <1>3, <1>4 DEF IInv, Work, SaveWork, CreateWork, PublishWork, RebuildWork
<1>6. Indexed'
  BY <1>1, <1>2, <1>3, <1>4 DEF IInv, Indexed, Pending
<1> QED
  BY <1>2, <1>5, <1>6, StaysAlone DEF Continues, Steps

(* The index in memory, which is right, becomes nucleus.db.                  *)
LEMMA RenameKeeps ==
  ASSUME IInv, NEW p \in solo, RenameTmp(p)
  PROVE  IInv'
<1> DEFINE mem == local[p].mem
<1>1. /\ p \in Proc /\ solo = {p} /\ \A q \in Proc \ {p} : local[q].op = "none"
      /\ local[p] \in Locals /\ mem \in Indexes /\ pc[p] = "rename" /\ tmp = mem
      /\ local[p].op \in {"create", "publish", "rebuild"}
  BY OnlyOne DEF IInv, Work, SaveWork, RenameTmp, OpSteps, Locals
<1>2. /\ UNCHANGED <<prots, sidecar, solo, dirty, stale>> /\ db' = mem
      /\ pc' = [pc EXCEPT ![p] = "sidecar"] /\ pc'[p] = "sidecar"
  BY <1>1 DEF RenameTmp, history, Goto, IInv, TypeOK
<1>3. \A q \in Proc : /\ local'[q].op = local[q].op /\ local'[q].file = local[q].file
                      /\ local'[q].mem = local[q].mem
  <2> SUFFICES ASSUME NEW q \in Proc
               PROVE  /\ local'[q].op = local[q].op /\ local'[q].file = local[q].file
                      /\ local'[q].mem = local[q].mem
    OBVIOUS
  <2>1. local[q] \in Locals
    BY DEF IInv, TypeOK
  <2>2. PICK fd \in {"db", "none"} : local'[q] = [local[q] EXCEPT !.fd = fd]
    BY DEF RenameTmp, Renamed
  <2> QED
    BY <2>1, <2>2 DEF Locals
<1>4. Loaded' = mem /\ mem \notin {None, Partial}
  BY <1>1, <1>2, EntryAssumption DEF Loaded
<1>5. \A n \in Name \ dirty : Right(prots, mem, n)
  <2>1. CASE local[p].op = "create"
    <3>1. mem = NoEntries /\ \A f \in File : prots[f] = None
      BY <1>1, <2>1 DEF IInv, Work, CreateWork, Empty
    <3> QED
      BY <3>1 DEF Right, NoEntries
  <2>2. CASE local[p].op = "publish"
    BY <1>1, <2>2 DEF IInv, Work, PublishWork
  <2>3. CASE local[p].op = "rebuild"
    BY <1>1, <2>3 DEF IInv, Work, RebuildWork
  <2> QED
    BY <1>1, <2>1, <2>2, <2>3
<1> HIDE DEF mem
<1>6. Work'
  BY <1>1, <1>2, <1>3 DEF IInv, Work, SaveWork, CreateWork, PublishWork, RebuildWork, mem
<1>7. Indexed'
  BY <1>2, <1>4, <1>5 DEF Indexed
<1>8. Readable'
  BY <1>2, <1>4 DEF Readable
<1> QED
  BY <1>2, <1>6, <1>7, <1>8, StaysAlone DEF Continues, Steps

-----------------------------------------------------------------------------
(* It ends.                                                                  *)
LEMMA SidecarKeeps ==
  ASSUME IInv, NEW p \in solo, WriteSidecar(p)
  PROVE  IInv'
<1>1. /\ p \in Proc /\ solo = {p} /\ \A q \in Proc \ {p} : pc[q] = "idle" /\ local[q].op = "none"
      /\ pc[p] = "sidecar" /\ local[p].mem = db
      /\ local[p].op \in {"create", "publish", "rebuild"}
  BY OnlyOne DEF IInv, Work, SaveWork, WriteSidecar, OpSteps
<1>2. /\ UNCHANGED <<prots, db, tmp>> /\ sidecar' = db /\ solo' = {} /\ stale' = FALSE
      /\ dirty' = IF local[p].op = "rebuild" THEN {} ELSE dirty
      /\ \A q \in Proc : pc'[q] = "idle"
  BY <1>1 DEF WriteSidecar, Goto, IInv, TypeOK
<1>3. TypeOK' /\ OpSteps' /\ Empty' /\ Loaded' = Loaded
  BY <1>1, <1>2, StepTyped, EmptyKeeps DEF IInv, Continues, Loaded
<1>4. \A n \in Name \ dirty' : Right(prots, Loaded, n)
  <2>1. CASE local[p].op = "rebuild"
    <3>1. \A n \in Name : Right(prots, local[p].mem, n)
      BY <1>1, <2>1 DEF IInv, Work, RebuildWork
    <3>2. Loaded = local[p].mem
      <4>1. local[p].mem \in Indexes
        BY <1>1 DEF IInv, TypeOK, Locals
      <4> QED
        BY <1>1, <4>1, EntryAssumption DEF Loaded
    <3> QED
      BY <3>1, <3>2
  <2>2. CASE local[p].op # "rebuild"
    BY <1>1, <1>2, <2>2 DEF IInv, Indexed, Pending
  <2> QED
    BY <2>1, <2>2
<1>5. Indexed'
  BY <1>2, <1>3, <1>4 DEF Indexed
<1>6. Readable'
  <2>1. db # Partial
    <3>1. local[p].mem \in Indexes
      BY <1>1 DEF IInv, TypeOK, Locals
    <3> QED
      BY <1>1, <3>1, EntryAssumption
  <2> QED
    BY <1>2, <2>1 DEF Readable
<1> QED
  BY <1>2, <1>3, <1>5, <1>6 DEF IInv, Alone, Met, Work, SidecarMatches, Busy

\* What it has changed and not yet indexed is in doubt.
LEMMA StopKeeps ==
  ASSUME IInv, NEW p \in solo, Stop(p)
  PROVE  IInv'
<1>1. /\ p \in Proc /\ solo = {p} /\ \A q \in Proc \ {p} : pc[q] = "idle" /\ local[q].op = "none"
  BY OnlyOne
<1>2. /\ UNCHANGED <<prots, db, tmp, sidecar>> /\ solo' = {} /\ dirty' = dirty \cup Pending(p)
      /\ stale' = (stale \/ pc[p] = "sidecar")
      /\ \A q \in Proc : pc'[q] = "idle"
  BY <1>1 DEF Stop, Goto, IInv, TypeOK
<1>3. TypeOK' /\ OpSteps' /\ Empty' /\ Loaded' = Loaded
  BY <1>1, <1>2, StepTyped, EmptyKeeps DEF IInv, Continues, Loaded
<1>4. \A n \in Name \ dirty' : Right(prots, Loaded, n)
  BY <1>1, <1>2 DEF IInv, Indexed, Pending
<1>5. Indexed'
  BY <1>2, <1>3, <1>4 DEF Indexed
<1>6. Readable' /\ SidecarMatches'
  BY <1>1, <1>2, <1>3 DEF IInv, Readable, SidecarMatches, TypeOK
<1> QED
  BY <1>2, <1>3, <1>5, <1>6 DEF IInv, Alone, Met, Work, Busy

LEMMA NextKeeps == IInv /\ [Next]_vars => IInv'
<1> SUFFICES ASSUME IInv, [Next]_vars PROVE IInv'
  OBVIOUS
<1>1. ASSUME NEW p \in Proc, Starts(p) PROVE IInv'
  BY <1>1, StartKeeps
<1>2. ASSUME NEW p \in Proc \ solo, Continues(p) PROVE IInv'
  BY <1>2, MetKeeps
<1>3. ASSUME NEW p \in solo, Continues(p) PROVE IInv'
  BY <1>3, CopyKeeps, HashKeeps, LoadKeeps, ScanKeeps, SaveKeeps, WriteKeeps, RenameKeeps, SidecarKeeps,
     StopKeeps DEF Continues
<1>4. CASE UNCHANGED vars
  BY <1>4 DEF vars, IInv, TypeOK, OpSteps, Alone, Met, Empty, Readable, Work, SaveWork, CreateWork,
     PublishWork, RebuildWork, Indexed, Loaded, Pending, SidecarMatches, Busy
<1>5. CASE Next
  <2>1. PICK p \in Proc : Starts(p) \/ Continues(p)
    BY <1>5 DEF Next, Starts, Continues
  <2> QED
    BY <1>1, <1>2, <1>3, <2>1
<1> QED
  BY <1>4, <1>5

LEMMA Invariance == Spec => []IInv
BY InitInv, NextKeeps, PTL DEF Spec

-----------------------------------------------------------------------------
(* Every variable has its type in every reachable state: whatever publishes, *)
(* rebuilds and interruptions write over each other, nucleus.db and its tmp  *)
(* file hold a whole index, a part of one or nothing.                        *)
THEOREM TypeCorrect == Spec => []TypeOK
BY Invariance, PTL DEF IInv

(* The index is right about every package that no unfinished publish and no  *)
(* meeting of two operations has touched since the last undisturbed rebuild: *)
(* what publish and rebuild_index write is right of the files, and stays so  *)
(* until it is in nucleus.db.                                                *)
THEOREM IndexMatchesTheorem == Spec => []IndexMatches
<1>1. IInv => IndexMatches
  <2> SUFFICES ASSUME IInv, NEW n \in Settled
               PROVE  IF Present(n) = {}
                        THEN db # Partial /\ Loaded[n] = None
                        ELSE Loaded[n] # None /\ Loaded[n].of = prots[Loaded[n].file]
    BY DEF IndexMatches
  <2>1. Right(prots, Loaded, n)
    BY DEF IInv, Indexed, Settled
  <2>2. db # Partial
    BY DEF IInv, Readable, Settled
  <2> QED
    BY <2>1, <2>2 DEF Right, Present
<1> QED
  BY <1>1, Invariance, PTL

(* Among the files of such a package there is none of a higher version, or   *)
(* of a higher release of the version, than the indexed one, if versions     *)
(* compare alike as numbers and as text: add_entry's three comparisons then  *)
(* follow one order, and it matters not in which order packages are          *)
(* published or scanned.  Without Alike it is not so: 1.10 is replaced by    *)
(* 1.9, whose text comes after it.                                           *)
THEOREM NewestIndexedTheorem ==
  ASSUME Alike
  PROVE  Spec => []NewestIndexed
<1>1. IInv => NewestIndexed
  <2> SUFFICES ASSUME IInv, NEW n \in Settled, NEW f \in File, f \in Present(n), Loaded[n] # None,
                      Parsed(f, Loaded[n].file)
               PROVE  /\ f.num <= Loaded[n].file.num
                      /\ Equal(f, Loaded[n].file) => f.rel <= Loaded[n].file.rel
    BY DEF NewestIndexed
  <2> DEFINE g == Loaded[n].file
  <2>1. f.name = n /\ prots[f] # None
    BY DEF Present
  <2>2. Under(f, g)
    BY <2>1 DEF IInv, Indexed, Settled, Right
  <2>3. g \in File
    <3>1. Loaded \in Indexes /\ n \in Name
      BY NoLocalsTyped DEF IInv, TypeOK, Loaded, Settled
    <3> QED
      BY <3>1 DEF Indexes, Entries
  <2> HIDE DEF g
  <2>4. {f.num, f.text, f.rel, g.num, g.text, g.rel} \subseteq Nat
    BY <2>3, FileAssumption
  <2>5. Parsed(f, g) /\ Parsed(g, f)
    BY DEF Parsed, g
  <2>6. (g.num < f.num => g.text < f.text) /\ (Equal(f, g) => f.text = g.text)
    BY <2>3, <2>5 DEF Alike
  <2>7. f.text = g.text => f.num = g.num
    BY <2>3, FileAssumption
  <2>8. f.num <= g.num /\ (Equal(f, g) => f.rel <= g.rel)
    BY <2>2, <2>4, <2>5, <2>6, <2>7 DEF Under, Parsed
  <2> QED
    BY <2>8 DEF g
<1> QED
  BY <1>1, Invariance, PTL

(* nucleus.db.sha256 is the hash of nucleus.db whenever no process is        *)
(* between the two files, once the last save was not cut short there and met *)
(* no other: the order rename, then sidecar, of save.                        *)
THEOREM SidecarTheorem == Spec => []SidecarMatches
BY Invariance, PTL DEF IInv
=============================================================================
