--------------------------- MODULE PhaseRunProofs ---------------------------
(***************************************************************************)
(* Proofs about PhaseRun, for scripts of any length and pipes of any size. *)
(* ScriptOver: a phase that returned a status has left nothing that writes *)
(* to its output; a thread that ended has seen the end of its pipe, or a   *)
(* line that was not UTF-8.  OutputKept: the lines of a stream go through  *)
(* its pipe, the channel and the builder's hand to the transcript, and at  *)
(* every step those places together hold what was written.  What Of        *)
(* computes is proved by induction, from the least number that is not in a *)
(* set.                                                                    *)
(***************************************************************************)
EXTENDS PhaseRun, FiniteSetTheorems, SequenceTheorems, WellFoundedInduction, TLAPS

Text == {"plain", "binary"}
PrintedLine == [of : Stream, text : Text, n : Nat]

-----------------------------------------------------------------------------
(* Induction over the naturals, and over sequences, for sets.               *)
LEMMA SetInduction ==
  ASSUME NEW T, 0 \in T, \A n \in Nat : n \in T => n + 1 \in T
  PROVE  \A n \in Nat : n \in T
<1> DEFINE U == Nat \ T
<1>1. SUFFICES ASSUME U # {} PROVE FALSE
  OBVIOUS
<1>2. PICK m \in U : \A k \in U : <<k, m>> \notin OpToRel(<, Nat)
  <2>1. U \subseteq Nat
    OBVIOUS
  <2> HIDE DEF U
  <2> QED
    BY <1>1, <2>1, WFMin, NatLessThanWellFounded
<1>3. m # 0 /\ m - 1 \in Nat /\ m - 1 < m
  OBVIOUS
<1>4. <<m - 1, m>> \in OpToRel(<, Nat)
  BY <1>3 DEF OpToRel
<1>5. m - 1 \in T
  BY <1>2, <1>3, <1>4
<1> QED
  BY <1>3, <1>5

LEMMA SeqInduction ==
  ASSUME NEW S, NEW T, T \subseteq Seq(S), <<>> \in T,
         \A q \in T : \A x \in S : Append(q, x) \in T
  PROVE  Seq(S) \subseteq T
<1> DEFINE N == {n \in Nat : \A q \in Seq(S) : Len(q) = n => q \in T}
<1>1. 0 \in N
  <2>1. \A q \in Seq(S) : Len(q) = 0 => q = <<>>
    OBVIOUS
  <2> QED
    BY <2>1
<1>2. ASSUME NEW n \in Nat, n \in N PROVE n + 1 \in N
  <2>1. ASSUME NEW q \in Seq(S), Len(q) = n + 1 PROVE q \in T
    <3> DEFINE r == SubSeq(q, 1, n)
    <3>1. r \in Seq(S) /\ Len(r) = n
      BY <2>1
    <3>2. q[n + 1] \in S /\ q = Append(r, q[n + 1])
      <4>1. q[n + 1] \in S
        BY <2>1, ElementOfSeq
      <4>2. \A i \in 1..n : r[i] = q[i]
        BY <2>1
      <4> HIDE DEF r
      <4>3. Append(r, q[n + 1]) \in Seq(S) /\ Len(Append(r, q[n + 1])) = Len(q)
        BY <2>1, <3>1, <4>1, AppendProperties
      <4>4. \A i \in 1..Len(q) : q[i] = Append(r, q[n + 1])[i]
        <5>1. \A i \in 1..n : Append(r, q[n + 1])[i] = r[i]
          BY <3>1, <4>1, AppendProperties
        <5>2. Append(r, q[n + 1])[n + 1] = q[n + 1]
          BY <3>1, <4>1, AppendProperties
        <5>3. \A i \in 1..Len(q) : i \in 1..n \/ i = n + 1
          BY <2>1
        <5> QED
          BY <4>2, <5>1, <5>2, <5>3
      <4> QED
        BY <2>1, <4>1, <4>3, <4>4, SeqEqual
    <3>3. r \in T
      BY <1>2, <3>1
    <3> HIDE DEF r
    <3> QED
      BY <3>2, <3>3
  <2> QED
    BY <2>1
<1> HIDE DEF N
<1>3. \A n \in Nat : n \in N
  BY <1>1, <1>2, SetInduction
<1>4. ASSUME NEW q \in Seq(S) PROVE q \in T
  <2>1. Len(q) \in Nat
    OBVIOUS
  <2> QED
    BY <1>3, <2>1 DEF N
<1> QED
  BY <1>4

(* What Of computes: the function it is defined by exists, ...              *)
IsOf(s, lines, g, n) ==
    g = [i \in 0..n |-> IF i = 0 THEN <<>>
                        ELSE IF lines[i].of = s THEN Append(g[i - 1], lines[i]) ELSE g[i - 1]]

LEMMA OfExists == ASSUME NEW s, NEW lines PROVE \A n \in Nat : \E g : IsOf(s, lines, g, n)
<1> DEFINE T == {n \in Nat : \E g : IsOf(s, lines, g, n)}
<1>1. 0 \in T
  <2> DEFINE g == [i \in 0..0 |-> <<>>]
  <2>1. IsOf(s, lines, g, 0)
    BY DEF IsOf
  <2> QED
    BY <2>1
<1>2. ASSUME NEW n \in Nat, n \in T PROVE n + 1 \in T
  <2>1. PICK g : IsOf(s, lines, g, n)
    BY <1>2
  <2> DEFINE more == IF lines[n + 1].of = s THEN Append(g[n], lines[n + 1]) ELSE g[n]
             h == [i \in 0..(n + 1) |-> IF i = n + 1 THEN more ELSE g[i]]
  <2>2. \A i \in 0..(n + 1) : h[i] = IF i = 0 THEN <<>>
                ELSE IF lines[i].of = s THEN Append(h[i - 1], lines[i]) ELSE h[i - 1]
    <3> TAKE i \in 0..(n + 1)
    <3>1. CASE i = n + 1
      BY <3>1
    <3>2. CASE i # n + 1
      <4>1. i \in 0..n /\ h[i] = g[i] /\ (i # 0 => h[i - 1] = g[i - 1])
        BY <3>2
      <4>2. g[i] = IF i = 0 THEN <<>>
                   ELSE IF lines[i].of = s THEN Append(g[i - 1], lines[i]) ELSE g[i - 1]
        BY <2>1, <4>1 DEF IsOf
      <4> HIDE DEF h
      <4> QED
        BY <4>1, <4>2
    <3> QED
      BY <3>1, <3>2
  <2>3. IsOf(s, lines, h, n + 1)
    <3>1. h = [i \in 0..(n + 1) |-> h[i]]
      OBVIOUS
    <3> HIDE DEF h
    <3> QED
      BY <2>2, <3>1 DEF IsOf
  <2> HIDE DEF h
  <2> QED
    BY <2>3
<1> HIDE DEF T
<1>3. \A n \in Nat : n \in T
  BY <1>1, <1>2, SetInduction
<1> QED
  BY <1>3 DEF T

LEMMA OfIs ==
  ASSUME NEW s, NEW lines, Len(lines) \in Nat
  PROVE  \E g : IsOf(s, lines, g, Len(lines)) /\ Of(s, lines) = g[Len(lines)]
<1>1. PICK g : IsOf(s, lines, g, Len(lines))
  BY OfExists
<1> QED
  BY <1>1 DEF Of, IsOf
LEMMA AppendConcat ==
  ASSUME NEW a \in Seq(PrintedLine), NEW b \in Seq(PrintedLine), NEW x \in PrintedLine
  PROVE  a \o Append(b, x) = Append(a \o b, x)
<1>1. <<x>> \in Seq(PrintedLine) /\ a \o b \in Seq(PrintedLine)
  OBVIOUS
<1>2. Append(b, x) = b \o <<x>> /\ Append(a \o b, x) = (a \o b) \o <<x>>
  BY <1>1, AppendIsConcat
<1> QED
  BY <1>1, <1>2, ConcatAssociative

Agree(a, b, n) == \A i \in 1..n : a[i] = b[i]

LEMMA Same ==
  ASSUME NEW s, NEW a, NEW b, NEW g, NEW h, NEW n \in Nat,
         IsOf(s, a, g, n), IsOf(s, b, h, n + 1), Agree(a, b, n)
  PROVE  g[n] = h[n]
<1> DEFINE T == {i \in Nat : i <= n => g[i] = h[i]}
<1>1. 0 \in T
  BY DEF IsOf
<1>2. ASSUME NEW i \in Nat, i \in T PROVE i + 1 \in T
  <2>1. CASE i + 1 <= n
    <3>1. i + 1 \in 0..n /\ i + 1 \in 0..(n + 1) /\ i + 1 # 0 /\ (i + 1) - 1 = i
      BY <2>1
    <3>2. g[i + 1] = IF a[i + 1].of = s THEN Append(g[i], a[i + 1]) ELSE g[i]
      BY <3>1 DEF IsOf
    <3>3. h[i + 1] = IF b[i + 1].of = s THEN Append(h[i], b[i + 1]) ELSE h[i]
      BY <3>1 DEF IsOf
    <3> QED
      BY <1>2, <2>1, <3>2, <3>3 DEF Agree
  <2>2. CASE ~(i + 1 <= n)
    BY <2>2
  <2> QED
    BY <2>1, <2>2
<1> HIDE DEF T
<1>3. n \in T
  BY <1>1, <1>2, SetInduction
<1> QED
  BY <1>3 DEF T

LEMMA OfEmpty == ASSUME NEW s PROVE Of(s, <<>>) = <<>>
<1>1. Len(<<>>) = 0
  OBVIOUS
<1>2. PICK g : IsOf(s, <<>>, g, 0) /\ Of(s, <<>>) = g[0]
  BY <1>1, OfIs
<1> QED
  BY <1>2 DEF IsOf

LEMMA OfAppend ==
  ASSUME NEW s, NEW S, NEW a \in Seq(S), NEW x \in S
  PROVE  Of(s, Append(a, x)) = IF x.of = s THEN Append(Of(s, a), x) ELSE Of(s, a)
<1>1. PICK b : b = Append(a, x)
  OBVIOUS
<1>2. PICK n : n \in Nat /\ n = Len(a)
  OBVIOUS
<1>3. Len(b) = n + 1 /\ b[n + 1] = x /\ Agree(a, b, n)
  BY <1>1, <1>2 DEF Agree
<1>4. PICK g : IsOf(s, a, g, n) /\ Of(s, a) = g[n]
  BY <1>2, OfIs
<1>5. PICK h : IsOf(s, b, h, n + 1) /\ Of(s, b) = h[n + 1]
  BY <1>3, OfIs
<1>6. g[n] = h[n]
  <2>1. n \in Nat /\ IsOf(s, a, g, n) /\ IsOf(s, b, h, n + 1) /\ Agree(a, b, n)
    BY <1>2, <1>3, <1>4, <1>5
  <2> QED
    BY <2>1, Same
<1>7. h[n + 1] = IF b[n + 1].of = s THEN Append(h[n], b[n + 1]) ELSE h[n]
  <2>1. n + 1 \in 0..(n + 1) /\ n + 1 # 0 /\ (n + 1) - 1 = n
    BY <1>2
  <2> QED
    BY <1>5, <2>1 DEF IsOf
<1> QED
  BY <1>1, <1>3, <1>4, <1>5, <1>6, <1>7

LEMMA OfType == ASSUME NEW s PROVE \A a \in Seq(PrintedLine) : Of(s, a) \in Seq(PrintedLine)
<1> DEFINE T == {a \in Seq(PrintedLine) : Of(s, a) \in Seq(PrintedLine)}
<1>1. <<>> \in T
  BY OfEmpty, EmptySeq
<1>2. \A a \in T : \A x \in PrintedLine : Append(a, x) \in T
  BY OfAppend, AppendProperties
<1> HIDE DEF T
<1>3. T \subseteq Seq(PrintedLine)
  BY DEF T
<1>4. Seq(PrintedLine) \subseteq T
  BY <1>1, <1>2, <1>3, SeqInduction
<1> QED
  BY <1>4 DEF T

LEMMA OfConcat ==
  ASSUME NEW s, NEW a \in Seq(PrintedLine)
  PROVE  \A b \in Seq(PrintedLine) : Of(s, a \o b) = Of(s, a) \o Of(s, b)
<1> DEFINE T == {b \in Seq(PrintedLine) : Of(s, a \o b) = Of(s, a) \o Of(s, b)}
<1>1. <<>> \in T
  BY OfEmpty, OfType, EmptySeq, ConcatEmptySeq
<1>2. ASSUME NEW b \in T, NEW x \in PrintedLine PROVE Append(b, x) \in T
  <2>1. b \in Seq(PrintedLine) /\ Of(s, a \o b) = Of(s, a) \o Of(s, b)
    OBVIOUS
  <2>2. a \o b \in Seq(PrintedLine) /\ Append(b, x) \in Seq(PrintedLine)
    BY <2>1
  <2>3. a \o Append(b, x) = Append(a \o b, x)
    BY <2>1, AppendConcat
  <2>4. Of(s, a \o Append(b, x)) = IF x.of = s THEN Append(Of(s, a \o b), x) ELSE Of(s, a \o b)
    <3>1. PICK c : c = a \o b
      OBVIOUS
    <3>2. c \in Seq(PrintedLine)
      BY <2>2, <3>1
    <3>3. Of(s, Append(c, x)) = IF x.of = s THEN Append(Of(s, c), x) ELSE Of(s, c)
      BY <3>2, OfAppend
    <3> QED
      BY <2>3, <3>1, <3>3
  <2>5. Of(s, Append(b, x)) = IF x.of = s THEN Append(Of(s, b), x) ELSE Of(s, b)
    BY <2>1, OfAppend
  <2>6. Append(Of(s, a) \o Of(s, b), x) = Of(s, a) \o Append(Of(s, b), x)
    <3>1. Of(s, a) \in Seq(PrintedLine) /\ Of(s, b) \in Seq(PrintedLine)
      BY <2>1, OfType
    <3> QED
      BY <3>1, AppendConcat
  <2>7. Of(s, a \o Append(b, x)) = Of(s, a) \o Of(s, Append(b, x))
    BY <2>1, <2>4, <2>5, <2>6
  <2> QED
    BY <2>2, <2>7
<1> HIDE DEF T
<1>3. T \subseteq Seq(PrintedLine)
  BY DEF T
<1>4. Seq(PrintedLine) \subseteq T
  BY <1>1, <1>2, <1>3, SeqInduction
<1> QED
  BY <1>4 DEF T

LEMMA OfOf ==
  ASSUME NEW s, NEW t
  PROVE  \A a \in Seq(PrintedLine) : Of(s, Of(t, a)) = IF s = t THEN Of(s, a) ELSE <<>>
<1> DEFINE T == {a \in Seq(PrintedLine) : Of(s, Of(t, a)) = IF s = t THEN Of(s, a) ELSE <<>>}
<1>1. <<>> \in T
  BY OfEmpty, EmptySeq
<1>2. ASSUME NEW a \in T, NEW x \in PrintedLine PROVE Append(a, x) \in T
  <2>1. a \in Seq(PrintedLine) /\ Of(s, Of(t, a)) = IF s = t THEN Of(s, a) ELSE <<>>
    OBVIOUS
  <2>2. Append(a, x) \in Seq(PrintedLine)
    BY <2>1
  <2>3. Of(t, Append(a, x)) = IF x.of = t THEN Append(Of(t, a), x) ELSE Of(t, a)
    BY <2>1, OfAppend
  <2>4. Of(s, Append(a, x)) = IF x.of = s THEN Append(Of(s, a), x) ELSE Of(s, a)
    BY <2>1, OfAppend
  <2>5. Of(s, Append(Of(t, a), x)) = IF x.of = s THEN Append(Of(s, Of(t, a)), x) ELSE Of(s, Of(t, a))
    BY <2>1, OfType, OfAppend
  <2>6. Of(s, Of(t, Append(a, x))) = IF s = t THEN Of(s, Append(a, x)) ELSE <<>>
    <3>1. CASE x.of = t
      BY <2>1, <2>3, <2>4, <2>5, <3>1
    <3>2. CASE x.of # t
      BY <2>1, <2>3, <2>4, <3>2
    <3> QED
      BY <3>1, <3>2
  <2> QED
    BY <2>2, <2>6
<1> HIDE DEF T
<1>3. T \subseteq Seq(PrintedLine)
  BY DEF T
<1>4. Seq(PrintedLine) \subseteq T
  BY <1>1, <1>2, <1>3, SeqInduction
<1> QED
  BY <1>4 DEF T
-----------------------------------------------------------------------------
(* The beginning of a sequence of lines.                                     *)
BeginningOf(p, w) == \E r \in Seq(PrintedLine) : w = p \o r

LEMMA BeginningSelf == ASSUME NEW w \in Seq(PrintedLine) PROVE BeginningOf(w, w) /\ BeginningOf(<<>>, w)
<1>1. <<>> \in Seq(PrintedLine) /\ w \o <<>> = w /\ <<>> \o w = w
  BY EmptySeq, ConcatEmptySeq
<1> QED
  BY <1>1 DEF BeginningOf

LEMMA BeginningLonger ==
  ASSUME NEW p \in Seq(PrintedLine), NEW w \in Seq(PrintedLine), NEW x \in PrintedLine, BeginningOf(p, w)
  PROVE  BeginningOf(p, Append(w, x))
<1>1. PICK r \in Seq(PrintedLine) : w = p \o r
  BY DEF BeginningOf
<1>2. p \o Append(r, x) = Append(w, x)
  BY <1>1, AppendConcat
<1>3. Append(r, x) \in Seq(PrintedLine)
  BY <1>1
<1> QED
  BY <1>2, <1>3 DEF BeginningOf

LEMMA BeginningShorter ==
  ASSUME NEW p \in Seq(PrintedLine), NEW q \in Seq(PrintedLine), NEW w, BeginningOf(p \o q, w)
  PROVE  BeginningOf(p, w)
<1>1. PICK r \in Seq(PrintedLine) : w = (p \o q) \o r
  BY DEF BeginningOf
<1>2. w = p \o (q \o r) /\ q \o r \in Seq(PrintedLine)
  BY <1>1, ConcatAssociative
<1> QED
  BY <1>2 DEF BeginningOf

LEMMA BeginningIs ==
  ASSUME NEW p \in Seq(PrintedLine), NEW w, BeginningOf(p, w)
  PROVE  p = SubSeq(w, 1, Len(p))
<1>1. PICK r \in Seq(PrintedLine) : w = p \o r
  BY DEF BeginningOf
<1>2. Len(p) \in Nat
  OBVIOUS
<1>3. CASE Len(p) = 0
  BY <1>3, SubSeqEmpty
<1>4. CASE Len(p) # 0
  <2>1. 1 \in 1..Len(p) /\ Len(p) \in 1..Len(p)
    BY <1>2, <1>4
  <2>2. SubSeq(w, 1, Len(p)) = SubSeq(p, 1, Len(p))
    BY <1>1, <2>1, SubSeqOfConcat1
  <2> QED
    BY <2>2, SubSeqFull
<1> QED
  BY <1>3, <1>4

LEMMA HeadAndTail ==
  ASSUME NEW q \in Seq(PrintedLine), q # <<>>
  PROVE  /\ Head(q) \in PrintedLine /\ <<Head(q)>> \in Seq(PrintedLine) /\ Tail(q) \in Seq(PrintedLine)
         /\ q = <<Head(q)>> \o Tail(q)
<1>1. PICK x : x = Head(q)
  OBVIOUS
<1>2. x \in PrintedLine /\ Tail(q) \in Seq(PrintedLine)
  BY <1>1
<1>3. <<x>> \in Seq(PrintedLine) /\ Len(<<x>>) = 1 /\ <<x>>[1] = x
  BY <1>2
<1>4. Len(<<x>> \o Tail(q)) = Len(q) /\ <<x>> \o Tail(q) \in Seq(PrintedLine)
  BY <1>2, <1>3, HeadTailProperties, ConcatProperties
<1>5. \A i \in 1..Len(q) : q[i] = (<<x>> \o Tail(q))[i]
  BY <1>1, <1>2, <1>3, HeadTailProperties, ConcatProperties
<1> QED
  BY <1>1, <1>2, <1>3, <1>4, <1>5, SeqEqual

\* A line that goes from a pipe to those that were taken.
LEMMA OfMoved ==
  ASSUME NEW s \in Stream, NEW a \in Seq(PrintedLine), NEW q \in Seq(PrintedLine), q # <<>>, q[1].of = s
  PROVE  /\ Of(s, Append(a, Head(q))) \o Tail(q) = Of(s, a) \o q
         /\ \A t \in Stream \ {s} : Of(t, Append(a, Head(q))) = Of(t, a)
<1>1. PICK x : x = Head(q)
  OBVIOUS
<1>2. x \in PrintedLine /\ Tail(q) \in Seq(PrintedLine) /\ x.of = s
  BY <1>1
<1>3. \A t : Of(t, Append(a, x)) = IF x.of = t THEN Append(Of(t, a), x) ELSE Of(t, a)
  BY <1>2, OfAppend
<1>4. q = <<x>> \o Tail(q) /\ <<x>> \in Seq(PrintedLine)
  BY <1>1, HeadAndTail
<1>5. Of(s, a) \in Seq(PrintedLine)
  BY OfType
<1>6. Append(Of(s, a), x) \o Tail(q) = Of(s, a) \o (<<x>> \o Tail(q))
  <2>1. Append(Of(s, a), x) = Of(s, a) \o <<x>>
    BY <1>2, <1>5, AppendIsConcat
  <2> QED
    BY <1>2, <1>4, <1>5, <2>1, ConcatAssociative
<1>7. Of(s, Append(a, x)) = Append(Of(s, a), x)
  BY <1>2, <1>3
<1>8. \A t \in Stream \ {s} : Of(t, Append(a, x)) = Of(t, a)
  BY <1>2, <1>3
<1> QED
  BY <1>1, <1>4, <1>6, <1>7, <1>8

-----------------------------------------------------------------------------
(* The invariant of the script's end.                                        *)
Types ==
    /\ sandboxed \in BOOLEAN
    /\ proc \in [Proc -> {"none", "running", "ok", "failed"}]
    /\ holds \in [Proc -> SUBSET Stream]
    /\ pending \in [Proc -> PrintedLine \cup {NoLine}]
    /\ written \in [Stream -> Seq(PrintedLine)]
    /\ pipe \in [Stream -> Seq(PrintedLine)]
    /\ reader \in [Stream -> {"none", "reading", "ended"}]

\* Who runs has its pipes: bash both of them, and who has ended none.
HoldersRun ==
    /\ \A p \in Proc : proc[p] # "running" => holds[p] = {}
    /\ proc["bash"] = "running" => holds["bash"] = Stream
    /\ \A p \in Proc : pending[p] # NoLine => proc[p] = "running"

\* What is in a pipe was written to its stream.
PipeWritten ==
    \A s \in Stream : \A n \in DOMAIN pipe[s] :
        \E m \in DOMAIN written[s] : written[s][m] = pipe[s][n]

\* Until the phase returns, and after it returned a status, a thread ends only
\* if its stream does or was cut.
EndedAtEnd ==
    \A s \in Stream :
        /\ ~sandboxed /\ (pc # "returned" \/ Returned)
        /\ reader[s] = "ended" /\ ~Cut(s)
        => Holders(s) = {}

\* Where the builder is, and what has ended by then.
HostPcs == {"recv", "transcribe", "wait"}
SandboxPcs == {"collect", "append out", "append err"}
Where ==
    /\ pc \in {"start", "returned"} \cup HostPcs \cup SandboxPcs
    /\ pc = "start" => \A s \in Stream : reader[s] = "none"
    /\ pc = "start" => proc["bash"] = "none" /\ proc["child"] = "none"
    /\ pc \in HostPcs => ~sandboxed
    /\ pc \in SandboxPcs => sandboxed
    /\ pc = "wait" => \A s \in Stream : reader[s] = "ended"
    /\ pc \in {"append out", "append err"} => /\ proc["bash"] # "running"
                                              /\ \A s \in Stream : Holders(s) = {}
    /\ pc # "returned" => result = "none"
    /\ Returned => /\ proc["bash"] = result
                   /\ ~sandboxed => \A s \in Stream : reader[s] = "ended"
                   /\ sandboxed => \A s \in Stream : Holders(s) = {}

PInv == Types /\ HoldersRun /\ PipeWritten /\ EndedAtEnd /\ Where

LEMMA PhaseInit == Init => PInv
BY DEF Init, PInv, Types, HoldersRun, PipeWritten, EndedAtEnd, Where, Holders, Returned, Stream, Proc,
       HostPcs, SandboxPcs, NoLine

-----------------------------------------------------------------------------
(* The phase begins.                                                         *)
LEMMA Begins ==
  ASSUME PInv, Spawn \/ SpawnFails
  PROVE  PInv'
<1>1. CASE Spawn
  <2>1. Types' /\ HoldersRun'
    BY <1>1 DEF Spawn, script, PInv, Types, HoldersRun, Proc, Stream, Where
  <2>2. PipeWritten'
    BY <1>1 DEF Spawn, PInv, PipeWritten
  <2>3. EndedAtEnd'
    BY <1>1 DEF Spawn, EndedAtEnd
  <2>4. Where'
    BY <1>1 DEF Spawn, PInv, Where, Returned, HostPcs, SandboxPcs
  <2> QED
    BY <2>1, <2>2, <2>3, <2>4 DEF PInv
<1>2. CASE SpawnFails
  BY <1>2 DEF SpawnFails, script, Returns, PInv, Types, HoldersRun, PipeWritten, EndedAtEnd, Where,
              Returned, Cut, Holders, HostPcs, SandboxPcs
<1> QED
  BY <1>1, <1>2

(* The builder's other steps leave the script, and on the host the pipes and *)
(* the threads, alone.                                                       *)
LEMMA BuilderKeeps ==
  ASSUME PInv,
         \/ Recv \/ Transcribe \/ TranscribeFails \/ RecvEnds \/ Wait
         \/ CollectEnds \/ AppendOut \/ AppendErr \/ AppendFails
  PROVE  PInv'
<1>1. UNCHANGED <<sandboxed, script, pipe, reader>>
  BY DEF Recv, Transcribe, TranscribeFails, RecvEnds, Wait, CollectEnds, AppendOut, AppendErr, AppendFails
<1>2. UNCHANGED <<proc, holds, pending, written>> /\ Types' /\ HoldersRun' /\ PipeWritten'
  BY <1>1 DEF script, PInv, Types, HoldersRun, PipeWritten
<1>3. \A s \in Stream : Holders(s)' = Holders(s) /\ Cut(s)' = Cut(s)
  BY <1>1, <1>2 DEF Holders, Cut
<1>4. pc # "returned"
  BY DEF Recv, Transcribe, TranscribeFails, RecvEnds, Wait, CollectEnds, AppendOut, AppendErr, AppendFails
<1>5. EndedAtEnd'
  BY <1>1, <1>3, <1>4 DEF PInv, EndedAtEnd
<1>6. Where'
  <2>1. CASE Recv \/ Transcribe \/ TranscribeFails \/ RecvEnds \/ Wait
    BY <1>1, <1>2, <1>3, <2>1 DEF Recv, Transcribe, TranscribeFails, RecvEnds, Wait, Returns, PInv, Where,
                                  Returned, HostPcs, SandboxPcs
  <2>2. CASE CollectEnds \/ AppendOut \/ AppendErr \/ AppendFails
    BY <1>1, <1>2, <1>3, <2>2 DEF CollectEnds, AppendOut, AppendErr, AppendFails, Returns, PInv, Where,
                                  Returned, HostPcs, SandboxPcs
  <2> QED
    BY <2>1, <2>2
<1> QED
  BY <1>2, <1>5, <1>6 DEF PInv

-----------------------------------------------------------------------------
LEMMA TailIndex ==
  ASSUME NEW S, NEW q \in Seq(S), q # <<>>, NEW n \in DOMAIN Tail(q)
  PROVE  n + 1 \in DOMAIN q /\ Tail(q)[n] = q[n + 1]
OBVIOUS

\* The head of a pipe is taken, and nothing else that matters here changes.
LEMMA TakenFromPipe ==
  ASSUME PInv, NEW s \in Stream, pipe[s] # <<>>, pipe' = [pipe EXCEPT ![s] = Tail(@)],
         UNCHANGED <<sandboxed, script, reader, pc, result>>
  PROVE  PInv'
<1>1. UNCHANGED <<proc, holds, pending, written>>
  BY DEF script
<1>2. Types'
  BY <1>1 DEF PInv, Types
<1>3. PipeWritten'
  <2> SUFFICES ASSUME NEW t \in Stream, NEW n \in DOMAIN pipe'[t]
               PROVE  \E m \in DOMAIN written[t] : written[t][m] = pipe'[t][n]
    BY <1>1 DEF PipeWritten
  <2>1. CASE t = s
    <3>1. pipe[s] \in Seq(PrintedLine) /\ pipe'[s] = Tail(pipe[s])
      BY DEF PInv, Types
    <3>2. n + 1 \in DOMAIN pipe[s] /\ pipe'[s][n] = pipe[s][n + 1]
      BY <2>1, <3>1, TailIndex
    <3> QED
      BY <2>1, <3>2 DEF PInv, PipeWritten
  <2>2. CASE t # s
    <3>1. pipe'[t] = pipe[t]
      BY <2>2 DEF PInv, Types
    <3> QED
      BY <3>1 DEF PInv, PipeWritten
  <2> QED
    BY <2>1, <2>2
<1>4. HoldersRun' /\ EndedAtEnd' /\ Where'
  BY <1>1 DEF PInv, HoldersRun, EndedAtEnd, Where, Holders, Cut, Returned
<1> QED
  BY <1>2, <1>3, <1>4 DEF PInv

LEMMA ReaderKeeps ==
  ASSUME PInv, NEW s \in Stream, Reader(s)
  PROVE  PInv'
<1>1. CASE ReadLine(s)
  BY <1>1, TakenFromPipe DEF ReadLine
<1>2. CASE ReadFails(s) \/ ReadEnds(s)
  <2>1. /\ UNCHANGED <<sandboxed, proc, holds, pending, written, pc, result>>
        /\ reader[s] = "reading" /\ reader' = [reader EXCEPT ![s] = "ended"]
    BY <1>2 DEF ReadFails, ReadEnds, script
  <2>2. Types' /\ PipeWritten'
    <3>1. pipe' = pipe \/ pipe' = [pipe EXCEPT ![s] = <<>>]
      BY <1>2 DEF ReadFails, ReadEnds
    <3>2. <<>> \in Seq(PrintedLine) /\ DOMAIN <<>> = {}
      OBVIOUS
    <3>3. pipe' \in [Stream -> Seq(PrintedLine)]
      BY <3>1, <3>2 DEF PInv, Types
    <3>4. \A t \in Stream : pipe'[t] = pipe[t] \/ pipe'[t] = <<>>
      BY <3>1 DEF PInv, Types
    <3>5. PipeWritten'
      BY <2>1, <3>2, <3>4 DEF PInv, PipeWritten
    <3>6. Types'
      BY <2>1, <3>3 DEF PInv, Types
    <3> QED
      BY <3>5, <3>6
  <2>3. Cut(s) \/ sandboxed \/ Holders(s) = {}
    <3>1. CASE ReadFails(s)
      <4>1. pipe[s] \in Seq(PrintedLine) /\ pipe[s] # <<>> /\ Head(pipe[s]).text = "binary"
        BY <3>1 DEF ReadFails, PInv, Types
      <4>2. 1 \in DOMAIN pipe[s] /\ Head(pipe[s]) = pipe[s][1]
        BY <4>1
      <4>3. PICK m \in DOMAIN written[s] : written[s][m] = pipe[s][1]
        BY <4>2 DEF PInv, PipeWritten
      <4> QED
        BY <4>1, <4>2, <4>3 DEF Cut, PInv, Types
    <3>2. CASE ReadEnds(s)
      BY <3>2 DEF ReadEnds
    <3> QED
      BY <1>2, <3>1, <3>2
  <2>4. \A t \in Stream : Holders(t)' = Holders(t) /\ Cut(t)' = Cut(t)
    BY <2>1 DEF Holders, Cut
  <2>5. EndedAtEnd'
    BY <2>1, <2>3, <2>4 DEF PInv, EndedAtEnd, Types, Returned
  <2>6. Where'
    BY <2>1, <2>4 DEF PInv, Types, Where, Returned
  <2> QED
    BY <2>1, <2>2, <2>5, <2>6 DEF PInv, HoldersRun
<1> QED
  BY <1>1, <1>2 DEF Reader

LEMMA CollectKeeps ==
  ASSUME PInv, NEW s \in Stream, Collect(s)
  PROVE  PInv'
BY TakenFromPipe DEF Collect

LEMMA ExitKeeps ==
  ASSUME PInv, Exit
  PROVE  PInv'
<1>1. /\ UNCHANGED <<sandboxed, proc, holds, pending, written, pc, result>>
      /\ reader' = [s \in Stream |-> "ended"]
      /\ pipe' = [s \in Stream |-> <<>>]
      /\ pc = "returned"
  BY DEF Exit, script
<1>2. <<>> \in Seq(PrintedLine) /\ DOMAIN <<>> = {}
  OBVIOUS
<1>3. Types' /\ HoldersRun' /\ PipeWritten'
  BY <1>1, <1>2 DEF PInv, Types, HoldersRun, PipeWritten
<1>4. Returned => sandboxed
  BY DEF Exit, PInv, Where
<1>5. \A t \in Stream : Holders(t)' = Holders(t) /\ Cut(t)' = Cut(t)
  BY <1>1 DEF Holders, Cut
<1>6. EndedAtEnd' /\ Where'
  BY <1>1, <1>4, <1>5 DEF PInv, EndedAtEnd, Where, Returned, HostPcs, SandboxPcs
<1> QED
  BY <1>3, <1>6 DEF PInv

-----------------------------------------------------------------------------
\* What the script's processes may do: write, end, and fork while bash runs.
WrittenStays ==
    \A s \in Stream : \A m \in DOMAIN written[s] :
        m \in DOMAIN written'[s] /\ written'[s][m] = written[s][m]

LEMMA WhereStays ==
  ASSUME Where, UNCHANGED sandboxed, UNCHANGED reader, UNCHANGED pc, UNCHANGED result, pc # "start",
         proc["bash"] # "running" =>
            /\ proc'["bash"] = proc["bash"]
            /\ \A s \in Stream : {p \in Proc : s \in holds[p]} = {} => {p \in Proc : s \in holds'[p]} = {}
  PROVE  Where'
<1>1. (/\ pc \in {"start", "returned"} \cup HostPcs \cup SandboxPcs
       /\ pc \in HostPcs => ~sandboxed
       /\ pc \in SandboxPcs => sandboxed)'
  BY DEF Where, HostPcs, SandboxPcs
<1>2. (pc = "start" => \A s \in Stream : reader[s] = "none")'
  OBVIOUS
<1>3. (pc = "start" => proc["bash"] = "none" /\ proc["child"] = "none")'
  OBVIOUS
<1>4. (pc = "wait" => \A s \in Stream : reader[s] = "ended")'
  BY DEF Where
<1>5. (pc \in {"append out", "append err"} => /\ proc["bash"] # "running"
                                              /\ \A s \in Stream : Holders(s) = {})'
  BY DEF Where, Holders
<1>6. (pc # "returned" => result = "none")'
  BY DEF Where
<1>7. (Returned => /\ proc["bash"] = result
                   /\ ~sandboxed => \A s \in Stream : reader[s] = "ended"
                   /\ sandboxed => \A s \in Stream : Holders(s) = {})'
  <2>1. Returned => proc["bash"] # "running"
    BY DEF Where, Returned
  <2> QED
    BY <2>1 DEF Where, Returned, Holders
<1> QED
  BY <1>1, <1>2, <1>3, <1>4, <1>5, <1>6, <1>7, Zenon DEF Where

LEMMA ScriptKeeps ==
  ASSUME PInv, UNCHANGED <<sandboxed, builder>>, Types', HoldersRun', PipeWritten', WrittenStays,
         pc # "start",
         proc["bash"] # "running" => /\ proc'["bash"] = proc["bash"]
                                     /\ \A p \in Proc : holds'[p] \subseteq holds[p]
  PROVE  PInv'
<1>1. UNCHANGED <<sandboxed, reader, pc, result>>
  BY DEF builder
<1>2. proc["bash"] # "running" =>
         \A s \in Stream : {p \in Proc : s \in holds[p]} = {} => {p \in Proc : s \in holds'[p]} = {}
  OBVIOUS
<1>3. EndedAtEnd'
  <2> SUFFICES ASSUME NEW s \in Stream, ~sandboxed, pc # "returned" \/ Returned,
                      reader[s] = "ended", \A n \in DOMAIN written'[s] : written'[s][n].text # "binary"
               PROVE  {p \in Proc : s \in holds'[p]} = {}
    BY <1>1 DEF EndedAtEnd, Cut, Returned, Holders
  <2>1. ~Cut(s)
    BY DEF Cut, WrittenStays
  <2>2. {p \in Proc : s \in holds[p]} = {}
    BY <2>1 DEF PInv, EndedAtEnd, Holders
  <2>3. proc["bash"] # "running"
    BY <2>2 DEF PInv, HoldersRun, Proc
  <2> QED
    BY <1>2, <2>2, <2>3
<1>4. Where'
  BY <1>1, <1>2, WhereStays DEF PInv
<1> QED
  BY <1>3, <1>4 DEF PInv

\* What was written stays.
LEMMA LinesStay ==
  ASSUME PInv, NEW s \in Stream, NEW l \in PrintedLine, UNCHANGED sandboxed,
         written' = written \/ written' = [written EXCEPT ![s] = Append(@, l)]
  PROVE  WrittenStays /\ written' \in [Stream -> Seq(PrintedLine)]
<1>1. written \in [Stream -> Seq(PrintedLine)]
  BY DEF PInv, Types
<1>2. \A t \in Stream : \A m \in DOMAIN written[t] :
         m \in DOMAIN written'[t] /\ written'[t][m] = written[t][m]
  <2> SUFFICES ASSUME NEW t \in Stream, NEW m \in DOMAIN written[t]
               PROVE  m \in DOMAIN written'[t] /\ written'[t][m] = written[t][m]
    OBVIOUS
  <2>1. CASE written'[t] = written[t]
    BY <2>1
  <2>2. CASE written'[t] = Append(written[t], l)
    <3>1. written[t] \in Seq(PrintedLine)
      BY <1>1
    <3> QED
      BY <2>2, <3>1
  <2> QED
    BY <1>1, <2>1, <2>2
<1>3. written' \in [Stream -> Seq(PrintedLine)]
  <2>1. Append(written[s], l) \in Seq(PrintedLine)
    BY <1>1
  <2> QED
    BY <1>1, <2>1
<1> QED
  BY <1>2, <1>3 DEF WrittenStays

LEMMA PrintKeeps ==
  ASSUME PInv, NEW p \in Proc, NEW s \in Stream, NEW text \in Text, Emit(p, s, text)
  PROVE  PInv'
<1>1. UNCHANGED <<sandboxed, proc, holds, written, pipe, builder>>
  BY DEF Emit
<1>2. UNCHANGED <<pc, reader, result>>
  BY <1>1 DEF builder
<1>3. Printed \in Nat
  <2>1. IsFiniteSet(Proc)
    <3>1. IsFiniteSet({} \cup {"bash"})
      BY FS_EmptySet, FS_AddElement
    <3>2. IsFiniteSet(({} \cup {"bash"}) \cup {"child"})
      BY <3>1, FS_AddElement
    <3>3. Proc = ({} \cup {"bash"}) \cup {"child"}
      BY DEF Proc
    <3> QED
      BY <3>2, <3>3
  <2>2. IsFiniteSet({q \in Proc : pending[q] # NoLine})
    BY <2>1, FS_Subset
  <2>3. Cardinality({q \in Proc : pending[q] # NoLine}) \in Nat
    BY <2>2, FS_CardinalityType
  <2> QED
    BY <2>3 DEF Printed, PInv, Types, Stream
<1>4. [of |-> s, text |-> text, n |-> Printed + 1] \in PrintedLine
  BY <1>3 DEF PrintedLine
<1>5. Types'
  BY <1>1, <1>2, <1>4 DEF Emit, PInv, Types
<1>6. HoldersRun'
  BY <1>1 DEF Emit, PInv, HoldersRun, Types
<1> QED
  BY <1>1, <1>2, <1>5, <1>6 DEF PInv, PipeWritten, EndedAtEnd, Where, Holders, Cut, Returned, HostPcs,
                                SandboxPcs

LEMMA WriteKeeps ==
  ASSUME PInv, NEW p \in Proc, Write(p) \/ \E dies \in BOOLEAN : WriteBroken(p, dies)
  PROVE  PInv'
<1> DEFINE l == pending[p]
           s == l.of
<1>1. l \in PrintedLine /\ s \in Stream
  BY DEF Write, WriteBroken, PInv, Types, PrintedLine
<1>2. /\ UNCHANGED <<sandboxed, builder>>
      /\ written' = [written EXCEPT ![s] = Append(@, l)]
      /\ pipe' = pipe \/ pipe' = [pipe EXCEPT ![s] = Append(@, l)]
      /\ pending' = [pending EXCEPT ![p] = NoLine]
      /\ \/ UNCHANGED <<proc, holds>>
         \/ /\ proc' = [proc EXCEPT ![p] = "failed"]
            /\ holds' = [holds EXCEPT ![p] = {}]
  BY DEF Write, WriteBroken
<1>3. proc[p] = "running"
  BY DEF Write, WriteBroken, PInv, HoldersRun
<1> HIDE DEF l, s
<1>4. Types'
  <2>1. written' \in [Stream -> Seq(PrintedLine)]
    BY <1>1, <1>2, LinesStay
  <2>2. pipe' \in [Stream -> Seq(PrintedLine)]
    <3>1. Append(pipe[s], l) \in Seq(PrintedLine)
      BY <1>1 DEF PInv, Types
    <3> QED
      BY <1>1, <1>2, <3>1 DEF PInv, Types
  <2> QED
    BY <1>2, <2>1, <2>2 DEF PInv, Types, builder
<1>5. HoldersRun'
  <2>1. pending'[p] = NoLine /\ \A q \in Proc \ {p} : pending'[q] = pending[q]
    BY <1>2 DEF PInv, Types
  <2>2. CASE UNCHANGED <<proc, holds>>
    BY <2>1, <2>2 DEF PInv, HoldersRun
  <2>3. CASE proc' = [proc EXCEPT ![p] = "failed"] /\ holds' = [holds EXCEPT ![p] = {}]
    BY <2>1, <2>3 DEF PInv, HoldersRun, Types, Proc
  <2> QED
    BY <1>2, <2>2, <2>3
<1>6. PipeWritten'
  <2> SUFFICES ASSUME NEW t \in Stream, NEW n \in DOMAIN pipe'[t]
               PROVE  \E m \in DOMAIN written'[t] : written'[t][m] = pipe'[t][n]
    BY DEF PipeWritten
  <2>1. pipe[t] \in Seq(PrintedLine) /\ written[t] \in Seq(PrintedLine)
    BY DEF PInv, Types
  <2>2. CASE n \in DOMAIN pipe[t] /\ pipe'[t][n] = pipe[t][n]
    <3>1. PICK m \in DOMAIN written[t] : written[t][m] = pipe[t][n]
      BY <2>2 DEF PInv, PipeWritten
    <3> QED
      BY <1>1, <1>2, <2>2, <3>1, LinesStay DEF WrittenStays
  <2>3. CASE t = s /\ pipe'[t][n] = l
    <3>1. written'[t] = Append(written[t], l)
      BY <1>1, <1>2, <2>3 DEF PInv, Types
    <3> QED
      BY <2>1, <2>3, <3>1
  <2>4. CASE pipe'[t] = pipe[t]
    BY <2>2, <2>4
  <2>5. CASE t = s /\ pipe'[t] = Append(pipe[t], l)
    <3>1. (n \in DOMAIN pipe[t] /\ pipe'[t][n] = pipe[t][n]) \/ pipe'[t][n] = l
      BY <2>1, <2>5
    <3> QED
      BY <2>2, <2>3, <2>5, <3>1
  <2> QED
    BY <1>1, <1>2, <2>4, <2>5 DEF PInv, Types
<1>7. WrittenStays /\ \A q \in Proc : holds'[q] \subseteq holds[q]
  BY <1>1, <1>2, LinesStay DEF PInv, Types
<1>8. pc # "start" /\ (proc["bash"] # "running" => proc'["bash"] = proc["bash"])
  BY <1>2, <1>3 DEF PInv, Where, Types, Proc
<1> QED
  BY <1>2, <1>4, <1>5, <1>6, <1>7, <1>8, ScriptKeeps

LEMMA ForkKeeps ==
  ASSUME PInv, NEW kept \in SUBSET Stream, Fork(kept)
  PROVE  PInv'
<1>1. /\ UNCHANGED <<sandboxed, pending, written, pipe, builder>>
      /\ proc["bash"] = "running" /\ proc["child"] = "none"
      /\ proc' = [proc EXCEPT !["child"] = "running"]
      /\ holds' = [holds EXCEPT !["child"] = kept]
  BY DEF Fork
<1>2. Types'
  BY <1>1 DEF PInv, Types, builder
<1>3. HoldersRun' /\ PipeWritten'
  BY <1>1 DEF PInv, HoldersRun, PipeWritten, Types, Proc
<1>4. WrittenStays
  BY <1>1 DEF WrittenStays
<1>5. pc # "start"
  BY <1>1 DEF PInv, Where
<1> QED
  BY <1>1, <1>2, <1>3, <1>4, <1>5, ScriptKeeps

LEMMA EndKeeps ==
  ASSUME PInv, NEW p \in Proc, NEW status \in {"ok", "failed"}, ProcExits(p, status)
  PROVE  PInv'
<1>1. /\ UNCHANGED <<sandboxed, written, pipe, builder>>
      /\ proc[p] = "running"
  BY DEF ProcExits
<1>2. Types'
  BY <1>1 DEF ProcExits, PInv, Types, builder
<1>3. HoldersRun' /\ PipeWritten'
  BY <1>1 DEF ProcExits, EndWith, PInv, HoldersRun, PipeWritten, Types, Proc
<1>4. WrittenStays /\ \A q \in Proc : holds'[q] \subseteq holds[q]
  BY <1>1 DEF ProcExits, WrittenStays
<1>5. pc # "start" /\ (proc["bash"] # "running" => proc'["bash"] = proc["bash"])
  BY <1>1 DEF ProcExits, EndWith, PInv, Where, Types, Proc
<1> QED
  BY <1>1, <1>2, <1>3, <1>4, <1>5, ScriptKeeps

-----------------------------------------------------------------------------
LEMMA PhaseStep == PInv /\ [Next]_vars => PInv'
<1> SUFFICES ASSUME PInv, [Next]_vars
             PROVE  PInv'
  OBVIOUS
<1>1. CASE Main
  BY <1>1, Begins, BuilderKeeps, CollectKeeps DEF Main
<1>2. CASE Exit
  BY <1>2, ExitKeeps
<1>3. CASE \E s \in Stream : Reader(s)
  BY <1>3, ReaderKeeps
<1>4. CASE BashSteps \/ ChildSteps
  BY <1>4, WriteKeeps, EndKeeps DEF BashSteps, ChildSteps, Proc
<1>5. CASE \E kept \in SUBSET Stream : Fork(kept)
  BY <1>5, ForkKeeps
<1>6. CASE \E p \in Proc, s \in Stream, text \in {"plain", "binary"} : Emit(p, s, text)
  BY <1>6, PrintKeeps DEF Text
<1>7. CASE UNCHANGED vars
  <2>1. UNCHANGED <<sandboxed, proc, holds, pending, written, pipe, reader, pc, result>>
    BY <1>7 DEF vars, script, builder
  <2>2. \A s \in Stream : Holders(s)' = Holders(s) /\ Cut(s)' = Cut(s)
    BY <2>1 DEF Holders, Cut
  <2>3. Types' /\ HoldersRun' /\ PipeWritten' /\ EndedAtEnd'
    BY <2>1, <2>2 DEF PInv, Types, HoldersRun, PipeWritten, EndedAtEnd, Returned
  <2>4. Where'
    BY <2>1, <2>2 DEF PInv, Where, Returned, HostPcs, SandboxPcs
  <2> QED
    BY <2>3, <2>4 DEF PInv
<1> QED
  BY <1>1, <1>2, <1>3, <1>4, <1>5, <1>6, <1>7 DEF Next

(* A phase that returned bash's status has nothing of its script left that   *)
(* could write to its output (run_phase_host, run_phase_sandboxed): what the *)
(* run phase checks for three lines, for any number of them.                 *)
THEOREM ScriptOverTheorem == Spec => []ScriptOver
<1>1. PInv => ScriptOver
  BY DEF PInv, Where, EndedAtEnd, ScriptOver, Cut, Types
<1>2. Spec => []PInv
  BY PhaseInit, PhaseStep, PTL DEF Spec
<1> QED
  BY <1>1, <1>2, PTL

-----------------------------------------------------------------------------
(* The invariant of the output.  Taken has the lines that left the pipes.    *)
InHand == IF line = NoLine THEN <<>> ELSE <<line>>
Taken == (transcript \o InHand) \o chan

LineTypes ==
    /\ chan \in Seq(PrintedLine)
    /\ transcript \in Seq(PrintedLine)
    /\ line \in PrintedLine \cup {NoLine}

\* Each pipe has lines of its stream only, and none once its thread has ended;
\* who is about to write has the pipe open.
PipesRight ==
    /\ \A s \in Stream : \A n \in DOMAIN pipe[s] : pipe[s][n].of = s
    /\ \A s \in Stream : reader[s] = "ended" => pipe[s] = <<>>
    /\ sandboxed => \A s \in Stream : reader[s] = "none"
    /\ \A p \in Proc : pending[p] # NoLine => pending[p].of \in holds[p]

\* Where the lines are at each point of the builder.
LinesAt ==
    /\ pc = "transcribe" <=> line # NoLine
    /\ pc \in {"start", "wait"} => chan = <<>>
    /\ pc \in {"start", "collect", "append out"} => transcript = <<>>
    /\ pc = "append err" => transcript = Of("out", chan)

\* Until the builder returns, what was taken and what is in the pipe is what
\* was written, or the beginning of it when the thread stopped before the end.
Reading == {"start", "collect"} \cup HostPcs
Arrives ==
    pc \in Reading => \A s \in Stream :
        LET seen == Of(s, Taken) \o pipe[s] IN
        /\ BeginningOf(seen, written[s])
        /\ reader[s] # "ended" \/ ~Cut(s) => seen = written[s]
Collected == pc \in {"append out", "append err"} => \A s \in Stream : Of(s, chan) = written[s]
KeptAtEnd ==
    pc = "returned" => \A s \in Stream :
        /\ BeginningOf(Of(s, transcript), written[s])
        /\ Returned /\ ~Cut(s) => Of(s, transcript) = written[s]

KInv == LineTypes /\ PipesRight /\ LinesAt /\ Arrives /\ Collected /\ KeptAtEnd

LEMMA TakenType == ASSUME LineTypes PROVE Taken \in Seq(PrintedLine)
<1>1. InHand \in Seq(PrintedLine)
  BY DEF InHand, LineTypes
<1> QED
  BY <1>1 DEF Taken, LineTypes

LEMMA KInit == Init => KInv
<1> SUFFICES ASSUME Init PROVE KInv
  OBVIOUS
<1>1. /\ chan = <<>> /\ transcript = <<>> /\ line = NoLine /\ pc = "start" /\ result = "none"
      /\ \A s \in Stream : pipe[s] = <<>> /\ written[s] = <<>> /\ reader[s] = "none"
      /\ \A p \in Proc : pending[p] = NoLine
  BY DEF Init
<1>2. <<>> \in Seq(PrintedLine) /\ DOMAIN <<>> = {}
  OBVIOUS
<1>3. Taken = <<>>
  BY <1>1, <1>2, ConcatEmptySeq DEF Taken, InHand
<1>4. LineTypes /\ PipesRight /\ LinesAt
  BY <1>1, <1>2 DEF LineTypes, PipesRight, LinesAt
<1>5. Arrives
  <2>1. \A s \in Stream : Of(s, Taken) \o pipe[s] = <<>> /\ written[s] = <<>>
    BY <1>1, <1>2, <1>3, OfEmpty, ConcatEmptySeq
  <2>2. BeginningOf(<<>>, <<>>)
    BY <1>2, BeginningSelf
  <2> QED
    BY <2>1, <2>2 DEF Arrives
<1>6. Collected /\ KeptAtEnd
  BY <1>1 DEF Collected, KeptAtEnd
<1> QED
  BY <1>4, <1>5, <1>6 DEF KInv

(* A step that leaves the lines where they are.                              *)
LEMMA LinesLie ==
  ASSUME KInv, PInv', UNCHANGED <<sandboxed, written, pipe, builder>>,
         \A p \in Proc : pending'[p] # NoLine => pending'[p].of \in holds'[p]
  PROVE  KInv'
<1>1. UNCHANGED <<sandboxed, written, pipe, reader, chan, line, transcript, pc, result>>
  BY DEF builder
<1>2. Taken' = Taken /\ \A s \in Stream : Cut(s)' = Cut(s)
  BY <1>1 DEF Taken, InHand, Cut
<1>3. LineTypes' /\ PipesRight'
  BY <1>1 DEF KInv, LineTypes, PipesRight
<1>5. LinesAt'
  BY <1>1 DEF KInv, LinesAt
<1>4. Arrives' /\ Collected' /\ KeptAtEnd'
  BY <1>1, <1>2 DEF KInv, Arrives, Collected, KeptAtEnd, Returned
<1> QED
  BY <1>3, <1>4, <1>5 DEF KInv

LEMMA LinesLieBegins ==
  ASSUME PInv, KInv, Spawn \/ SpawnFails
  PROVE  KInv'
<1>1. UNCHANGED <<sandboxed, pending, written, pipe, chan, line, transcript>> /\ pc = "start"
  BY DEF Spawn, SpawnFails, script
<1>2. Taken' = Taken /\ \A s \in Stream : Cut(s)' = Cut(s)
  BY <1>1 DEF Taken, InHand, Cut
<1>3. LineTypes'
  BY <1>1 DEF KInv, LineTypes
<1>4. \A p \in Proc : pending[p] = NoLine
  BY <1>1 DEF PInv, Where, HoldersRun, Proc
<1>5. \A s \in Stream : reader[s] = "none" /\ reader'[s] # "ended" /\ (sandboxed => reader'[s] = "none")
  BY <1>1 DEF PInv, Where, Spawn, SpawnFails
<1>6. PipesRight'
  BY <1>1, <1>4, <1>5 DEF KInv, PipesRight
<1>7. pc' \in {"collect", "recv"} \/ (pc' = "returned" /\ result' = "error")
  BY DEF Spawn, SpawnFails, Returns
<1>8. LinesAt' /\ Collected'
  BY <1>1, <1>7 DEF KInv, LinesAt, Collected
<1>9. Arrives'
  BY <1>1, <1>2, <1>5, <1>7 DEF KInv, Arrives, Reading
<1>10. KeptAtEnd'
  <2>1. \A s \in Stream : Of(s, transcript) = <<>>
    BY <1>1, OfEmpty DEF KInv, LinesAt
  <2>2. \A s \in Stream : written[s] \in Seq(PrintedLine)
    BY DEF PInv, Types
  <2> QED
    BY <1>1, <1>7, <2>1, <2>2, BeginningSelf DEF KeptAtEnd, Returned
<1> QED
  BY <1>3, <1>6, <1>8, <1>9, <1>10 DEF KInv

LEMMA ScriptLies ==
  ASSUME PInv, PInv', KInv,
         \/ \E p \in Proc, s \in Stream, text \in {"plain", "binary"} : Emit(p, s, text)
         \/ \E kept \in SUBSET Stream : Fork(kept)
         \/ \E p \in Proc, status \in {"ok", "failed"} : ProcExits(p, status)
  PROVE  KInv'
<1> USE DEF KInv, PInv, PipesRight, Types
<1>1. CASE \E p \in Proc, s \in Stream, text \in {"plain", "binary"} : Emit(p, s, text)
  <2>1. PICK p \in Proc, s \in Stream, text \in {"plain", "binary"} : Emit(p, s, text)
    BY <1>1
  <2>2. UNCHANGED <<sandboxed, written, pipe, builder, holds>>
    BY <2>1 DEF Emit
  <2>3. pending' = [pending EXCEPT ![p] = [of |-> s, text |-> text, n |-> Printed + 1]] /\ s \in holds[p]
    BY <2>1 DEF Emit
  <2>4. \A q \in Proc : pending'[q] # NoLine => pending'[q].of \in holds'[q]
    BY <2>2, <2>3
  <2> QED
    BY <2>2, <2>4, LinesLie
<1>2. CASE \E kept \in SUBSET Stream : Fork(kept)
  <2>1. PICK kept \in SUBSET Stream : Fork(kept)
    BY <1>2
  <2>2. UNCHANGED <<sandboxed, written, pipe, builder, pending>>
    BY <2>1 DEF Fork
  <2>3. holds' = [holds EXCEPT !["child"] = kept] /\ pending["child"] = NoLine
    BY <2>1 DEF Fork, HoldersRun, Proc
  <2>4. \A q \in Proc : pending'[q] # NoLine => pending'[q].of \in holds'[q]
    BY <2>2, <2>3
  <2> QED
    BY <2>2, <2>4, LinesLie
<1>3. CASE \E p \in Proc, status \in {"ok", "failed"} : ProcExits(p, status)
  <2>1. PICK p \in Proc, status \in {"ok", "failed"} : ProcExits(p, status)
    BY <1>3
  <2>2. UNCHANGED <<sandboxed, written, pipe, builder>>
    BY <2>1 DEF ProcExits
  <2>3. \A q \in Proc : pending'[q] # NoLine => pending'[q].of \in holds'[q]
    BY <2>1 DEF ProcExits
  <2> QED
    BY <2>2, <2>3, LinesLie
<1> QED
  BY <1>1, <1>2, <1>3

\* Who writes has the pipe open: its thread reads, or stopped at a binary line.
LEMMA WritesToReader ==
  ASSUME PInv, KInv, NEW p \in Proc, pending[p] # NoLine, NEW s, s = pending[p].of
  PROVE  /\ s \in Stream /\ pending[p] \in PrintedLine /\ p \in Holders(s)
         /\ pc \notin {"start", "append out", "append err"}
         /\ pc # "returned" /\ reader[s] = "ended" => Cut(s)
         /\ Returned => reader[s] = "ended" /\ Cut(s)
<1>1. pending[p] \in PrintedLine /\ s \in Stream /\ p \in Holders(s)
  BY DEF PInv, Types, KInv, PipesRight, PrintedLine, Holders
<1>2. proc[p] = "running" /\ proc["bash"] \in {"running", "none", "ok", "failed"}
  BY DEF PInv, HoldersRun, Types, Proc
<1>3. pc \notin {"start", "append out", "append err"}
  BY <1>1, <1>2 DEF PInv, Where, Proc
<1>4. reader[s] = "ended" => ~sandboxed
  BY <1>1 DEF KInv, PipesRight
<1>5. pc # "returned" /\ reader[s] = "ended" => Cut(s)
  BY <1>1, <1>4 DEF PInv, EndedAtEnd
<1>6. Returned => ~sandboxed /\ reader[s] = "ended"
  BY <1>1 DEF PInv, Where
<1>7. Returned => Cut(s)
  BY <1>1, <1>6 DEF PInv, EndedAtEnd
<1> QED
  BY <1>1, <1>3, <1>5, <1>6, <1>7

LEMMA Appended ==
  ASSUME NEW w \in Seq(PrintedLine), NEW l \in PrintedLine, NEW v, v = Append(w, l)
  PROVE  /\ v \in Seq(PrintedLine)
         /\ \A n \in DOMAIN w : n \in DOMAIN v /\ v[n] = w[n]
         /\ \A n \in DOMAIN v : (n \in DOMAIN w /\ v[n] = w[n]) \/ v[n] = l
OBVIOUS

(* A line l that is written to s, whether or not somebody reads it.          *)
Written(s, l) ==
    /\ UNCHANGED <<sandboxed, builder>>
    /\ written' = [written EXCEPT ![s] = Append(@, l)]
    /\ \/ reader[s] # "ended" /\ pipe' = [pipe EXCEPT ![s] = Append(@, l)]
       \/ reader[s] = "ended" /\ pipe' = pipe
    /\ \A q \in Proc : pending'[q] # NoLine => pending'[q].of \in holds'[q]

Writable(s) ==
    /\ pc \notin {"start", "append out", "append err"}
    /\ pc # "returned" /\ reader[s] = "ended" => Cut(s)
    /\ Returned => Cut(s)

LEMMA LineWritten ==
  ASSUME PInv, KInv, NEW s \in Stream, NEW l \in PrintedLine, l.of = s, Written(s, l), Writable(s)
  PROVE  KInv'
<1>4. UNCHANGED <<sandboxed, reader, chan, line, transcript, pc, result>>
  BY DEF Written, builder
<1>5. /\ written[s] \in Seq(PrintedLine) /\ written'[s] = Append(written[s], l)
      /\ \A t \in Stream \ {s} : written'[t] = written[t] /\ pipe'[t] = pipe[t]
  BY DEF PInv, Types, Written
<1>6. pipe[s] \in Seq(PrintedLine)
  BY DEF PInv, Types
<1>7. \/ reader[s] # "ended" /\ pipe'[s] = Append(pipe[s], l)
      \/ reader[s] = "ended" /\ pipe'[s] = pipe[s]
  BY DEF PInv, Types, Written
<1>8. Taken' = Taken /\ Taken \in Seq(PrintedLine)
  BY <1>4, TakenType DEF Taken, InHand, KInv
<1>9. \A t \in Stream \ {s} : Cut(t)' = Cut(t)
  BY <1>4, <1>5 DEF Cut
<1>10. Cut(s) => Cut(s)'
  <2>1. \A n \in DOMAIN written[s] : n \in DOMAIN written'[s] /\ written'[s][n] = written[s][n]
    BY <1>5, Appended
  <2> QED
    BY <1>4, <2>1 DEF Cut
<1>11. LineTypes' /\ LinesAt' /\ Collected'
  <2>1. LineTypes'
    BY <1>4 DEF KInv, LineTypes
  <2>2. LinesAt'
    BY <1>4 DEF KInv, LinesAt
  <2>3. Collected'
    BY <1>4 DEF Collected, Writable
  <2> QED
    BY <2>1, <2>2, <2>3
<1>12. PipesRight'
  <2>1. \A t \in Stream : \A n \in DOMAIN pipe'[t] : pipe'[t][n].of = t
    <3> SUFFICES ASSUME NEW t \in Stream, NEW n \in DOMAIN pipe'[t] PROVE pipe'[t][n].of = t
      OBVIOUS
    <3>1. CASE pipe'[t] = pipe[t]
      BY <3>1 DEF KInv, PipesRight
    <3>2. CASE t = s /\ pipe'[s] = Append(pipe[s], l)
      <4>1. (n \in DOMAIN pipe[s] /\ pipe'[s][n] = pipe[s][n]) \/ pipe'[s][n] = l
        BY <1>6, <3>2, Appended
      <4>2. \A m \in DOMAIN pipe[s] : pipe[s][m].of = s
        BY DEF KInv, PipesRight
      <4> QED
        BY <3>2, <4>1, <4>2
    <3> QED
      BY <1>5, <1>7, <3>1, <3>2
  <2>2. \A t \in Stream : reader'[t] = "ended" => pipe'[t] = <<>>
    BY <1>4, <1>5, <1>7 DEF KInv, PipesRight
  <2>3. \A q \in Proc : pending'[q] # NoLine => pending'[q].of \in holds'[q]
    BY DEF Written
  <2>4. sandboxed' => \A t \in Stream : reader'[t] = "none"
    BY <1>4 DEF KInv, PipesRight
  <2> QED
    BY <2>1, <2>2, <2>3, <2>4 DEF PipesRight
<1>13. Arrives'
  <2> SUFFICES ASSUME pc \in Reading, NEW t \in Stream
               PROVE  /\ BeginningOf(Of(t, Taken) \o pipe'[t], written'[t])
                      /\ reader[t] # "ended" \/ ~Cut(t)' => Of(t, Taken) \o pipe'[t] = written'[t]
    BY <1>4, <1>8 DEF Arrives
  <2>1. /\ BeginningOf(Of(t, Taken) \o pipe[t], written[t])
        /\ reader[t] # "ended" \/ ~Cut(t) => Of(t, Taken) \o pipe[t] = written[t]
    BY DEF KInv, Arrives
  <2>2. CASE t # s
    BY <1>5, <1>9, <2>1, <2>2
  <2>3. Of(s, Taken) \in Seq(PrintedLine)
    BY <1>8, OfType
  <2>4. CASE t = s /\ reader[s] # "ended"
    <3>1. pipe'[s] = Append(pipe[s], l)
      BY <1>7, <2>4
    <3>2. Of(s, Taken) \o pipe'[s] = written'[s]
      <4>1. Of(s, Taken) \o pipe[s] = written[s]
        BY <2>1, <2>4
      <4>2. Of(s, Taken) \o Append(pipe[s], l) = Append(Of(s, Taken) \o pipe[s], l)
        BY <1>6, <2>3, AppendConcat
      <4> QED
        BY <1>5, <3>1, <4>1, <4>2
    <3>3. written'[s] \in Seq(PrintedLine)
      BY <1>5, Appended
    <3>4. BeginningOf(written'[s], written'[s])
      BY <3>3, BeginningSelf
    <3> QED
      BY <2>4, <3>2, <3>4
  <2>5. CASE t = s /\ reader[s] = "ended"
    <3>1. pipe'[s] = pipe[s] /\ Cut(s)'
      BY <1>7, <1>10, <2>5 DEF Reading, HostPcs, Writable
    <3>2. Of(s, Taken) \o pipe[s] \in Seq(PrintedLine)
      BY <1>6, <2>3
    <3>3. BeginningOf(Of(s, Taken) \o pipe[s], Append(written[s], l))
      BY <1>5, <2>1, <2>5, <3>2, BeginningLonger
    <3> QED
      BY <1>5, <2>5, <3>1, <3>3
  <2> QED
    BY <2>2, <2>4, <2>5
<1>14. KeptAtEnd'
  <2> SUFFICES ASSUME pc = "returned", NEW t \in Stream
               PROVE  /\ BeginningOf(Of(t, transcript), written'[t])
                      /\ Returned /\ ~Cut(t)' => Of(t, transcript) = written'[t]
    BY <1>4 DEF KeptAtEnd, Returned
  <2>1. /\ BeginningOf(Of(t, transcript), written[t])
        /\ Returned /\ ~Cut(t) => Of(t, transcript) = written[t]
    BY DEF KInv, KeptAtEnd
  <2>2. CASE t # s
    BY <1>5, <1>9, <2>1, <2>2
  <2>3. CASE t = s
    <3>1. Of(s, transcript) \in Seq(PrintedLine)
      BY OfType DEF KInv, LineTypes
    <3>2. BeginningOf(Of(s, transcript), Append(written[s], l))
      BY <1>5, <2>1, <2>3, <3>1, BeginningLonger
    <3>3. Returned => Cut(s)'
      BY <1>10 DEF Writable
    <3> QED
      BY <1>5, <2>3, <3>2, <3>3
  <2> QED
    BY <2>2, <2>3
<1> QED
  BY <1>11, <1>12, <1>13, <1>14 DEF KInv

LEMMA WriteArrives ==
  ASSUME PInv, KInv, NEW p \in Proc, Write(p) \/ \E dies \in BOOLEAN : WriteBroken(p, dies)
  PROVE  KInv'
<1>1. PICK l : l = pending[p]
  OBVIOUS
<1>2. PICK s : s = l.of
  OBVIOUS
<1>3. l # NoLine
  BY <1>1 DEF Write, WriteBroken
<1>4. /\ s \in Stream /\ l \in PrintedLine /\ p \in Holders(s)
      /\ pc \notin {"start", "append out", "append err"}
      /\ pc # "returned" /\ reader[s] = "ended" => Cut(s)
      /\ Returned => Cut(s)
  BY <1>1, <1>2, <1>3, WritesToReader
<1>5. /\ UNCHANGED <<sandboxed, builder>>
      /\ written' = [written EXCEPT ![s] = Append(@, l)]
      /\ pending' = [pending EXCEPT ![p] = NoLine]
      /\ holds' = holds \/ holds' = [holds EXCEPT ![p] = {}]
      /\ \/ reader[s] # "ended" /\ pipe' = [pipe EXCEPT ![s] = Append(@, l)]
         \/ reader[s] = "ended" /\ pipe' = pipe
  BY <1>1, <1>2 DEF Write, WriteBroken
<1>6. \A q \in Proc : pending'[q] # NoLine => pending'[q].of \in holds'[q]
  BY <1>5 DEF KInv, PipesRight, PInv, Types
<1> QED
  BY <1>2, <1>4, <1>5, <1>6, LineWritten DEF Written, Writable

-----------------------------------------------------------------------------
(* The head of a pipe is taken, by the thread on the host or by the builder  *)
(* of a sandboxed phase.                                                     *)
LEMMA LineTaken ==
  ASSUME PInv, KInv, NEW s \in Stream, pipe[s] # <<>>, pipe' = [pipe EXCEPT ![s] = Tail(@)],
         reader[s] # "ended",
         chan' = Append(chan, Head(pipe[s])), pc \in {"recv", "transcribe", "collect"},
         UNCHANGED <<sandboxed, script, reader, line, transcript, pc, result>>
  PROVE  KInv'
<1>1. PICK q : q = pipe[s]
  OBVIOUS
<1>2. /\ q \in Seq(PrintedLine) /\ q # <<>> /\ pipe'[s] = Tail(q)
      /\ \A t \in Stream \ {s} : pipe'[t] = pipe[t]
  BY <1>1 DEF PInv, Types
<1>3. 1 \in DOMAIN q /\ q[1].of = s /\ \A n \in DOMAIN q : q[n].of = s
  BY <1>1, <1>2 DEF KInv, PipesRight
<1>4. Head(q) \in PrintedLine /\ chan' = Append(chan, Head(q)) /\ chan \in Seq(PrintedLine)
  BY <1>1, <1>2 DEF KInv, LineTypes
<1>5. chan' \in Seq(PrintedLine)
  BY <1>4, AppendProperties
<1>6. /\ sandboxed' = sandboxed /\ written' = written /\ reader' = reader /\ line' = line /\ pc' = pc
      /\ transcript' = transcript /\ result' = result /\ pending' = pending /\ holds' = holds
  BY DEF script
<1>7. transcript \o InHand \in Seq(PrintedLine)
  <2>1. InHand \in Seq(PrintedLine)
    BY DEF InHand, KInv, LineTypes
  <2> QED
    BY <2>1 DEF KInv, LineTypes
<1>8. Taken' = Append(Taken, Head(q))
  <2>1. InHand' = InHand
    BY <1>6 DEF InHand
  <2> QED
    BY <1>4, <1>6, <1>7, <2>1, AppendConcat DEF Taken
<1>9. LineTypes'
  BY <1>5, <1>6 DEF KInv, LineTypes
<1>10. PipesRight'
  <2>1. \A n \in DOMAIN Tail(q) : Tail(q)[n].of = s
    BY <1>2, <1>3, TailIndex
  <2>2. \A t \in Stream : \A n \in DOMAIN pipe'[t] : pipe'[t][n].of = t
    BY <1>2, <2>1 DEF KInv, PipesRight
  <2> QED
    BY <1>2, <1>6, <2>2 DEF KInv, PipesRight
<1>11. LinesAt'
  BY <1>6 DEF KInv, LinesAt
<1>12. Arrives'
  <2>1. Taken \in Seq(PrintedLine)
    BY TakenType DEF KInv
  <2>2. /\ Of(s, Taken') \o Tail(q) = Of(s, Taken) \o q
        /\ \A t \in Stream \ {s} : Of(t, Taken') = Of(t, Taken)
    BY <1>2, <1>3, <1>8, <2>1, OfMoved
  <2>3. \A t \in Stream : Of(t, Taken') \o pipe'[t] = Of(t, Taken) \o pipe[t]
    BY <1>1, <1>2, <2>2
  <2>4. \A t \in Stream : Cut(t)' = Cut(t)
    BY <1>6 DEF Cut
  <2> QED
    BY <1>6, <2>3, <2>4 DEF KInv, Arrives
<1>13. Collected' /\ KeptAtEnd'
  BY <1>6 DEF Collected, KeptAtEnd
<1> QED
  BY <1>9, <1>10, <1>11, <1>12, <1>13 DEF KInv

\* A thread that goes on after the builder returned has nobody to send to.
LEMMA LineDropped ==
  ASSUME PInv, KInv, NEW s \in Stream, NEW q \in Seq(PrintedLine), pipe' = [pipe EXCEPT ![s] = q],
         \A n \in DOMAIN q : q[n].of = s,
         reader' = reader \/ (q = <<>> /\ reader' = [reader EXCEPT ![s] = "ended"]),
         reader[s] = "reading", pc = "returned",
         UNCHANGED <<sandboxed, script, chan, line, transcript, pc, result>>
  PROVE  KInv'
<1>1. /\ sandboxed' = sandboxed /\ written' = written /\ line' = line /\ pc' = pc /\ chan' = chan
      /\ transcript' = transcript /\ result' = result /\ pending' = pending /\ holds' = holds
  BY DEF script
<1>2. pipe'[s] = q /\ \A t \in Stream \ {s} : pipe'[t] = pipe[t] /\ reader'[t] = reader[t]
  BY DEF PInv, Types
<1>3. LineTypes' /\ LinesAt'
  BY <1>1 DEF KInv, LineTypes, LinesAt
<1>4. PipesRight'
  <2>1. ~sandboxed
    BY DEF KInv, PipesRight
  <2>2. reader'[s] = "ended" => q = <<>>
    BY DEF PInv, Types
  <2> QED
    BY <1>1, <1>2, <2>1, <2>2 DEF KInv, PipesRight
<1>5. Arrives' /\ Collected' /\ KeptAtEnd'
  BY <1>1 DEF KInv, Arrives, Collected, KeptAtEnd, Reading, HostPcs, Returned, Cut
<1> QED
  BY <1>3, <1>4, <1>5 DEF KInv

LEMMA ThreadEnds ==
  ASSUME PInv, KInv, NEW s \in Stream, reader[s] = "reading", pc \in {"recv", "transcribe"},
         reader' = [reader EXCEPT ![s] = "ended"],
         pipe' = [pipe EXCEPT ![s] = <<>>], pipe[s] = <<>> \/ Cut(s),
         UNCHANGED <<sandboxed, script, chan, line, transcript, pc, result>>
  PROVE  KInv'
<1>1. /\ sandboxed' = sandboxed /\ written' = written /\ line' = line /\ pc' = pc /\ chan' = chan
      /\ transcript' = transcript /\ result' = result /\ pending' = pending /\ holds' = holds
  BY DEF script
<1>2. /\ pipe'[s] = <<>> /\ reader'[s] = "ended"
      /\ \A t \in Stream \ {s} : pipe'[t] = pipe[t] /\ reader'[t] = reader[t]
  BY DEF PInv, Types
<1>3. LineTypes' /\ LinesAt'
  BY <1>1 DEF KInv, LineTypes, LinesAt
<1>4. PipesRight'
  <2>1. ~sandboxed /\ DOMAIN <<>> = {}
    BY DEF KInv, PipesRight
  <2> QED
    BY <1>1, <1>2, <2>1 DEF KInv, PipesRight
<1>5. Arrives'
  <2>1. Taken' = Taken
    BY <1>1 DEF Taken, InHand
  <2>2. \A t \in Stream : Cut(t)' = Cut(t)
    BY <1>1 DEF Cut
  <2> SUFFICES ASSUME NEW t \in Stream
               PROVE  /\ BeginningOf(Of(t, Taken) \o pipe'[t], written[t])
                      /\ reader'[t] # "ended" \/ ~Cut(t) => Of(t, Taken) \o pipe'[t] = written[t]
    BY <1>1, <2>1, <2>2 DEF Arrives
  <2>3. /\ BeginningOf(Of(t, Taken) \o pipe[t], written[t])
        /\ reader[t] # "ended" \/ ~Cut(t) => Of(t, Taken) \o pipe[t] = written[t]
    BY DEF KInv, Arrives, Reading, HostPcs
  <2>4. CASE t # s
    BY <1>2, <2>3, <2>4
  <2>5. CASE t = s
    <3>1. Of(s, Taken) \in Seq(PrintedLine) /\ pipe[s] \in Seq(PrintedLine)
      BY TakenType, OfType DEF KInv, PInv, Types
    <3>2. Of(s, Taken) \o <<>> = Of(s, Taken)
      BY <3>1, ConcatEmptySeq
    <3>3. BeginningOf(Of(s, Taken), written[s])
      BY <2>3, <2>5, <3>1, BeginningShorter
    <3>4. ~Cut(s) => Of(s, Taken) \o pipe'[s] = written[s]
      BY <1>2, <2>3, <2>5
    <3> QED
      BY <1>2, <2>5, <3>2, <3>3, <3>4
  <2> QED
    BY <2>4, <2>5
<1>6. Collected' /\ KeptAtEnd'
  BY <1>1 DEF Collected, KeptAtEnd
<1> QED
  BY <1>3, <1>4, <1>5, <1>6 DEF KInv

LEMMA ThreadKeepsLines ==
  ASSUME PInv, KInv, NEW s \in Stream, Reader(s)
  PROVE  KInv'
<1>1. reader[s] = "reading"
  BY DEF Reader, ReadLine, ReadFails, ReadEnds
<1>2. pc \in {"recv", "transcribe", "returned"}
  BY <1>1 DEF PInv, Where, KInv, PipesRight, HostPcs, SandboxPcs
<1>3. pipe[s] \in Seq(PrintedLine) /\ \A n \in DOMAIN pipe[s] : pipe[s][n].of = s
  BY DEF PInv, Types, KInv, PipesRight
<1>4. <<>> \in Seq(PrintedLine) /\ DOMAIN <<>> = {}
  OBVIOUS
<1>5. CASE ReadLine(s)
  <2>1. /\ pipe[s] # <<>> /\ pipe' = [pipe EXCEPT ![s] = Tail(pipe[s])]
        /\ UNCHANGED <<sandboxed, script, reader, line, transcript, pc, result>>
        /\ chan' = IF pc = "returned" THEN chan ELSE Append(chan, Head(pipe[s]))
    BY <1>5 DEF ReadLine, Send
  <2>2. CASE pc = "returned"
    <3>1. Tail(pipe[s]) \in Seq(PrintedLine) /\ \A n \in DOMAIN Tail(pipe[s]) : Tail(pipe[s])[n].of = s
      BY <1>3, <2>1, TailIndex
    <3>2. UNCHANGED <<sandboxed, script, chan, line, transcript, pc, result>> /\ reader' = reader
      BY <2>1, <2>2
    <3> QED
      BY <1>1, <2>1, <2>2, <3>1, <3>2, LineDropped
  <2>3. CASE pc # "returned"
    BY <1>1, <1>2, <2>1, <2>3, LineTaken
  <2> QED
    BY <2>2, <2>3
<1>6. CASE ReadFails(s) \/ ReadEnds(s)
  <2>1. /\ UNCHANGED <<sandboxed, script, chan, line, transcript, pc, result>>
        /\ reader' = [reader EXCEPT ![s] = "ended"]
    BY <1>6 DEF ReadFails, ReadEnds
  <2>2. pipe' = [pipe EXCEPT ![s] = <<>>]
    BY <1>6 DEF ReadFails, ReadEnds, PInv, Types
  <2>3. pipe[s] = <<>> \/ Cut(s)
    <3>1. CASE ReadFails(s)
      <4>1. pipe[s] # <<>> /\ Head(pipe[s]).text = "binary"
        BY <3>1 DEF ReadFails
      <4>2. 1 \in DOMAIN pipe[s] /\ Head(pipe[s]) = pipe[s][1]
        BY <1>3, <4>1
      <4>3. PICK m \in DOMAIN written[s] : written[s][m] = pipe[s][1]
        BY <4>2 DEF PInv, PipeWritten
      <4>4. ~sandboxed
        BY <1>1 DEF KInv, PipesRight
      <4> QED
        BY <4>1, <4>2, <4>3, <4>4 DEF Cut
    <3>2. CASE ReadEnds(s)
      BY <3>2 DEF ReadEnds
    <3> QED
      BY <1>6, <3>1, <3>2
  <2>4. CASE pc = "returned"
    BY <1>1, <1>4, <2>1, <2>2, <2>4, LineDropped
  <2>5. CASE pc # "returned"
    BY <1>1, <1>2, <2>1, <2>2, <2>3, <2>5, ThreadEnds
  <2> QED
    BY <2>4, <2>5
<1> QED
  BY <1>5, <1>6 DEF Reader

LEMMA CollectKeepsLines ==
  ASSUME PInv, KInv, NEW s \in Stream, Collect(s)
  PROVE  KInv'
<1>1. sandboxed
  BY DEF Collect, PInv, Where, SandboxPcs
<1>2. reader[s] # "ended"
  BY <1>1 DEF KInv, PipesRight
<1> QED
  BY <1>2, LineTaken DEF Collect

LEMMA ExitKeepsLines ==
  ASSUME PInv, KInv, Exit
  PROVE  KInv'
<1>1. /\ sandboxed' = sandboxed /\ written' = written /\ line' = line /\ pc' = pc /\ chan' = chan
      /\ transcript' = transcript /\ result' = result /\ pending' = pending /\ holds' = holds
      /\ pc = "returned"
      /\ \A s \in Stream : pipe'[s] = <<>> /\ reader'[s] = "ended"
  BY DEF Exit, script
<1>2. LineTypes' /\ LinesAt'
  BY <1>1 DEF KInv, LineTypes, LinesAt
<1>3. PipesRight'
  <2>1. ~sandboxed /\ DOMAIN <<>> = {}
    BY DEF Exit, KInv, PipesRight
  <2> QED
    BY <1>1, <2>1 DEF KInv, PipesRight
<1>4. Arrives' /\ Collected' /\ KeptAtEnd'
  BY <1>1 DEF KInv, Arrives, Collected, KeptAtEnd, Reading, HostPcs, Returned, Cut
<1> QED
  BY <1>2, <1>3, <1>4 DEF KInv

(* At any point of a phase the transcript has the beginning of each stream.  *)
LEMMA TranscriptBegins ==
  ASSUME PInv, KInv, NEW s \in Stream, pc # "returned"
  PROVE  BeginningOf(Of(s, transcript), written[s])
<1>1. written[s] \in Seq(PrintedLine) /\ chan \in Seq(PrintedLine) /\ transcript \in Seq(PrintedLine)
  BY DEF PInv, Types, KInv, LineTypes
<1>2. CASE pc \in Reading
  <2>1. BeginningOf(Of(s, Taken) \o pipe[s], written[s])
    BY <1>2 DEF KInv, Arrives
  <2>2. InHand \in Seq(PrintedLine)
    BY DEF KInv, LineTypes, InHand
  <2>3. InHand \o chan \in Seq(PrintedLine) /\ Taken = transcript \o (InHand \o chan)
    BY <1>1, <2>2, ConcatAssociative DEF Taken
  <2>4. Of(s, Taken) = Of(s, transcript) \o Of(s, InHand \o chan)
    BY <1>1, <2>3, OfConcat
  <2>5. /\ Of(s, transcript) \in Seq(PrintedLine) /\ Of(s, InHand \o chan) \in Seq(PrintedLine)
        /\ Of(s, Taken) \in Seq(PrintedLine) /\ pipe[s] \in Seq(PrintedLine)
    BY <1>1, <2>3, TakenType, OfType DEF KInv, PInv, Types
  <2>6. BeginningOf(Of(s, Taken), written[s])
    BY <2>1, <2>5, BeginningShorter
  <2> QED
    BY <2>4, <2>5, <2>6, BeginningShorter
<1>3. CASE pc \notin Reading
  <2>1. pc \in {"append out", "append err"}
    BY <1>3 DEF PInv, Where, Reading, HostPcs, SandboxPcs
  <2>2. Of(s, chan) = written[s] /\ (transcript = <<>> \/ transcript = Of("out", chan))
    BY <2>1 DEF KInv, Collected, LinesAt
  <2>3. Of(s, Of("out", chan)) = IF s = "out" THEN Of(s, chan) ELSE <<>>
    BY <1>1, OfOf
  <2>4. Of(s, transcript) = <<>> \/ Of(s, transcript) = written[s]
    BY <2>2, <2>3, OfEmpty
  <2> QED
    BY <1>1, <2>4, BeginningSelf
<1> QED
  BY <1>2, <1>3


-----------------------------------------------------------------------------
(* The builder on the host.                                                  *)
LEMMA PassedOn ==
  ASSUME PInv, KInv, Recv \/ Transcribe \/ RecvEnds
  PROVE  KInv'
<1>1. /\ sandboxed' = sandboxed /\ written' = written /\ pipe' = pipe /\ reader' = reader
      /\ pending' = pending /\ holds' = holds /\ result' = result
      /\ pc \in {"recv", "transcribe"} /\ pc' \in {"recv", "transcribe", "wait"}
  BY DEF Recv, Transcribe, RecvEnds, script
<1>2. chan \in Seq(PrintedLine) /\ transcript \in Seq(PrintedLine) /\ line \in PrintedLine \cup {NoLine}
  BY DEF KInv, LineTypes
<1>3. <<>> \in Seq(PrintedLine) /\ \A q \in Seq(PrintedLine) : q \o <<>> = q
  BY EmptySeq, ConcatEmptySeq
<1>4. LineTypes' /\ LinesAt' /\ Taken' = Taken
  <2>1. CASE Recv
    <3>1. chan # <<>> /\ pc = "recv" /\ pc' = "transcribe" /\ transcript' = transcript
      BY <2>1 DEF Recv
    <3>2. line' = Head(chan) /\ chan' = Tail(chan) /\ line = NoLine
      BY <2>1 DEF Recv, KInv, LinesAt
    <3>3. Head(chan) \in PrintedLine /\ <<Head(chan)>> \in Seq(PrintedLine) /\ Tail(chan) \in Seq(PrintedLine)
      BY <1>2, <3>1, HeadAndTail
    <3>4. chan = <<Head(chan)>> \o Tail(chan)
      BY <1>2, <3>1, HeadAndTail
    <3>5. Head(chan) # NoLine
      BY <3>3 DEF PrintedLine, Stream, NoLine
    <3>6. LineTypes'
      BY <1>2, <3>1, <3>2, <3>3 DEF LineTypes
    <3>7. LinesAt'
      BY <3>1, <3>2, <3>5 DEF LinesAt
    <3>8. InHand = <<>> /\ InHand' = <<Head(chan)>>
      BY <3>2, <3>5 DEF InHand
    <3>9. (transcript \o <<Head(chan)>>) \o Tail(chan) = transcript \o (<<Head(chan)>> \o Tail(chan))
      BY <1>2, <3>3, ConcatAssociative
    <3>10. Taken' = Taken
      BY <1>2, <1>3, <3>1, <3>2, <3>4, <3>8, <3>9 DEF Taken
    <3> QED
      BY <3>6, <3>7, <3>10
  <2>2. CASE Transcribe
    <3>1. /\ pc = "transcribe" /\ pc' = "recv" /\ chan' = chan /\ line' = NoLine
          /\ transcript' = Append(transcript, line)
      BY <2>2 DEF Transcribe
    <3>2. line # NoLine /\ line \in PrintedLine
      BY <1>2, <3>1 DEF KInv, LinesAt
    <3>3. transcript' \in Seq(PrintedLine) /\ transcript' = transcript \o <<line>>
      BY <1>2, <3>1, <3>2, AppendProperties, AppendIsConcat
    <3>4. LineTypes' /\ LinesAt'
      BY <1>2, <3>1, <3>3 DEF LineTypes, LinesAt
    <3>5. InHand = <<line>> /\ InHand' = <<>>
      BY <3>1, <3>2 DEF InHand
    <3>6. Taken' = Taken
      BY <1>3, <3>1, <3>3, <3>5 DEF Taken
    <3> QED
      BY <3>4, <3>6
  <2>3. CASE RecvEnds
    <3>1. /\ pc = "recv" /\ pc' = "wait" /\ chan = <<>>
          /\ chan' = chan /\ line' = line /\ transcript' = transcript
      BY <2>3 DEF RecvEnds
    <3>2. Taken' = Taken
      BY <3>1 DEF Taken, InHand
    <3>3. LineTypes' /\ LinesAt'
      BY <3>1 DEF KInv, LineTypes, LinesAt
    <3> QED
      BY <3>2, <3>3
  <2> QED
    BY <2>1, <2>2, <2>3
<1>5. PipesRight'
  BY <1>1 DEF KInv, PipesRight
<1>6. \A s \in Stream : Cut(s)' = Cut(s)
  BY <1>1 DEF Cut
<1>7. Arrives'
  BY <1>1, <1>4, <1>6 DEF KInv, Arrives, Reading, HostPcs
<1>8. Collected' /\ KeptAtEnd'
  BY <1>1 DEF Collected, KeptAtEnd
<1> QED
  BY <1>4, <1>5, <1>7, <1>8 DEF KInv

\* The builder returns from the loop: what it wrote is the beginning of what
\* it was sent, and all of it when every thread has ended.
LEMMA HostReturns ==
  ASSUME PInv, KInv, TranscribeFails \/ Wait
  PROVE  KInv'
<1>1. /\ sandboxed' = sandboxed /\ written' = written /\ pipe' = pipe /\ reader' = reader
      /\ pending' = pending /\ holds' = holds /\ transcript' = transcript
      /\ pc \in {"transcribe", "wait"} /\ pc' = "returned"
      /\ chan' \in {chan, <<>>} /\ line' \in {line, NoLine}
  BY DEF TranscribeFails, Wait, Returns, script
<1>2. LineTypes'
  BY <1>1, EmptySeq DEF KInv, LineTypes
<1>3. LinesAt'
  BY <1>1 DEF TranscribeFails, Wait, KInv, LinesAt
<1>4. PipesRight'
  BY <1>1 DEF KInv, PipesRight
<1>5. Arrives' /\ Collected'
  BY <1>1 DEF Arrives, Collected, Reading, HostPcs
<1>6. KeptAtEnd'
  <2> SUFFICES ASSUME NEW s \in Stream
               PROVE  /\ BeginningOf(Of(s, transcript), written[s])
                      /\ Returned' /\ ~Cut(s) => Of(s, transcript) = written[s]
    BY <1>1 DEF KeptAtEnd, Cut
  <2>1. /\ BeginningOf(Of(s, Taken) \o pipe[s], written[s])
        /\ reader[s] # "ended" \/ ~Cut(s) => Of(s, Taken) \o pipe[s] = written[s]
    BY <1>1 DEF KInv, Arrives, Reading, HostPcs
  <2>2. chan \in Seq(PrintedLine) /\ transcript \in Seq(PrintedLine) /\ InHand \in Seq(PrintedLine)
    BY DEF KInv, LineTypes, InHand
  <2>3. InHand \o chan \in Seq(PrintedLine) /\ Taken = transcript \o (InHand \o chan)
    BY <2>2, ConcatAssociative DEF Taken
  <2>4. Of(s, Taken) = Of(s, transcript) \o Of(s, InHand \o chan)
    BY <2>2, <2>3, OfConcat
  <2>5. Of(s, Taken) \in Seq(PrintedLine)
    BY TakenType, OfType DEF KInv
  <2>7. BeginningOf(Of(s, transcript), written[s])
    BY <1>1, TranscriptBegins
  <2>8. ASSUME Returned', ~Cut(s)
        PROVE  Of(s, transcript) = written[s]
    <3>1. pc = "wait"
      BY <2>8 DEF TranscribeFails, Wait, Returns, Returned
    <3>2. chan = <<>> /\ line = NoLine /\ pipe[s] = <<>>
      BY <3>1 DEF KInv, LinesAt, PipesRight, PInv, Where
    <3>3. InHand \o chan = <<>>
      BY <3>2, ConcatEmptySeq, EmptySeq DEF InHand
    <3>4. transcript \o <<>> = transcript /\ Of(s, Taken) \o <<>> = Of(s, Taken)
      BY <2>2, <2>5, ConcatEmptySeq
    <3> QED
      BY <2>1, <2>3, <2>8, <3>2, <3>3, <3>4
  <2> QED
    BY <2>7, <2>8
<1> QED
  BY <1>2, <1>3, <1>4, <1>5, <1>6 DEF KInv

(* The builder of a sandboxed phase, once it has collected all.              *)
LEMMA SandboxReturns ==
  ASSUME PInv, KInv, CollectEnds \/ AppendOut \/ AppendErr \/ AppendFails
  PROVE  KInv'
<1>1. /\ sandboxed' = sandboxed /\ written' = written /\ pipe' = pipe /\ reader' = reader
      /\ pending' = pending /\ holds' = holds /\ chan' = chan /\ line' = line
      /\ pc \in {"collect", "append out", "append err"}
      /\ pc' \in {"append out", "append err", "returned"}
  BY DEF CollectEnds, AppendOut, AppendErr, AppendFails, Returns, script
<1>2. chan \in Seq(PrintedLine) /\ transcript \in Seq(PrintedLine)
  BY DEF KInv, LineTypes
<1>3. <<>> \in Seq(PrintedLine) /\ \A q \in Seq(PrintedLine) : q \o <<>> = q /\ <<>> \o q = q
  BY EmptySeq, ConcatEmptySeq
<1>4. \A t \in Stream : Of(t, chan) \in Seq(PrintedLine)
  BY <1>2, OfType
<1>5. PipesRight'
  BY <1>1 DEF KInv, PipesRight
<1>6. \A s \in Stream : Of(s, chan) = written[s]
  <2>1. CASE pc = "collect"
    <3>1. \A s \in Stream : pipe[s] = <<>>
      BY <2>1 DEF CollectEnds, AppendOut, AppendErr, AppendFails
    <3>2. \A s \in Stream : reader[s] # "ended"
      BY <2>1 DEF PInv, Where, KInv, PipesRight, SandboxPcs
    <3>3. \A s \in Stream : Of(s, Taken) \o pipe[s] = written[s]
      BY <2>1, <3>2 DEF KInv, Arrives, Reading
    <3>4. Taken = chan
      BY <1>2, <1>3, <2>1 DEF KInv, LinesAt, Taken, InHand
    <3> QED
      BY <1>3, <1>4, <3>1, <3>3, <3>4
  <2>2. CASE pc # "collect"
    BY <1>1, <2>2 DEF KInv, Collected
  <2> QED
    BY <2>1, <2>2
<1>7. Arrives' /\ Collected'
  BY <1>1, <1>6 DEF Arrives, Collected, Reading, HostPcs
<1>8. Of("out", chan) \in Seq(PrintedLine) /\ Of("err", chan) \in Seq(PrintedLine)
  BY <1>4 DEF Stream
<1>9. \A s \in Stream : written[s] \in Seq(PrintedLine)
  BY DEF PInv, Types
<1>10. CASE CollectEnds
  <2>1. pc' = "append out" /\ transcript' = transcript /\ transcript = <<>> /\ line = NoLine
    BY <1>10 DEF CollectEnds, KInv, LinesAt
  <2>2. LineTypes' /\ LinesAt' /\ KeptAtEnd'
    BY <1>1, <1>2, <2>1 DEF KInv, LineTypes, LinesAt, KeptAtEnd
  <2> QED
    BY <1>5, <1>7, <2>2 DEF KInv
<1>11. CASE AppendOut
  <2>1. /\ pc' = "append err" /\ line = NoLine
        /\ transcript = <<>> /\ transcript' = transcript \o Of("out", chan)
    BY <1>11 DEF AppendOut, KInv, LinesAt
  <2>2. transcript' = Of("out", chan)
    BY <1>3, <1>8, <2>1
  <2>3. LineTypes' /\ LinesAt' /\ KeptAtEnd'
    BY <1>1, <1>2, <1>8, <2>1, <2>2 DEF KInv, LineTypes, LinesAt, KeptAtEnd
  <2> QED
    BY <1>5, <1>7, <2>3 DEF KInv
<1>12. CASE AppendErr
  <2>1. /\ pc' = "returned" /\ line = NoLine
        /\ transcript = Of("out", chan) /\ transcript' = transcript \o Of("err", chan)
    BY <1>12 DEF AppendErr, Returns, KInv, LinesAt
  <2>2. transcript' \in Seq(PrintedLine)
    BY <1>8, <2>1
  <2>3. LineTypes' /\ LinesAt'
    BY <1>1, <1>2, <2>1, <2>2 DEF KInv, LineTypes, LinesAt
  <2>4. \A s \in Stream : Of(s, transcript') = written[s]
    <3> TAKE s \in Stream
    <3>1. Of(s, Of("out", chan) \o Of("err", chan)) = Of(s, Of("out", chan)) \o Of(s, Of("err", chan))
      BY <1>8, OfConcat
    <3>2. Of(s, Of("out", chan)) = IF s = "out" THEN Of(s, chan) ELSE <<>>
      BY <1>2, OfOf
    <3>3. Of(s, Of("err", chan)) = IF s = "err" THEN Of(s, chan) ELSE <<>>
      BY <1>2, OfOf
    <3>4. Of(s, transcript') = Of(s, chan)
      BY <1>3, <1>4, <2>1, <3>1, <3>2, <3>3 DEF Stream
    <3> QED
      BY <1>6, <3>4
  <2>5. KeptAtEnd'
    BY <1>1, <1>9, <2>4, BeginningSelf DEF KeptAtEnd
  <2> QED
    BY <1>5, <1>7, <2>3, <2>5 DEF KInv
<1>13. CASE AppendFails
  <2>1. /\ pc' = "returned" /\ result' = "error" /\ line = NoLine /\ transcript' = transcript
        /\ transcript = <<>> \/ transcript = Of("out", chan)
    BY <1>13 DEF AppendFails, Returns, KInv, LinesAt
  <2>2. LineTypes' /\ LinesAt'
    BY <1>1, <1>2, <2>1 DEF KInv, LineTypes, LinesAt
  <2>4. KeptAtEnd'
    <3>1. \A s \in Stream : BeginningOf(Of(s, transcript), written[s])
      BY <1>1, TranscriptBegins
    <3> QED
      BY <1>1, <2>1, <3>1 DEF KeptAtEnd, Returned
  <2> QED
    BY <1>5, <1>7, <2>2, <2>4 DEF KInv
<1> QED
  BY <1>10, <1>11, <1>12, <1>13

-----------------------------------------------------------------------------
LEMMA KStep == PInv /\ PInv' /\ KInv /\ [Next]_vars => KInv'
<1> SUFFICES ASSUME PInv, PInv', KInv, [Next]_vars
             PROVE  KInv'
  OBVIOUS
<1>1. CASE Main
  BY <1>1, LinesLieBegins, PassedOn, HostReturns, SandboxReturns, CollectKeepsLines DEF Main
<1>2. CASE Exit
  BY <1>2, ExitKeepsLines
<1>3. CASE \E s \in Stream : Reader(s)
  BY <1>3, ThreadKeepsLines
<1>4. CASE BashSteps \/ ChildSteps
  BY <1>4, WriteArrives, ScriptLies DEF BashSteps, ChildSteps, Proc
<1>5. CASE \E kept \in SUBSET Stream : Fork(kept)
  BY <1>5, ScriptLies
<1>6. CASE \E p \in Proc, s \in Stream, text \in {"plain", "binary"} : Emit(p, s, text)
  BY <1>6, ScriptLies
<1>7. CASE UNCHANGED vars
  <2>1. UNCHANGED <<sandboxed, written, pipe, builder>> /\ pending' = pending /\ holds' = holds
    BY <1>7 DEF vars, script, builder
  <2> QED
    BY <2>1, LinesLie DEF KInv, PipesRight
<1> QED
  BY <1>1, <1>2, <1>3, <1>4, <1>5, <1>6, <1>7 DEF Next

(* No line of a phase is lost, doubled or put before an earlier one of its   *)
(* stream, up to the first that is not UTF-8, on the host and in the         *)
(* sandbox: what the run phase checks for three lines and a pipe of one, for *)
(* any number of lines and a pipe of any size.                               *)
THEOREM OutputKeptTheorem == Spec => []OutputKept
<1>1. KInv /\ PInv => OutputKept
  <2> SUFFICES ASSUME KInv, PInv, NEW s \in Stream
               PROVE  LET kept == Of(s, transcript) IN
                      /\ kept = SubSeq(written[s], 1, Len(kept))
                      /\ Returned /\ ~Cut(s) => kept = written[s]
    BY DEF OutputKept
  <2>1. /\ BeginningOf(Of(s, transcript), written[s])
        /\ Returned /\ ~Cut(s) => Of(s, transcript) = written[s]
    <3>1. CASE pc = "returned"
      BY <3>1 DEF KInv, KeptAtEnd
    <3>2. CASE pc # "returned"
      <4>1. ~Returned
        BY <3>2 DEF PInv, Where, Returned
      <4>2. BeginningOf(Of(s, transcript), written[s])
        BY <3>2, TranscriptBegins
      <4> QED
        BY <4>1, <4>2
    <3> QED
      BY <3>1, <3>2
  <2>2. Of(s, transcript) \in Seq(PrintedLine)
    BY OfType DEF KInv, LineTypes
  <2> QED
    BY <2>1, <2>2, BeginningIs
<1>2. Spec => []PInv
  BY PhaseInit, PhaseStep, PTL DEF Spec
<1>3. Spec => []KInv
  BY <1>2, KInit, KStep, PTL DEF Spec
<1> QED
  BY <1>1, <1>2, <1>3, PTL
=============================================================================
