----------------------------- MODULE MCRepository -----------------------------
(* Repository on one package in several versions and releases.             *)
EXTENDS Repository, TLC

CONSTANTS p1, p2, a

Path(name, num, rest, text, rel) ==
    [name |-> name, num |-> num, rest |-> rest, text |-> text, rel |-> rel]

\* a-1.0-1, a-1.0-2 and a-1.1-1.
MCFile == {Path(a, 1, 0, 1, 1), Path(a, 1, 0, 1, 2), Path(a, 2, 0, 2, 1)}

\* What an interrupted save leaves in nucleus.db.tmp is truncated before it is read, and
\* the sidecar is only asked for when it is not stale.
View == <<prots, db, IF \E p \in Proc : pc[p] \in {"write", "rename"} THEN tmp ELSE None,
          IF stale THEN None ELSE sidecar, pc, local, solo, dirty, stale>>

Symmetry == Permutations(Proc)
=============================================================================
