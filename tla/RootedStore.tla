----------------------------- MODULE RootedStore -----------------------------
(***************************************************************************)
(* What the vacuole promises its clients, with everything that happens on  *)
(* disk left out: a set of stored digests, and named references that only  *)
(* ever point into that set.  Vacuole implements it as long as garbage     *)
(* collection runs while the store is idle (QuietGC).                      *)
(***************************************************************************)
CONSTANTS Digest,   \* what objects are keyed by
          RefName,  \* the names of references
          Unbound   \* the value of a name that refers to nothing; no digest

VARIABLES have,     \* the digests whose objects are stored
          bound     \* the digest each name refers to, or Unbound

rootedVars == <<have, bound>>

Init == /\ have = {}
        /\ bound = [n \in RefName |-> Unbound]

Put(d) == /\ have' = have \cup {d}
          /\ UNCHANGED bound

\* A name is only bound to what is stored, ...
Bind(n, d) == /\ d \in have
              /\ bound' = [bound EXCEPT ![n] = d]
              /\ UNCHANGED have

Unbind(n) == /\ bound' = [bound EXCEPT ![n] = Unbound]
             /\ UNCHANGED have

\* ... and what a name is bound to is not collected.
Collect(d) == /\ \A n \in RefName : bound[n] # d
              /\ have' = have \ {d}
              /\ UNCHANGED bound

Next == \/ \E d \in Digest : Put(d) \/ Collect(d)
        \/ \E n \in RefName : Unbind(n) \/ \E d \in Digest : Bind(n, d)

Spec == Init /\ [][Next]_rootedVars

(* Every reference resolves to a stored object.                            *)
Rooted == \A n \in RefName : bound[n] # Unbound => bound[n] \in have
=============================================================================
