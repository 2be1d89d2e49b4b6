------------------------------ MODULE MCVacuole ------------------------------
(* Vacuole on a few processes, contents and references.                    *)
EXTENDS Vacuole, TLC

CONSTANTS p1, p2, c1, c2, d1, d2, n1, n2

MCSHA256 == (c1 :> d1) @@ (c2 :> d2)

\* Processes and references are interchangeable, and so are the two contents as long
\* as each keeps its digest.
SwapBlobs == (c1 :> c2) @@ (c2 :> c1) @@ (d1 :> d2) @@ (d2 :> d1)
Symmetry == {f @@ g @@ h : f \in Permutations({p1, p2}), g \in Permutations({n1, n2}),
                           h \in {SwapBlobs, [x \in {c1, c2, d1, d2} |-> x]}}

\* The data of a tmp file nobody is about to rename is never read again, nor is the
\* op of a put once the object is stored: states that differ there alone are one.
Awaited(e) == pc[e[1]] = "rename" /\ local[e[1]].digest = e[2]
View ==
    <<[e \in Entry |-> IF e[1] # Object /\ Exists(e) /\ ~Awaited(e) THEN Partial
                       ELSE files[e]],
      refs, pc,
      [p \in Proc |-> IF pc[p] \in {"stored", "addref"}
                        THEN [local[p] EXCEPT !.op = NoFile] ELSE local[p]],
      linked, steady>>
=============================================================================
