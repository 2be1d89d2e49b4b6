------------------------------ MODULE PackageDb ------------------------------
(***************************************************************************)
(* What lysin's database of installed packages promises: packages come,    *)
(* move to newer versions and go, each change whole, whatever is           *)
(* interrupted meanwhile.  Lysin implements it when one lysin runs at a    *)
(* time.                                                                   *)
(***************************************************************************)
EXTENDS Naturals

CONSTANTS Package, Version   \* names, and the versions, greater is newer

VARIABLE installed           \* the version of each installed package, 0 for none

Init == installed = [a \in Package |-> 0]

Install(a, v) == /\ installed[a] = 0
                 /\ installed' = [installed EXCEPT ![a] = v]

Remove(a) == installed' = [installed EXCEPT ![a] = 0]

\* Several upgrades may be recorded by one save.
Upgrade == \E new \in [Package -> Version \cup {0}] :
    /\ \A a \in Package : \/ new[a] = installed[a]
                          \/ new[a] > installed[a] /\ installed[a] > 0
    /\ installed' = new

Next == \/ \E a \in Package : Remove(a) \/ \E v \in Version : Install(a, v)
        \/ Upgrade

Spec == Init /\ [][Next]_installed
=============================================================================
