------------------------------ MODULE MCBuilder ------------------------------
(***************************************************************************)
(* Builder for one package with a script in three of the four phases.      *)
(***************************************************************************)
EXTENDS Builder

MCPackage == {"gcc"}
MCScripts == [b \in MCPackage |-> {"prepare", "compile", "install"}]
MCSrcPhases == [b \in MCPackage |-> {"prepare"}]
=============================================================================
