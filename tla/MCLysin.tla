------------------------------- MODULE MCLysin -------------------------------
(* Lysin on two packages, app which needs lib, in two versions each.       *)
EXTENDS Lysin, TLC

CONSTANTS p1, app, lib

\* lib's second version drops a path of the first and adds one that app ships too.
MCShips == (app :> <<{"a"}, {"a", "etc"}>>) @@ (lib :> <<{"l", "m"}, {"l", "etc"}>>)
MCDepends == (app :> <<{lib}, {lib}>>) @@ (lib :> <<{}, {}>>)
=============================================================================
