----------------------------- MODULE MCBootstrap -----------------------------
(***************************************************************************)
(* Bootstrap with a package in the toolchain, one that is in temp-tools    *)
(* and base-system both, and one without a recipe.                         *)
(***************************************************************************)
EXTENDS Bootstrap

MCPackage == {"gcc", "m4", "linux"}
MCScripts == [b \in MCPackage |->
    IF b = "m4" THEN {"compile", "install"} ELSE {"install"}]
MCSrcPhases == [b \in MCPackage |-> {}]

\* cross-gcc's prepare leaves links to its libraries in SRCDIR.
MCSrcScripts == [b \in MCPackage |->
    IF b = "gcc" THEN {"prepare", "install"} ELSE {"install"}]
MCSrcWork == [b \in MCPackage |-> IF b = "gcc" THEN {"prepare"} ELSE {}]

MCPackages == [bp \in BPhase |->
    CASE bp = "cross-toolchain" -> <<"gcc">>
      [] bp = "kernel" -> <<"linux">>
      [] OTHER -> <<"m4">>]
MCRecipe == MCPackage \ {"linux"}
\* What the cache holds is written and not read, and no property here is about it.
View == <<marks, src, placed, pc, run, sound, tainted, boot, unmerged>>
=============================================================================
