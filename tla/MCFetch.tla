------------------------------ MODULE MCFetch ------------------------------
(***************************************************************************)
(* Fetch for two packages: gcc, and glibc in two versions, the latest with *)
(* a signature.  Both latest recipes have a source of the file name gmp,   *)
(* which a mirror has as well, with equal or different hashes.             *)
(***************************************************************************)
EXTENDS Fetch

MCRecipe == {"glibc239", "glibc243", "gcc"}
MCNameOf == [r \in MCRecipe |-> IF r = "gcc" THEN "gcc" ELSE "glibc"]
MCVersionOf == [r \in MCRecipe |-> CASE r = "gcc" -> "14" [] r = "glibc239" -> "2.39"
                                     [] r = "glibc243" -> "2.43"]
MCTextRank == [v \in {"14", "2.39", "2.43"} |-> CASE v = "14" -> 1 [] v = "2.39" -> 2 [] OTHER -> 3]
MCNames == <<"gcc", "glibc">>
MCSources == [r \in MCRecipe |->
    CASE r = "gcc" -> <<[file |-> "gcc", hashed |-> TRUE], [file |-> "gmp", hashed |-> TRUE]>>
      [] r = "glibc243" -> <<[file |-> "gmp", hashed |-> TRUE], [file |-> "sig", hashed |-> FALSE]>>
      [] r = "glibc239" -> <<[file |-> "gmp", hashed |-> FALSE]>>]
MCContent == {"c1", "c2"}
MCLayout == [c \in MCContent |-> IF c = "c1" THEN "one" ELSE "self"]
MCEnvRules == <<>>
MCFileRules == <<{"gmp"}>>
=============================================================================
