----------------------------- MODULE MrnaIndex -----------------------------
(***************************************************************************)
(* MrnaIndex of ribosome-core: the recipe files of a nucleus directory by  *)
(* package name, all versions of each, and which of them a name, a pinned  *)
(* version or the version lock stands for.                                 *)
(***************************************************************************)
EXTENDS Naturals, FiniteSets

CONSTANTS
    Recipe,     \* the recipe files (.mRNA)
    NameOf,     \* the package and the version in each
    VersionOf,
    TextRank    \* the place of each version among all, compared as text

Package == {NameOf[r] : r \in Recipe}
Version == {VersionOf[r] : r \in Recipe}

ASSUME IndexAssumption ==
    /\ IsFiniteSet(Recipe) /\ DOMAIN NameOf = Recipe /\ DOMAIN VersionOf = Recipe
    /\ TextRank \in [DOMAIN TextRank -> Nat] /\ Version \subseteq DOMAIN TextRank
    /\ \A v, w \in DOMAIN TextRank : TextRank[v] = TextRank[w] => v = w

NoRecipe == "no recipe"
Unpinned == "unpinned"
Entries(files, name) == {r \in files : NameOf[r] = name}

\* The last of the entries, which are sorted by the text of the version.
Latest(entries) ==
    CHOOSE r \in entries : \A q \in entries : TextRank[VersionOf[q]] <= TextRank[VersionOf[r]]

\* A version that is missing is a warning, and the latest stands for it.
FindVersion(entries, wanted) ==
    LET exact == {r \in entries : VersionOf[r] = wanted}
    IN IF exact # {} THEN CHOOSE r \in exact : TRUE ELSE Latest(entries)

Resolve(files, name, pin, lock) ==
    LET entries == Entries(files, name)
    IN CASE entries = {} -> NoRecipe
         [] entries # {} /\ pin # Unpinned -> FindVersion(entries, pin)
         [] entries # {} /\ pin = Unpinned /\ lock # Unpinned -> FindVersion(entries, lock)
         [] OTHER -> Latest(entries)
=============================================================================
