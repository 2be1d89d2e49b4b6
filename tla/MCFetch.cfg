CONSTANTS
    Recipe <- MCRecipe
    NameOf <- MCNameOf
    VersionOf <- MCVersionOf
    TextRank <- MCTextRank
    Names <- MCNames
    Sources <- MCSources
    Content <- MCContent
    Layout <- MCLayout
    EnvRules <- MCEnvRules
    FileRules <- MCFileRules
SPECIFICATION Spec
INVARIANTS Served ExtractedRight Accounted
PROPERTIES GivesUpLast RibosomeEnds
