CONSTANTS
    Recipe <- MCRecipe
    NameOf <- MCNameOf
    VersionOf <- MCVersionOf
    TextRank <- MCTextRank
    Kebab <- MCKebab
    Text <- MCText
    FileOf <- MCFileOf
    MaxWrites = 1
SPECIFICATION Spec
INVARIANTS TypeOK DepsFirst SuccessMeansBuilt BuildsOnlySound RemovableSafe PlansComplete
PROPERTIES BuildAllEnds
