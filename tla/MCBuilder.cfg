SPECIFICATION Spec
CONSTANTS
    Package <- MCPackage
    Scripts <- MCScripts
    SrcPhases <- MCSrcPhases
    HasVacuole = TRUE
INVARIANTS
    TypeOK
    PackagesSound
    CleanSound
