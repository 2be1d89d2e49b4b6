SPECIFICATION BootSpec
CONSTANTS
    Package <- MCPackage
    Scripts <- MCSrcScripts
    SrcPhases <- MCSrcWork
    HasVacuole = TRUE
    Packages <- MCPackages
    Recipe <- MCRecipe
INVARIANTS
    ResumedSound
VIEW View
