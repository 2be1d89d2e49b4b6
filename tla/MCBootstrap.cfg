SPECIFICATION BootSpec
CONSTANTS
    Package <- MCPackage
    Scripts <- MCScripts
    SrcPhases <- MCSrcPhases
    HasVacuole = TRUE
    Packages <- MCPackages
    Recipe <- MCRecipe
INVARIANTS
    ToolsInstalled
    CleanInstalls
    BuiltSound
PROPERTIES
    SourcesWhole
VIEW View
