\* One lysin at a time.
SPECIFICATION Spec
CONSTANTS
    p1 = p1
    app = app
    lib = lib
    Proc = {p1}
    Package = {app, lib}
    Version = {1, 2}
    Path = {"a", "l", "m", "etc"}
    Ships <- MCShips
    Depends <- MCDepends
    None = None
    Partial = Partial
INVARIANTS
    TypeOK
    DbWhole
    FilesPresent
    NoneLeftBehind
    DepsRecorded
PROPERTIES
    ImplementsPackageDb
