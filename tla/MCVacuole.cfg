\* gc may overlap anything, as nothing in the code prevents it.
SPECIFICATION Spec
CONSTANTS
    p1 = p1
    p2 = p2
    c1 = c1
    c2 = c2
    d1 = d1
    d2 = d2
    n1 = n1
    n2 = n2
    Proc = {p1, p2}
    Content = {c1, c2}
    Digest = {d1, d2}
    SHA256 <- MCSHA256
    RefName = {n1}
    Object = Object
    NoFile = NoFile
    Partial = Partial
    QuietGC = FALSE
SYMMETRY Symmetry
VIEW View
INVARIANTS
    TypeOK
    ObjectsIntact
PROPERTIES
    GcSparesRooted
