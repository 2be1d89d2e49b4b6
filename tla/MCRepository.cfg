\* Two processes, three files of a package, versions that compare alike as numbers and text.
SPECIFICATION Spec
CONSTANTS
    p1 = p1
    p2 = p2
    a = a
    Proc = {p1, p2}
    File <- MCFile
    Content = {"c1"}
    None = None
    Partial = Partial
VIEW View
SYMMETRY Symmetry
INVARIANTS
    TypeOK
    IndexMatches
    NewestIndexed
    SidecarMatches
