\* Two goroutines, three functions, two of four blocks in the way of a boundary;
\* images of up to three sections at bases around a word boundary.
SPECIFICATION MCSpec
CONSTANTS
    Threads = {t1, t2}
    Procs = {p1, p2, p3}
    Exported = {p1, p2}
    Blocks = {b1, b2, b3, b4}
    Crossing = {b1, b2}
    NImports = 2
    None = None
    Page = 2
    SectionAlignment = 2
    Word = 32
    Bases = {16, 22, 64}
    Files <- AllFiles
INVARIANTS
    AddressesLive
    OneLibrary
    SectionsUsable
PROPERTY FindReturns
