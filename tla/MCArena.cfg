CONSTANTS
    Chunks = {k1, k2, k3}
    NULL = NULL
    Handles = {p, q, r}
    Align = 2
    Overhead = 2
    DefaultSize = 7
    Sizes = {0, 1, 3}
    InitSizes = {0, 5}
SPECIFICATION Spec
SYMMETRY Symmetry
INVARIANTS
    TypeOK
    Disjoint
    InBounds
    ContentsKept
    Ownership
PROPERTY
    ImplementsAllocator
