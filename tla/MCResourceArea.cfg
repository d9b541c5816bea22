CONSTANTS
    Chunks = {k1, k2, k3}
    NULL = NULL
    Handles = {p, q}
    Align = 2
    Overhead = 2
    DefaultSize = 7
    Sizes = {1, 3}
    InitSizes = {0, 5}
    MaxMarks = 2
    MarkOnEmpty = FALSE
SPECIFICATION RSpec
SYMMETRY Symmetry
INVARIANTS
    RTypeOK
    Disjoint
    Accounting
    MarksValid
PROPERTIES
    ScopeExitRestores
    ImplementsScopedAllocator
