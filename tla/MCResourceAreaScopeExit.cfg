CONSTANTS
    Chunks = {k1, k2, k3}
    NULL = NULL
    Handles = {p, q}
    Align = 2
    Overhead = 2
    DefaultSize = 7
    Sizes = {0, 3}
    InitSizes = {0}
    MaxMarks = 2
    MarkOnEmpty = TRUE
SPECIFICATION RSpec
SYMMETRY Symmetry
PROPERTY ScopeExitRestores
