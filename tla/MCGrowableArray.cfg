CONSTANTS
    Arrays = {x, y}
    Blocks = {b1, b2}
    NULL = NULL
    Values = {u, v}
    Fresh = Fresh
    Garbage = Garbage
    InitSizes = {0, 1}
    MaxSize = 4
    MaxMarks = 1
SPECIFICATION Spec
SYMMETRY Symmetry
INVARIANTS
    TypeOK
    ElementsOwned
    HeapExact
    ActsAsSequence
