CONSTANTS
    Threads = {s, t, u}
    Modulus = 4
    Frames = {2, 3}
    None = None
    MaxDraws = 4
SPECIFICATION Spec
SYMMETRY Symmetry
INVARIANTS
    TypeOK
    MutualExclusion
    TicketsDistinct
    TokenKept
