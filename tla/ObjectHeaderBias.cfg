CONSTANTS
    Width = 9
    AgeBits = 1
    HashBits = 3
    EpochBits = 2
    ThreadAlign = 5
SPECIFICATION Spec
INVARIANT BiasKept
