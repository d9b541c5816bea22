CONSTANTS
    t1 = t1
    t2 = t2
    k1 = k1
    k2 = k2
    n1 = n1
    n2 = n2
    n3 = n3
    Threads = {t1, t2}
    Frames = {2}
    LockModulus = 4
    Width = 9
    AgeBits = 1
    HashBits = 3
    EpochBits = 2
    ThreadAlign = 7
    NoWord = NoWord
    RecordOf <- Records
    Classes = {k1, k2}
    Root = Root
    NoClass = NoClass
    MethodNames = {n1, n2, n3}
    RootVtable <- Vtable
    NameOf <- Names
    FlagsOf <- Flags
    CodeOf <- Codes
    PoolOf <- Pools
    WordSize = 2
    HeaderSize = 2
    SpaceSize = 10
    AddressMod = 64
    SizeMod = 16
    AddressOf <- Addresses_k
    Garbage = 3
SPECIFICATION OopsSpec
INVARIANTS
    OopsTypeOK
    StatesTold
    FieldsKept
    HashAgreed
    DisplacedKept
    LifeCycle
    SubclassesListed
    CodeInline
    MethodsFound
    TagsTold
    KlassReachable
PROPERTY LockComesFree
