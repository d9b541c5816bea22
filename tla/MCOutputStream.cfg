CONSTANTS
    a = a
    b = b
    Letters = {a, b}
    Newline = Newline
    Tab = Tab
    Blank = Blank
    NUL = NUL
    Raw = Raw
    Strings <- Printed
    OwnedSize = 2
    FixedSizes = {0, 1, 3}
    PrintSize = 3
    TabStop = 3
    MaxText = 5
    MaxDevice = 3
SPECIFICATION Spec
INVARIANTS
    TypeOK
    TextKept
    Terminated
    PositionFollows
    Delivered
    Released
