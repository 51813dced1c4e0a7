SPECIFICATION Spec
CONSTANTS
    f1 = f1
    f2 = f2
    a = a
    b = b
    Zero = Zero
    Fd = {f1, f2}
    Kinds <- AnyBeside
    Rights <- AllRights
    Byte = {a, b}
    Embedded <- TwoBytes
    ReadIovs <- Lengths
    WriteIovs <- Buffers
    MaxSize = 2
INVARIANTS
    FileTypeOK
    PositionsInStep
PROPERTY
    CallsAreAtomic
CHECK_DEADLOCK FALSE
