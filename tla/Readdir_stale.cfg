SPECIFICATION Spec
CONSTANTS
    x = x
    y = y
    z = z
    long = long
    Name = {x, long}
    Length <- NameLength
    BufLen = 54
    MaxSeen = 8
    Clears = FALSE
    Rewinds = TRUE
INVARIANTS
    EachEntryOnce
CHECK_DEADLOCK FALSE
