SPECIFICATION FairSpec
CONSTANTS
    x = x
    y = y
    z = z
    long = long
    Name = {x, y, long}
    Length <- NameLength
    BufLen = 51
    MaxSeen = 8
    Clears = TRUE
    Rewinds = TRUE
INVARIANTS
    DirTypeOK
    EachEntryOnce
    NothingMissed
PROPERTIES
    SnapshotsAreWhole
    ScansEnd
CHECK_DEADLOCK FALSE
