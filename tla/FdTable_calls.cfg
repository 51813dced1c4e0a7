SPECIFICATION Spec
CONSTANTS
    Handle = {h1, h2}
    NoFile = NoFile
    GuestPath <- TwoGuestPaths
    ReadOnly <- TwoReadOnly
    RootMount <- TwoRootMount
    Beneath <- TwoBeneath
    SpareSlots = 1
    MaxFds = 7
    OpenFlags <- OpensRights
    BaseArg <- BaseRights
    InhArg <- InhRights
SYMMETRY Symmetry
CONSTRAINT OnePartVaries
INVARIANTS
    TypeOK
    HandleOwnership
    InvalidatedIsEmpty
    RightsWithinRoot
    WriteRightBacked
PROPERTIES
    ReservedSlotsNotReused
    RightsOnlyShrink
CHECK_DEADLOCK FALSE
