SPECIFICATION Spec
CONSTANTS
    Handle = {h1, h2}
    NoFile = NoFile
    GuestPath <- OneGuestPath
    ReadOnly = {}
    RootMount = {}
    Beneath <- OneBeneath
    SpareSlots = 1
    MaxFds = 6
    OpenFlags <- OpensPlain
    BaseArg <- ReadOnce
    InhArg <- ReadOnce
INVARIANT
    PrestatOnlyPreopensInUse
CHECK_DEADLOCK FALSE
