SPECIFICATION FairSpec
CONSTANTS
    Proc = {p1, p2}
    Path = {a, b}
    WasmOf <- OwnFile
    Content = {c}
    EditedTo = {NoKey}
    NoKey = NoKey
    Nobody = Nobody
    Inode <- Inodes
    MaxRuns = 2
    MaxFailures = 1
    MaxEdits = 1
    MaxCrashes = 0
INVARIANTS
    NothingPoisonedAtRest
PROPERTY
    RunsEnd
CHECK_DEADLOCK FALSE
