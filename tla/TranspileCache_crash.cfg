SPECIFICATION FairSpec
CONSTANTS
    Proc = {p1, p2, p3}
    Path = {a}
    WasmOf <- OneFile
    Content = {c}
    EditedTo = {}
    NoKey = NoKey
    Nobody = Nobody
    Inode <- Inodes
    MaxRuns = 2
    MaxFailures = 0
    MaxEdits = 0
    MaxCrashes = 2
INVARIANTS
    CacheTypeOK
    PopulationSerialized
    ValidEntryKept
    MetaVouchesForModule
    RunsReturnTheSource
    FailuresAreOwn
PROPERTY
    RunsEnd
CHECK_DEADLOCK FALSE
