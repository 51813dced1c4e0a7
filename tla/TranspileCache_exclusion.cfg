SPECIFICATION Spec
CONSTANTS
    Proc = {p1, p2, p3}
    Path = {a}
    WasmOf <- OneFile
    Content = {c}
    EditedTo = {}
    NoKey = NoKey
    Nobody = Nobody
    Inode <- Inodes
    MaxRuns = 1
    MaxFailures = 1
    MaxEdits = 0
    MaxCrashes = 0
INVARIANTS
    PopulationSerialized
CHECK_DEADLOCK FALSE
