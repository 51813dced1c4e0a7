SPECIFICATION FairSpec
CONSTANTS
    p1 = p1
    Proc = {p1, p2, p3}
    CacheOff = {p1}
    CfgOf <- TwoConfigs
    Content = {c}
    NoKey = NoKey
    Nobody = Nobody
    None = None
    Partial = Partial
    Failed = Failed
    LockId <- Locks
    Versions = {1, 2}
    Changing = {"wasm", "host", "tool"}
    MaxRuns = 1
    MaxFailures = 1
    MaxBuildFailures = 1
    MaxChanges = 1
    MaxCrashes = 1
INVARIANTS
    BuildTypeOK
    RunsAreCurrent
    ValidRunnerKept
    CacheFailsNoRun
PROPERTY
    RunsEnd
CHECK_DEADLOCK FALSE
