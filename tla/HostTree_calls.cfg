SPECIFICATION Spec
CONSTANTS
    File = {f1, f2}
    Fixed = d0
    Dir = {d0, d1, d2}
    Mounts <- BesideEachOther
    Initial <- HostDirs
    Arg <- Paths
    Slot = {s}
    MaxDepth = 3
    MaxNames = 6
    MaxHostChanges = 2
SYMMETRY Shapes
INVARIANTS
    HostTypeOK
    DirfdLeadsBelowItself
    CallsDoWhatTheySay
    
PROPERTIES
    ChangesStayBelow
    
CHECK_DEADLOCK FALSE
