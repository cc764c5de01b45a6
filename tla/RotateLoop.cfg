CONSTANTS
    a = a
    ra = ra
    u = u
    top = top
    s1 = s1
    s2 = s2
    User = User
    Zero = Zero
    Now = Now
    None = None
    Names <- MCNames
    Paths <- MCPaths
    Rename <- MCRename
    Dirs <- MCDirs
    DirsOf <- MCDirsOf
    ModeOf <- MCModeOf
    UserFiles <- MCUserFiles
    UserDirs <- MCUserDirs
    Seeds <- MCSeeds
    SeedsFor <- MCSeedsFor
    Sizes = {2}
    MaxSize = 3
    Floor = 1
    MaxRotations = 2
    MaxOps = 3
    MaxFaults = 2
    Workers = 1
    Privileged = TRUE

    Limits = {0, 1, 2}
    Hasty = TRUE

SPECIFICATION LoopFairSpec
CHECK_DEADLOCK FALSE

INVARIANTS
    InStep
    OutcomeIsRight

PROPERTIES
    InterruptLeavesAlone
    OperationEnds
    LoopEnds
