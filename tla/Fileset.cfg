CONSTANTS
    a = a
    b = b
    ra = ra
    rb = rb
    u = u
    top = top
    sub = sub
    s1 = s1
    s2 = s2
    User = User
    Zero = Zero
    Now = Now
    None = None
    Names <- MCNames
    Paths <- MCPaths
    Rename <- MCRename
    Dirs <- MCDirs
    DirsOf <- MCDirsOf
    ModeOf <- MCModeOf
    UserFiles <- MCUserFiles
    UserDirs <- MCUserDirs
    Seeds <- MCSeeds
    SeedsFor <- MCSeedsFor
    Sizes = {2}
    MaxSize = 3
    Floor = 1
    MaxRotations = 1
    MaxFaults = 1
    MaxOps = 4
    Workers = 2
    Privileged = FALSE

SPECIFICATION Spec

INVARIANTS
    TypeOK
    InStep

PROPERTIES
    ManifestOutlivesFiles
    UserFilesUntouched
    DestroyFailsOnlyOnFault
    ImplementsDataset

\* Between operations nobody has to start another one.
CHECK_DEADLOCK FALSE
