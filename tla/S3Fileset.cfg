CONSTANTS
    a = a
    b = b
    ra = ra
    rb = rb
    u = u
    s1 = s1
    s2 = s2
    User = User
    Zero = Zero
    Now = Now
    None = None
    Names <- MCNames
    Paths <- MCPaths
    Rename <- MCRename
    ModeOf <- MCModeOf
    UserFiles <- MCUserFiles
    Seeds <- MCSeeds
    SeedsFor <- MCSeedsFor
    Sizes = {2}
    MaxSize = 3
    Floor = 1
    MaxRotations = 1
    MaxFaults = 2
    MaxOps = 4
    Workers = 2

SPECIFICATION Spec

INVARIANTS
    LifeTypeOK

PROPERTIES
    SavedRecordsMatch
    ManifestOutlivesFiles
    ImplementsDataset

\* Between operations nobody has to start another one.
CHECK_DEADLOCK FALSE
