CONSTANTS
    a = a
    b = b
    ra = ra
    rb = rb
    u = u
    s1 = s1
    s2 = s2
    User = User
    Zero = Zero
    Now = Now
    None = None
    Names <- MCNames
    Paths <- MCPaths
    Rename <- MCRename
    ModeOf <- MCModeOf
    UserFiles <- MCUserFiles
    Seeds <- MCSeeds
    SeedsFor <- MCSeedsFor
    Sizes = {1}
    MaxSize = 2
    Floor = 2
    MaxRotations = 1
    MaxFaults = 0
    MaxOps = 4
    Workers = 2

SPECIFICATION Spec
CHECK_DEADLOCK FALSE

PROPERTIES
    MutationsAreCarriedOut
