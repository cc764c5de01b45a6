CONSTANTS
    x = x
    y = y
    long = long
    old = old
    new = new
    Paths <- MCPaths
    Parent <- MCParent
    Contents <- MCContents
    SizeOf <- MCSizeOf
    Metas <- MCMetas
    Excludes <- MCExcludes
    Trees <- MCTrees
    RootTypes = {"directory", "symlink"}
    Workers = 2
    MaxWrites = 1
    MaxFaults = 1

SPECIFICATION FairSpec

\* The command ends.
CHECK_DEADLOCK FALSE

INVARIANTS
    TypeOK
    VerdictIsRight
    EveryEntryOnce
    FailureHasCause

PROPERTIES
    NoNewWorkAfterFailure
    Ends
