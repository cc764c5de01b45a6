CONSTANTS
    Tiers <- MCTiers
    SmallestFile = 2
    LeastAppend = 3
    AverageSize = 2
    Targets = {3}
    Requests <- MCRequests
    Stems = {x, y}
    Seeds = {7, 8}
    Strategies = {"balanced"}
    PlanningSpan = 0
    FileSpan = 0
    RotationSpan = 0
    MaxRotations = 2
    x = x
    y = y

SPECIFICATION Spec
CHECK_DEADLOCK FALSE

INVARIANT
    CreatesNewFiles
