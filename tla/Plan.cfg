CONSTANTS
    Tiers <- MCTiers
    SmallestFile = 2
    LeastAppend = 3
    AverageSize = 2
    Targets = {3}
    Requests <- MCRequests
    Stems = {x}
    Seeds = {7}
    Strategies = {"balanced", "random"}
    PlanningSpan = 1
    FileSpan = 0
    RotationSpan = 0
    MaxRotations = 2
    x = x
    y = y

SPECIFICATION Spec
CHECK_DEADLOCK FALSE

INVARIANTS
    TypeOK
    AllocationIsExact
    MutationsShow
    BalancedIsSteady
