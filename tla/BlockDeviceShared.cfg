CONSTANTS
    d1 = d1
    d2 = d2
    Devices <- MCDevices
    p = p
    q = q
    Procs = {p, q}
    Mounts <- MCMounts
    FirstMounts <- MCStackedMounts
    NoDevice = NoDevice
    Enclosing = Around
    Platform = "linux"
    MaxOps = 3
    MaxFaults = 1

SPECIFICATION Spec

SYMMETRY MCSymmetry

INVARIANTS
    TypeOK
    RecordsAreFormatted

PROPERTIES
    UnforcedLeavesMounts
    ForcedUnmountsFirst

\* Between commands nobody has to start another one.
CHECK_DEADLOCK FALSE
