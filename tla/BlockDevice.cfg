CONSTANTS
    d1 = d1
    d2 = d2
    Devices <- MCDevices
    p = p
    Procs = {p}
    Mounts <- MCMounts
    FirstMounts <- MCFirstMounts
    NoDevice = NoDevice
    Enclosing = Around
    Platform = "linux"
    MaxOps = 5
    MaxFaults = 2

SPECIFICATION Spec

INVARIANTS
    OneRecordEach
    StateReadable
    StateAgrees

PROPERTY
    RecordsKept

\* Between commands nobody has to start another one.
CHECK_DEADLOCK FALSE
