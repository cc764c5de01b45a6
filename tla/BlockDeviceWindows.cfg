CONSTANTS
    d1 = d1
    d2 = d2
    Devices <- MCDevices
    p = p
    Procs = {p}
    Mounts <- MCMounts
    FirstMounts <- MCFirstMounts
    NoDevice = NoDevice
    Enclosing = Around
    Platform = "windows"
    MaxOps = 4
    MaxFaults = 1

SPECIFICATION Spec

PROPERTIES
    TrackedIsSafe

\* Between commands nobody has to start another one.
CHECK_DEADLOCK FALSE
