CONSTANTS
    d1 = d1
    d2 = d2
    Devices <- MCDevices
    p = p
    Procs = {p}
    Mounts <- MCOneMount
    FirstMounts <- MCOneFirst
    NoDevice = NoDevice
    Enclosing = Around
    Platform = "linux"
    MaxOps = 4
    MaxFaults = 1

SPECIFICATION Spec

PROPERTY
    WipesWhatItUnmounted

\* Between commands nobody has to start another one.
CHECK_DEADLOCK FALSE
