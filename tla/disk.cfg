SPECIFICATION Spec
CONSTANTS
    loop = loop
    handler = handler
    Callers <- MCCallers
    Width = 2
    MaxTime = 3
    MaxMoved = 4
    MaxEpoch = 1
INVARIANTS
    DiskTypeOK
    OnlyOvertakenSampleMisreports
    WindowsDisjoint
CHECK_DEADLOCK FALSE
