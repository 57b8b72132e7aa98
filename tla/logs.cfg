CONSTANTS
    Cap = 1
    MaxLines = 3
    MaxRotations = 1
    MaxCrashes = 1
SPECIFICATION FairSpec
INVARIANTS LogTypeOK AuditInOrder OnlyMissedRotationSkips TrafficCountedOnce
PROPERTIES EveryMutationAudited
CHECK_DEADLOCK FALSE
