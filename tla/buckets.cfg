SPECIFICATION FairSpec
CONSTANTS
    b1 = b1
    r1 = r1
    r2 = r2
    Buckets <- MCBuckets
    NoName = NoName
    NumObjects = 2
    PageSize = 1
    Rules <- MCRules
    BadRule = BadRule
    NoRule = NoRule
    Refuses = "retained"
    MaxCmds = 3
    MaxFaults = 1
INVARIANTS
    BucketTypeOK
    RetentionAsReported
    WormCreateRepairs
    ForcedDeleteGetsOn
PROPERTIES
    
    BucketCommandAnswered
CHECK_DEADLOCK FALSE
