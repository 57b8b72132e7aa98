SPECIFICATION FairSpec
CONSTANTS
    c1 = c1
    c2 = c2
    None = None
    Large <- MCLarge
    Ids <- MCIds
    Sources <- MCSources
    Unlimited = TRUE
    PendingLimit = 2
    BufferLimit = 1
    MaxBeats = 1
    MaxFaults = 2
INVARIANTS
    SessionTypeOK
    NoLeftovers
    CapabilitiesLead
PROPERTIES
    PromiseKept
    AcceptedIsAnswered
    AgentComesUp
CHECK_DEADLOCK FALSE
