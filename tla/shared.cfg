CONSTANTS
    a = a
    b = b
    admin = admin
    k1 = k1
    k2 = k2
    ka = ka
    k0 = k0
    b1 = b1
    c1 = c1
    Agent = Agent
    NoPayload = NoPayload
    AdminConfigured = TRUE
    Users <- McFewUsers
    Admin <- McAdmin
    FormerAdmins <- McFormerAdmins
    Payloads <- McFewPayloads
    Buckets = {}
    AllowedOps <- SomeOps
    Ctls = {c1}
    MaxCmds = 1
    MaxCtlOps = 2
    MaxUpsets = 0
    FirstFiles <- McOneFile
SPECIFICATION Spec
INVARIANTS StaleGatewayExplained
PROPERTIES OnlyOverlapLosesEdits
CHECK_DEADLOCK FALSE
