CONSTANTS
    a = a
    b = b
    admin = admin
    k1 = k1
    k2 = k2
    ka = ka
    k0 = k0
    b1 = b1
    c1 = c1
    Agent = Agent
    NoPayload = NoPayload
    AdminConfigured = TRUE
    Users <- McUsers
    Admin <- McAdmin
    FormerAdmins <- McFormerAdmins
    Payloads <- McPayloads
    Buckets = {b1}
    AllowedOps <- AllOps
    Ctls = {}
    MaxCmds = 2
    MaxCtlOps = 0
    MaxUpsets = 1
    FirstFiles <- McFirstFiles
SPECIFICATION Spec
INVARIANTS ErrorFreeSyncIsServed
CHECK_DEADLOCK FALSE
