CONSTANTS
    ka = ka
    kb = kb
    c1 = c1
    Agent = Agent
    Keys = {ka, kb}
    Ctls = {c1}
    MaxOps = 4
    MaxCrashes = 1
SPECIFICATION Spec
INVARIANTS BlockTypeOK StaleBlocksExplained
PROPERTIES OnlyOverlapLosesBlocks
CHECK_DEADLOCK FALSE
