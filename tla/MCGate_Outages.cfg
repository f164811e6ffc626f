SPECIFICATION GateSpec
CONSTANTS
    Slots <- MCSlots
    KeysOf <- MCKeysOf
    CaseInfo <- MCCaseInfo
    HashOf <- MCHashOf
    Designs <- MCDesigns
    Outages <- MCOutages
    Leaky = {}
    Policies <- MCPolicies
    GraderSets = {{"v1"}}
    Regraders = {}
    Doubtable = {}
    Compared <- MCCompared
    Regraded = {}
    Scale = 1
INVARIANT OutagesBlock
CHECK_DEADLOCK FALSE
