SPECIFICATION Spec
CONSTANTS
    Controllers = {c1, c2}
    Intakes = {intake}
    Verifier = verifier
    MaxCalls = 3
    MaxKills = 1
    NoOne = NoOne
    NoRole = NoRole
INVARIANTS
    
    PendingFits
    AgentsAccounted
    FrozenIsEarned
PROPERTIES
    TransactionKept
    
    StartedSettles
CHECK_DEADLOCK FALSE
