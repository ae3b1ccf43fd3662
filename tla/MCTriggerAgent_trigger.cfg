SPECIFICATION TriggerFairSpec
CONSTANTS
    Runs = {r1, r2}
    Limit = 3
    TTL = 2
    MaxRunKills = 2
    NoRun = NoRun
INVARIANTS
    OpenOnlyAfterFailures
PROPERTIES
    ProbesSpaced
    NeverWedged
