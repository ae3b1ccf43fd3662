CONSTANTS
    s = s
    m = m
    g1 = g1
    g2 = g2
    g3 = g3
    g4 = g4
    c1 = c1
    b1 = b1
    b2 = b2
    NoProc = NoProc
    NoLedger = NoLedger
    Damaged = Damaged
    Lockers = {s}
    Finalizers = {m}
    Places = {g1, g2, g3, g4}
    OwnedPages = {g1, g2, g3}
    Histories <- MCHistories
    Targets <- MCTargets
    Names <- MCNames
    States <- MCStates
    Scopes = {c1}
    Bundles = {b1, b2}
    MaxAliases = 3
    MaxEvents = 3
SPECIFICATION FairSpec
INVARIANTS
    AuthorityNotBehind
    ReviewsOfTheirConcept
    ReconcileSettles
PROPERTIES
    
    IdentityStands
    
CHECK_DEADLOCK FALSE
