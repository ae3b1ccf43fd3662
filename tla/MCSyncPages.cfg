CONSTANTS
    a = a
    b = b
    c = c
    x = x
    y = y
    z = z
    Owners = {a, b, c}
    Paths = {x, y, z}
    NoPath = NoPath
    NoOwner = NoOwner
    NoNote = NoNote
    Absent = Absent
    FirstMap <- MCFirstMap
    Targets <- MCTargets
    MaxSyncs = 2
    MaxChanges = 1
    MaxEdits = 1
    MaxFails = 1
    MaxKills = 1
SPECIFICATION FairSpec

    
    
PROPERTIES
    RecoverOnlyNew
    EventuallySynced
CHECK_DEADLOCK FALSE
