CONSTANTS
    page = page
    index = index
    p0 = p0
    p1 = p1
    px = px
    g0 = g0
    g1 = g1
    m0 = m0
    m1 = m1
    m2 = m2
    a = a
    Files <- MCFiles
    Marker = marker
    Manifest = manifest
    Generated <- MCGenerated
    Private = private
    Contents <- MCContents
    Absent = absent
    FirstWiki <- MCFirst
    Plans <- MCPlans
    Edits <- MCEdits
    StateOf <- MCStateOf
    Coherent <- MCCoherent
    MaxOps = 3
    MaxEdits = 2
SPECIFICATION Spec
CHECK_DEADLOCK FALSE

    
PROPERTIES
    RecoverKeepsEdits
    CommitSavesWhole
