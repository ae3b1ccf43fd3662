SPECIFICATION Spec
CONSTANTS
    Procs = {p1, p2}
    Inodes = {i1, i2, i3}
    Contents = {a, b}
    Singles = {TRUE}
    MaxEdits = 1
    MaxDeaths = 1
    None = None
SYMMETRY FileSymmetry
INVARIANTS
    NothingErased
    
