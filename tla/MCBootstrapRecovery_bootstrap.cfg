SPECIFICATION FairSpec
CONSTANTS
    Names = {index, page, manifest}
    Manifest = manifest
    Scaffolded = {index}
    Scaffold = scaffold
    Generated = {g1, g2}
    User = {u1, u2}
    MaxEdits = 2
    MaxFaults = 2
    Absent = Absent
INVARIANTS
    PartialIsGuarded
    
PROPERTIES
    RecoveryKeepsEdits
    
