SPECIFICATION Spec
CONSTANTS
    Names = {index, manifest}
    Manifest = manifest
    Scaffolded = {index}
    Scaffold = scaffold
    Generated = {g1, g2}
    User = {u1, u2}
    MaxEdits = 0
    MaxFaults = 1
    Absent = Absent
SYMMETRY OutputSymmetry
INVARIANT RetryNotRefused
