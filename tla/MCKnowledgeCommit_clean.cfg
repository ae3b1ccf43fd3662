CONSTANTS
    p1 = p1
    p2 = p2
    q1 = q1
    a = a
    b = b
    c = c
    o1 = o1
    o2 = o2
    o3 = o3
    NoProc = NoProc
    Absent = Absent
    Publishers = {p1, p2}
    Holders = {p1}
    Cleaners = {q1}
    Gens = {a, c}
    FlatGens = {}
    Objects = {o1, o2, o3}
    Migrations <- NoMigrations
    Contents <- MCContents
    Encoded <- IndexedEncoded
    ObjectsOf <- IndexedObjects
    FirstGen = c
SPECIFICATION Spec
INVARIANTS
    CommittedClosure
    PrunedBytesKept
    TornOnlyByInterruption
