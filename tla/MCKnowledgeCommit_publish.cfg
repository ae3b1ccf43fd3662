CONSTANTS
    p1 = p1
    p2 = p2
    q1 = q1
    a = a
    b = b
    c = c
    o1 = o1
    o2 = o2
    o3 = o3
    NoProc = NoProc
    Absent = Absent
    Publishers = {p1, p2}
    Holders = {p1}
    Cleaners = {}
    Gens = {a, b, c}
    FlatGens = {a, c}
    Objects = {o1, o2}
    Migrations <- MCMigrations
    Contents <- MCContents
    Encoded <- MCEncoded
    ObjectsOf <- MCObjects
    FirstGen = a
SPECIFICATION Spec
PROPERTIES
    PublishReplacesCaptured
    PublishedComplete
    ImplementsRegister
