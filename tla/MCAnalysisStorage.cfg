SPECIFICATION FairSpec
CONSTANTS
    x = x
    y = y
    z = z
    large = large
    other = other
    small = small
    Shards = {x, y, z}
    Payloads = {large, other, small}
    ShardsOf <- MCShardsOf
    NoRoot = NoRoot
    Junk = Junk
    NoPayload = NoPayload
    NoShard = NoShard
    MaxFails = 2
    MaxKills = 2
    MaxDamage = 1
INVARIANTS
    CatalogClosed
    GarbageAccounted
PROPERTIES
    KeepsTidying
