CONSTANTS
    u1 = u1
    u2 = u2
    Sweeper = Sweeper
    None = None
    r1 = r1
    r2 = r2
    Users = {u1}
    Refs = {r1, r2}
    MaxGen = 2
    MaxFaults = 1
SPECIFICATION FairSpec
INVARIANTS
    RepresentationsReadable
    StagedBytesStay
    NothingUnnamed
PROPERTIES
    OnlyExpiredExpire
    UnneededBytesGo
CHECK_DEADLOCK FALSE
