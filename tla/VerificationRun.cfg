CONSTANTS
    w1 = w1
    Cleaner = Cleaner
    None = None
    source = source
    chunks = chunks
    Workers = {w1}
    Source = source
    Derived = {chunks}
    LeaseTicks = 2
    Skew = 1
    MaxRenewals = 1
    MaxZombies = 1
SPECIFICATION FairSpec
INVARIANTS
    NoOrphan
    SourceStaysReadable
    SuccessMeansReports
PROPERTIES
    RenewedRunStays
    KeepsPromise
    BytesGo
CHECK_DEADLOCK FALSE
