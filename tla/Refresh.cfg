CONSTANTS
    w1 = w1
    w2 = w2
    r1 = r1
    r2 = r2
    None = None
    Intake = Intake
    Cleaner = Cleaner
    Workers = {w1, w2}
    Refs = {r1, r2}
    MaxStageStarts = 1
    MaxAttempts = 3
    MaxZombies = 0
    MaxQueue = 1
    StoreOnly = FALSE
    KeepPolicy = TRUE
    Kinds = {"durable"}
    Confirmations = {TRUE}
    DeleteOutcomes = {TRUE}
SYMMETRY Symmetry
SPECIFICATION Spec
INVARIANTS
    
    MarkedUntilCleanup
    KeptFileStays
    CompletedShowsReport
    EvidenceAvailable
    SummaryCoversSources
PROPERTIES RefreshIsScoped
CHECK_DEADLOCK FALSE
