CONSTANTS
    w1 = w1
    r1 = r1
    None = None
    Intake = Intake
    Cleaner = Cleaner
    Workers = {w1}
    Refs = {r1}
    MaxStageStarts = 2
    MaxAttempts = 1
    MaxZombies = 0
    MaxQueue = 1
    StoreOnly = FALSE
    KeepPolicy = FALSE
    Kinds = {"durable", "transient", "unavailable"}
    Confirmations = {TRUE}
    DeleteOutcomes = {TRUE}
SPECIFICATION FairSpec
INVARIANTS
    SummaryCoversSources
PROPERTIES
    RunsEnd
CHECK_DEADLOCK FALSE
