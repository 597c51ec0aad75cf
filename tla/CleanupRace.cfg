CONSTANTS
    w1 = w1
    r1 = r1
    None = None
    Intake = Intake
    Cleaner = Cleaner
    Workers = {w1}
    Refs = {r1}
    MaxStageStarts = 1
    MaxAttempts = 2
    MaxZombies = 0
    MaxQueue = 1
    StoreOnly = FALSE
    KeepPolicy = FALSE
    Kinds = {"durable"}
    Confirmations = {TRUE}
    DeleteOutcomes = {TRUE}
SPECIFICATION Spec
INVARIANTS
    RunningRefreshIsMarked
CHECK_DEADLOCK FALSE
