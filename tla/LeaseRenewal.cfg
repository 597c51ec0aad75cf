CONSTANTS
    w1 = w1
    r1 = r1
    r2 = r2
    None = None
    Intake = Intake
    Cleaner = Cleaner
    Workers = {w1}
    Refs = {r1, r2}
    MaxStageStarts = 1
    MaxAttempts = 2
    MaxZombies = 0
    MaxQueue = 1
    StoreOnly = FALSE
    KeepPolicy = FALSE
    Kinds = {"transient", "unavailable"}
    Confirmations = {TRUE}
    DeleteOutcomes = {TRUE}
SPECIFICATION Spec
PROPERTIES
    RefreshIsScoped
CHECK_DEADLOCK FALSE
