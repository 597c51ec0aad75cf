CONSTANTS
    w1 = w1
    w2 = w2
    r1 = r1
    None = None
    Intake = Intake
    Cleaner = Cleaner
    Workers = {w1, w2}
    Refs = {r1}
    MaxStageStarts = 2
    MaxAttempts = 1
    MaxZombies = 1
    MaxQueue = 1
    StoreOnly = FALSE
    KeepPolicy = FALSE
    Kinds = {"durable", "transient"}
    Confirmations = {TRUE, FALSE}
    DeleteOutcomes = {TRUE, FALSE}
SYMMETRY WorkerSymmetry
SPECIFICATION Spec
INVARIANTS
    TypeOK
    StageOwnsJob
    InputAwaitsExtraction
PROPERTIES
    StagesMoveForward
CHECK_DEADLOCK FALSE
