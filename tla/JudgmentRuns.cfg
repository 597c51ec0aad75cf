CONSTANTS
    r1 = r1
    p1 = p1
    w1 = w1
    w2 = w2
    Scanner = Scanner
    Check = Check
    None = None
    Reports = {r1}
    Pages = {p1}
    Workers = {w1, w2}
    Items = 3
    Judged <- JudgedParts
    Sources <- FirstParts
    RunLimit = 2
    DayLimit = 2
    MaxCost = 1
    Costs = {1}
    OwnCosts = {0}
    MaxFailures = 1
    MaxRetries = 1
    PageSize = 1
    MaxRuns = 2
    MaxFaults = 1
SPECIFICATION FairSpec
INVARIANTS
    WalkedByOne
    

    
    
CHECK_DEADLOCK FALSE
