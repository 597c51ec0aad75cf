CONSTANTS
    c1 = c1
    c2 = c2
    c3 = c3
    p1 = p1
    p2 = p2
    Callers = {c1, c2, c3}
    Processes = {p1, p2}
    ProcessOf <- TwoAndOne
    Places = 1
    Interval = 1
    Multiplier = 2
    MaxWait = 2
    Budgets = {2}
    Hold = 2
    KeyLife = 4
    DeferLife = 2
    Holds = {1, 2}
    RequestTime = 1
    Outage = 1
    MaxRefusals = 1
    MaxFaults = 1
SPECIFICATION FairSpec
INVARIANTS
    PlacesKept
PROPERTIES
    StartsApart
    CallsEnd
