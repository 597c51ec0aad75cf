CONSTANTS
    t1 = t1
    t2 = t2
    t3 = t3
    r1 = r1
    r2 = r2
    s1 = s1
    s2 = s2
    Everyone = Everyone
    Threads = {t1, t2, t3}
    Runs = {r1, r2}
    RunOf <- TwoAndOne
    Scopes = {s1, s2}
    ScopeOf <- OwnScopes
    Required = TRUE
    Ceiling = 1
    Floor = 1
    HardMax = 5
    DailyMax = 3
    ScopeMax = 2
    MaxDay = 1
    MaxReferences = 2
    MaxIncidents = 2
    MaxFaults = 1
SYMMETRY ThreadSymmetry
SPECIFICATION Spec
INVARIANTS
    WithinBudgets
    CountsExact
    FloorGuaranteed
    OneRecoveryPerIncident
