CONSTANTS
    None = None
    MaxJobs = 2
    MaxDay = 2
    Pause = 2
    RerunDays = 1
    MaxRefreshes = 2
    MaxFaults = 1
SPECIFICATION Spec
INVARIANTS CopyIsUsed
PROPERTIES ReplayedWithinPause
CHECK_DEADLOCK FALSE
