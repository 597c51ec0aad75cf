CONSTANTS
    Visitors = {v1}
    None = None
    MaxJobs = 3
    MaxVersions = 2
    MaxReports = 3
    MaxFaults = 1
SPECIFICATION FairSpec
PROPERTIES SupersededGo
INVARIANTS  NoBytesWithoutRecord
