CONSTANTS
    r1 = r1
    r2 = r2
    r3 = r3
    Requests <- ThreeRequests
    Deadlines <- TwoDeadlines
    PatchStatuses <- CancelOrReopen
    NoNight = NoNight
    Unchanged = Unchanged
    NoSchedule = NoSchedule
    MaxTime = 3
SPECIFICATION FairSpec
CHECK_DEADLOCK FALSE
PROPERTIES
    DeadlineCloses
