SPECIFICATION FairSpec
CONSTANTS
    t1 = t1
    t2 = t2
    t3 = t3
    Timers = {t1, t2, t3}
    Period <- NoneRepeats
    Delays = {0, 1, 2}
    MaxTime = 6
    DistinctTimes = TRUE
    MayCancel = FALSE
PROPERTY EveryTimerRuns
