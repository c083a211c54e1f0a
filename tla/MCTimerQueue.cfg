SPECIFICATION Spec
CONSTANTS
    t1 = t1
    t2 = t2
    t3 = t3
    Timers = {t1, t2, t3}
    Period <- SomeRepeat
    Delays = {0, 1, 2}
    MaxTime = 9
    DistinctTimes = FALSE
    MayCancel = TRUE
INVARIANTS RunsWhenDue NoTimerForgotten LateByAtMostOnePeriod
