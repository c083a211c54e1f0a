SPECIFICATION TSpec
CONSTANTS
    Base = base
    t1 = t1
    Callers = {base, t1}
    Loop = Loop
    Size = 2
    MaxCalls <- Calls
INVARIANTS NoLostWakeup NoDanglingLoop
PROPERTIES QueuedRuns StartAndStopReturn
