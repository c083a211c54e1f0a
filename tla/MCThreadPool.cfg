SPECIFICATION PoolSpec
CONSTANTS
    s1 = s1
    Submitters = {s1, s2}
    NumThreads = 2
    QueueSize = 2
    MaxTasks <- Tasks
INVARIANTS StopDrains
PROPERTIES StopReturns SubmittedRuns
