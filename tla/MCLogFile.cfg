SPECIFICATION FSpec
CONSTANTS
    Appenders = {t1, t2}
    BufferSize = 2
    MaxAppends = 3
    InitialWords <- AnyWord
    Absent = Absent
    RollSize = 2
    CheckInterval = 2
    RollPerSeconds = 2
    Seconds = {4, 5}
INVARIANTS ExclusiveBuffers RecordsConserved FileBounded
PROPERTY AllReturn
