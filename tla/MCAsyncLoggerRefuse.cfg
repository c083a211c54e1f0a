SPECIFICATION Spec
CONSTANTS
    t1 = t1
    t2 = t2
    Appenders = {t1, t2}
    BufferSize = 2
    MaxAppends = 2
    InitialWords <- AvailableWord
    Absent = Absent
INVARIANT RefusedOnlyWhenStopping
