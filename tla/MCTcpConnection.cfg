SPECIFICATION FairSpec
CONSTANTS
    u1 = u1
    u2 = u2
    Users = {u1, u2}
    Loop = Loop
    MaxCalls <- CallsOfEach
CHECK_DEADLOCK FALSE
INVARIANTS SendersCounted ShutdownAfterSends SslOpenWhileSending ClosedOnce
PROPERTIES DisconnectedIsFinal ShutdownTakesEffect CallsReturn
