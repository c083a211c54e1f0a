\* A connect whose descriptor is not registered waits for ever: nothing else need happen.
SPECIFICATION Spec
CONSTANTS
    Fds = {fd1}
    MaxSends = 3
INVARIANTS IndexAgrees UpIsServed WaitingIsWatched StreamIntact PlainNeverWaits
CHECK_DEADLOCK FALSE
