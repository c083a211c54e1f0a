SPECIFICATION FairSpec
CONSTANTS
    Main = main
    io1 = io1
    io2 = io2
    IoLoops = {io1, io2}
    Pools <- NoneOrTwo
    MaxConns = 2
    MaxStarts = 2
INVARIANTS RemoveFindsConnection DestroyedDisconnected
PROPERTY ClosedIsDestroyed
