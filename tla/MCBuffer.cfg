SPECIFICATION BufferSpec
CONSTANTS
    Byte = {0, 1}
    Initial = 2
    Extra = 2
    MaxLen = 3
    MaxReadable = 4
INVARIANTS RoomAsPromised
PROPERTY ImplementsQueue
