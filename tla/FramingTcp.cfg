\* A TCP connection: reads and writes end anywhere.
SPECIFICATION FairSpec
CONSTANTS
    Streams <- MCStreams
    MaxMessages = 3
    Length = 5
    Datagrams = FALSE
    MaxPacket = 2
    MaxQueued = 1
    MaxFrames = 0
CHECK_DEADLOCK FALSE
INVARIANTS
    FramesInOrder
    LeftBehindRefused
    WireExact
PROPERTIES
    Delivered
    Flushed
