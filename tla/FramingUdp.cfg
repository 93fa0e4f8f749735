\* The UDP socket: datagrams in any order, one longer than the chunk.
SPECIFICATION Spec
CONSTANTS
    Streams <- MCStreams
    MaxMessages = 3
    Length = 3
    Datagrams = TRUE
    MaxPacket = 1
    MaxQueued = 1
    MaxFrames = 3
CHECK_DEADLOCK FALSE
INVARIANTS
    FramesAreMessages
