SPECIFICATION NodesSpec
CONSTANTS
    Sessions = 2
    SeqMax = 3
    Chunks = {c1, c2}
    NodeId = 2
    Others = {1}
    Length = 5
    ByteTimeout = 1
    SafeTimeout = 2
    Levels = {1, 4}
    FadeTimes = {0, 3}
    Disguises = {0, 4}
    MaxTime = 6
    MaxFrames = 2
    MaxFaults = 1
SYMMETRY ChunkSymmetry
INVARIANTS WholeFrame DuplicateWasQueued ShowsLatest DarkInSilence
PROPERTIES QueuedForward Towards
CHECK_DEADLOCK FALSE
