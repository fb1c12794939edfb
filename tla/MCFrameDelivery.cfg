SPECIFICATION Spec
CONSTANTS
    None = None
    DdpPixels = 2
    ReceiveBuffer = 4096
    Profiles <- MCProfiles
    Headers <- MCHeaders
    Frames = 3
INVARIANTS AcceptedPlays PictureInPlace NewestShown
PROPERTIES TwinMirrors
CHECK_DEADLOCK FALSE
