SPECIFICATION Spec
CONSTANTS
    MediaShows = {m}
    PlainShows = {p}
    Timed = {m}
    NoShow = none
    IdleStreak = 2
    CrashStreak = 2
    MpvMayFail = FALSE
    MaxRequests = 3
    MaxFaults = 1
PROPERTIES StopLeavesNothing
