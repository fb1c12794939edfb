SPECIFICATION FairSpec
CONSTANTS
    MediaShows = {m, u}
    PlainShows = {p}
    Timed = {m}
    NoShow = none
    IdleStreak = 2
    CrashStreak = 2
    MpvMayFail = TRUE
    MaxRequests = 3
    MaxFaults = 1
INVARIANTS EnginesAccounted StateAgrees
PROPERTIES EndNoticed CrashNoticed
