SPECIFICATION Spec
CONSTANTS
    Sites = {s1}
    Hotspot = Hotspot
    Cabin = Cabin
    CabinId = CabinId
    NoNet = NoNet
    Threshold = 2
    MaxRequests = 1
    MaxFaults = 2
    MaxRestarts = 1

INVARIANTS OneAnnouncement
PROPERTIES CabinKept Reachable Announced
CHECK_DEADLOCK FALSE
