SPECIFICATION Spec
CONSTANTS
    Sites = {s1}
    Hotspot = Hotspot
    Cabin = Cabin
    CabinId = CabinId
    NoNet = NoNet
    Threshold = 2
    MaxRequests = 1
    MaxFaults = 1
    MaxRestarts = 1

PROPERTIES HotspotReopens
CHECK_DEADLOCK FALSE
