SPECIFICATION Spec
CONSTANTS
    Uptimes = {100, 200}
    Window = 3
    MinSamples = 2
    MaxAge = 3
    MaxUncertainty = 1
    LateTolerance = 1
    MaxFuture = 5
    RecoveryWindow = 3
    Lead = 2
    Interval = 2
    StartupBeacons = 2
    Spacing = 1
    MaxDelay = 1
    MaxStrays = 1
    MaxRestarts = 2
    MaxTime = 10
INVARIANTS OnTime KeyTaken Recovers
CHECK_DEADLOCK FALSE
