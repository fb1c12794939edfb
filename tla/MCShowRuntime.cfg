SPECIFICATION Spec
CONSTANTS
    MCJunk = MCJunk
    Junk = MCJunk
    One <- MCOne
    Zones <- MCZones
    PixelCount <- MCPixelCount
    LayoutPaths <- MCLayoutPaths
    Registry <- MCRegistry
    SourcesOfRaw <- MCSourcesOfRaw
    ScalarSources <- MCScalarSources
    Documents <- MCDocuments
    Inputs <- MCInputs
    Skip = 2
    Horizon = 9
INVARIANTS AcceptedRuns BranchesInStep
PROPERTIES MusicSwitchesCalmly
CHECK_DEADLOCK FALSE
