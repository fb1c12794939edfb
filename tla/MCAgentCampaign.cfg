SPECIFICATION CampaignSpec
CONSTANTS
    p1 = p1
    p2 = p2
    None = None
    Steps <- MCSteps
    Tasks <- MCTasks
    Files <- MCFiles
    HandRepairs <- MCHandRepairs
    MaxStarts = 5
INVARIANTS TrunkInScope OncePerPhase
PROPERTIES CampaignEnds
CHECK_DEADLOCK FALSE
