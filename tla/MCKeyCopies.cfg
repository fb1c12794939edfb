SPECIFICATION Spec
CONSTANTS
    Sessions = 1
    SeqMax = 2
    SentAt <- MCOverlapping
    Lead = 2
    Wire = 1
    Tolerance = 1
    Timeout = 2
    MaxTime = 6
    MaxGen = 1
    LoadFirst = {"prepared"}
PROPERTIES CopiesCommitOnce
