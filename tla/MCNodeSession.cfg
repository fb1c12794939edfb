SPECIFICATION FairSpec
CONSTANTS
    Sessions = 2
    SeqMax = 2
    SentAt <- MCOverlapping
    Lead = 2
    Wire = 1
    Tolerance = 1
    Timeout = 1
    MaxTime = 8
    MaxGen = 2
    LoadFirst = {"prepared", "committed"}
INVARIANTS GenerationOrder AdmittedByKey OneIdentityPerGeneration AdmissionNeverMissed
PROPERTIES KeyNotDisplaced KeepsPromise EventuallyBlack KeyEventuallyAdmitted
