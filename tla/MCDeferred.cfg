SPECIFICATION FairSpec
CONSTANTS
    Ops = 4
    Verdicts = {"succeeded"}
    Images <- MCImages
    Lanes <- MCLanes
    Editor = editor
    Reviewer = reviewer
    MaxQueue = 2
    Mixed = FALSE
    MaxFaults = 1
    None = None
    t1 = t1
    t2 = t2
    editor = editor
    reviewer = reviewer
INVARIANTS
    ProviderOnce
    SettledRecorded
PROPERTIES
    OperationsEnd
CHECK_DEADLOCK FALSE
