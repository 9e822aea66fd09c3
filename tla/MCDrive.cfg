SPECIFICATION FairSpec
CONSTANTS
    p1 = p1  p2 = p2  r1 = r1
    NoRun = NoRun  NoOwner = NoOwner  NoRow = NoRow
    Procs = {p1, p2}
    Threads <- TwoThreads
    Runs = {r1}
    ProcOf <- TwoProcs
    ChanOf <- TwoChans
    Jobs = {1, 2, 3}
    JobRun <- OneRun
    JobAction <- TwoActions
    JobChan <- TwoJobChans
    Lease = 1
    MaxTime = 2
    MaxRev = 4
    MaxFaults = 1

    
    
PROPERTIES
    InputFencesCompletion
    ResultsTold
CHECK_DEADLOCK FALSE
