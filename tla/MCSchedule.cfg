SPECIFICATION Spec
CONSTANTS
    Every = 1
    Grace = 0
    Policies = {"skip", "await_input"}
    MaxDues = 2
    MaxTime = 3
    MaxRev = 2
    MaxFaults = 1
    Slices = 1
INVARIANTS
    
    RunsMatchOccurrences
    SucceededCompleted

    
