SPECIFICATION Spec
CONSTANTS
    m1 = m1  m2 = m2  e1 = e1  c1 = c1  f1 = f1  x1 = x1  x2 = x2
    Job = {m1, m2, e1, c1, f1}
    Learning = {m1, m2, e1}
    Replaces <- MCReplaces
    Experience = {x1, x2}
    SourceOf <- MCSourceOf
    Threshold = 2
    BatchLimit = 2
    Decision = {"completed"}
    MaxJobs = 2
    MaxAttempts = 1
    MaxFaults = 0
    MayRevoke = TRUE
INVARIANT ExperienceDeliverable
CHECK_DEADLOCK FALSE
