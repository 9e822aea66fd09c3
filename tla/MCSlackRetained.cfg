SPECIFICATION Spec
CONSTANTS
    u1 = u1
    Messages = 2
    User = {u1}
    Author <- ThreadAuthor
    Texts <- ReplaceTexts
    Reviewers = {u1}
    MaxRev = 4
    MaxInbox = 2
    MaxFaults = 0
INVARIANT ResultTold
CHECK_DEADLOCK FALSE
