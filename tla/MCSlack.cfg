SPECIFICATION FairSpec
CONSTANTS
    u1 = u1
    Messages = 2
    User = {u1}
    Author <- ThreadAuthor
    Texts <- ThreadTexts
    Reviewers = {u1}
    MaxRev = 2
    MaxInbox = 2
    MaxFaults = 1
INVARIANTS
    AssentWasShown
    SentOnce
PROPERTIES
    MessagesSettle
CHECK_DEADLOCK FALSE
