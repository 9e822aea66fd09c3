SPECIFICATION Spec
CONSTANTS
    s1 = s1
    s2 = s2
    c1 = c1
    e1 = e1
    e2 = e2
    p = p
    d = d
    t = t
    Source = {s1, s2}
    Claim = {c1}
    Entry = {e1, e2}
    Page = {p}
    Doc = {d}
    Transfer = {t}
    Support <- MCSupport
    OwnerOf <- MCOwnerOf
    Shares <- MCShares
    Withdrawn = {s1}
    MaxPending = 2
    MaxRestores = 1
    MaxCrashes = 1
INVARIANTS
    BlockedIsClosed
    LedgerFirst
    PurgedIsGone
    RestoredByLedger
    SurvivorsKept
CHECK_DEADLOCK FALSE
