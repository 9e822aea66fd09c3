SPECIFICATION Spec
CONSTANTS
    w1 = w1  w2 = w2
    read = read  write = write  rewrite = rewrite
    gw = gw  gr = gr
    kr = kr  kw = kw
    NoCall = NoCall
    NoGrant = NoGrant
    Calls <- MCCalls
    Grants = {gw, gr}
    Keys = {kr, kw}
    KeyOf <- MCKeyOf
    NeedsGrant <- MCNeedsGrant
    GrantFor <- MCGrantFor
    WorstCost <- MCWorstCost
    MaxToolCalls = 2
    MaxCostUnits = 2
    Workers = {w1, w2}
    MaxEvents = 7
    ReceiptCosts = {0, 1, 2}
INVARIANTS
    EffectAtMostOnce
    EffectApproved
    EffectAccounted
    WithinBudget
CHECK_DEADLOCK FALSE
