SPECIFICATION FairSpec
CONSTANTS
    publish = publish  image = image  lookup = lookup  NoKey = NoKey
    Requests = {publish, image, lookup}
    NeedsApproval = {publish, image}
    Observes = {lookup}
    Deferring = {image}
    MaxToolCalls = 2
    MaxDecisions = 2
    MaxInputs = 2
    MaxFaults = 2
INVARIANTS
    EffectAuthorized
    UnsettledEffectOwned
    EffectStaysReserved
PROPERTIES
    ImplementsEffects
    OperationsRecorded
CHECK_DEADLOCK FALSE
