CONSTANTS
    c1 = c1  c2 = c2
    Clients = {c1}
    Controllers = {c1}
    CutsPower = TRUE
    Engages = {FALSE}
    None = None
    MaxAttempts = 2
    MaxSeq = 2
    MaxPublish = 5
SPECIFICATION Spec
INVARIANTS
    ShownIsInForce
    OverrideCarriesPause
    StopHolds
PROPERTIES
    SoleInitiatorIsTold
