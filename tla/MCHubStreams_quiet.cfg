CONSTANTS
    p = p  q = q
    Sessions = {p, q}
    None = None
    Unpublished = Unpublished
    Ring = 12
    Leads <- LeadSet
    Offsets <- Arrays
    MaxSamples = 2
    SpanCap = 2
    Horizon = 2
    MaxFuture = 1
    QuietMs = 1
    MaxRate = 1
    BurstFactor = 2
    Rates = {0, 1}
    Bursts = {2}
    NackMs = 1
    Gaps = {1, 3}
SPECIFICATION Spec
SYMMETRY Symmetry
INVARIANTS
    StampsAreHeld
    RetainedOwnerIsCurrent
    QuietIsReleased
PROPERTIES
    NoReleaseMidPlayout
