CONSTANTS
    c1 = c1  c2 = c2
    k1 = k1  k2 = k2
    Clients = {c1, c2}
    Keys = {k1, k2}
    Trialable = {k1, k2}
    Limit = 1
    Asked = {0, 2}
    NoGen = NoGen
    Repeats = {FALSE}
    Conditional = {FALSE}
    RingDepth = 1
    Window = 1
    MaxTrials = 1
    EchoFits = {FALSE}
    MaxId = 2
    MaxGen = 2
    MaxRestarts = 1
SPECIFICATION Spec
SYMMETRY Symmetry
INVARIANTS
    BaselinesAreStored
PROPERTIES
    TrialIsExclusive
    GenFollowsSettings
