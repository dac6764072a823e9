CONSTANTS
    c1 = c1  c2 = c2
    k1 = k1  k2 = k2
    Clients = {c1}
    Keys = {k1}
    Trialable = {k1}
    Limit = 1
    Asked = {2}
    NoGen = NoGen
    Repeats = {TRUE, FALSE}
    Conditional = {TRUE, FALSE}
    RingDepth = 3
    Window = 2
    MaxTrials = 2
    EchoFits = {TRUE}
    MaxId = 3
    MaxGen = 1
    MaxRestarts = 0
SPECIFICATION Spec
SYMMETRY Symmetry
INVARIANTS
    NeverReapplied
    EchoTruthfulInOneRun
PROPERTIES
    CasSeesNoChange
