CONSTANTS
    i1 = i1  i2 = i2  i3 = i3
    a = a  b = b  c = c  d = d
    NoSid = NoSid
    NoInst = NoInst
    MaxSessions = 2
    Instances = {i1, i2, i3}
    Sids = {a, b, c}
    Sources = {}
    SourceAccess = 1
    TrialKeys = {}
    Tokens = {0, 1}
    Bindings = {"net"}
    Congestion = {FALSE}
    DeadmanWindows = {1}
    IdleReapMs = 1
    ReadyTimeoutMs = 1
    StallEvictMs = 1
    MaxStep = 1
    MaxNow = 2
    MaxEtag = 0
SPECIFICATION Spec
SYMMETRY Symmetry
INVARIANTS
    OneSessionPerIdentity
PROPERTIES
    PressureSparesLive
