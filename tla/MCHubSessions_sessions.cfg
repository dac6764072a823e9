CONSTANTS
    i1 = i1  i2 = i2  i3 = i3
    a = a  b = b  c = c  d = d
    NoSid = NoSid
    NoInst = NoInst
    MaxSessions = 1
    Instances = {i1, i2}
    Sids = {a, b}
    Sources = {"rail"}
    SourceAccess = 1
    TrialKeys = {"speed"}
    Tokens = {1}
    Bindings = {"net"}
    Congestion = {TRUE, FALSE}
    DeadmanWindows = {1}
    IdleReapMs = 2
    ReadyTimeoutMs = 1
    StallEvictMs = 1
    MaxStep = 1
    MaxNow = 3
    MaxEtag = 1
SPECIFICATION Spec
SYMMETRY Symmetry
INVARIANTS
    TypeOK
    LeasesAreServed
    DegradedIsKnown
    DeadmanBoundsOwnership
    ReadyWindowBounded
    ServedIsAttached
PROPERTIES
    ResumesWithoutControl
