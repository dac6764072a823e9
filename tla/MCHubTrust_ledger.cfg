CONSTANTS
    i1 = i1  i2 = i2  s1 = s1  s2 = s2
    a = a  b = b
    NoSid = NoSid
    NoInst = NoInst
    NoVer = NoVer
    Slots = {s1, s2}
    Instances = {i1, i2}
    Sids = {a, b}
    Versions = {"1", "2"}
    MaxPaired = 1
    MaxPending = 1
    PairingWindow = 1
    PinStrikes = 2
    AuthStrikes = 1
    PresenceRole = 1
    AutoKeepMax = 0
    KnockEnabled = TRUE
    DelegateRoles = {0}
    Bindings = {"net", "cable"}
    Asks = {0, 2}
    Reported = {"1", "2"}
SPECIFICATION Spec
SYMMETRY Symmetry
INVARIANTS
    KnocksAreBound
    ReapprovalIsKnown
    SuspendedOnlyLooks
    WorklistIsCurrent
    CleanIsSaved
PROPERTIES
    MembershipIsAnnounced
