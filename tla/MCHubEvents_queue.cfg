CONSTANTS
    p = p  u = u
    Sessions = {p}
    Log = Log
    SessionEvents = SessionEvents
    PairingEvents = PairingEvents
    SafetyEvents = SafetyEvents
    UserEvents = {u}
    Catalog = {Log, SessionEvents, PairingEvents, SafetyEvents, u}
    QueueDepth = 2
    RingDepth = 3
    ReplayDepth = 3
    MaxEvents = 3
    MaxDropped = 2
SPECIFICATION EventSpec
INVARIANTS
    EventsInOrder
    NeverSilent
