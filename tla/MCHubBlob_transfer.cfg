CONSTANTS
    s1 = s1
    Slots = {s1}
    Revisions = {1, 2, 3}
    Size <- SizeOf
    Payload = 2
    ChunksPerTick = 1
    InFlightMax = 1
    HoldTicks = 1
    MaxBytes = 4
    RepairMax = 1
    LinkRoom = 2
    MaxRequests = 2
SPECIFICATION Spec
INVARIANTS
    ItemIsWhole
PROPERTIES
    OneRevisionPerTransfer
    TransfersEnd
