SPECIFICATION Spec
CONSTANTS
    a = a
    b = b
    Order <- OrderAB
    Priority <- PrioNE
    Seeded <- SetAB
    FirstSeq = 6
    Modulus = 8
    NoSeq = NoSeq
    Ordered = FALSE
    Lossy = TRUE
    Dynamic <- None
    MaxInFlight = 2
    MaxVersion = 3
    MaxLinks = 2
    MaxChanges = 1
CHECK_DEADLOCK FALSE
INVARIANTS LiveHasAdopted
PROPERTIES ImplementsLatestValue
