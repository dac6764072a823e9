SPECIFICATION FairSpec
CONSTANTS
    a = a
    b = b
    Order <- OrderAB
    Priority <- PrioNE
    Seeded <- SetAB
    FirstSeq = 1
    Modulus = 8
    NoSeq = NoSeq
    Ordered = TRUE
    Lossy = FALSE
    Dynamic <- Anywhere
    MaxInFlight = 2
    MaxVersion = 2
    MaxLinks = 2
    MaxChanges = 1
CHECK_DEADLOCK FALSE
PROPERTIES Converges ReachesLive
