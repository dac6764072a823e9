CONSTANTS
    s1 = s1  s2 = s2  c1 = c1  c2 = c2
    n1 = n1  n2 = n2  n3 = n3  a = a  b = b
    None = None
    Slots = {s1, s2}
    Clients = {c1, c2}
    Nonces = {n1, n2, n3}
    Sids = {a, b}
    Askers = {c1, c2}
    Pinned = {c1}
    Writes = {TRUE, FALSE}
SPECIFICATION Spec
SYMMETRY Symmetry
CHECK_DEADLOCK FALSE
INVARIANTS
    SignatureReachesItsClient
    SignedOnce
