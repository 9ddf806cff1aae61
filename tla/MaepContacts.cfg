CONSTANTS
    p1 = p1
    p2 = p2
    u1 = u1
    u2 = u2
    q1 = q1
    q2 = q2
    Peers = {p1, p2}
    UUIDs = {u1, u2}
    NoContact = NoContact
    Procs = {q1, q2}
    Stops = TRUE
    Revokes = TRUE
SPECIFICATION ContactsSpec
SYMMETRY Symmetry
INVARIANTS VerifiedWasVerified OnePeerPerUUID
PROPERTIES BlockedStays
