\* A private message between two servers, with a receiver who may move.
CONSTANTS
    s1 = s1
    s2 = s2
    c1 = c1
    c2 = c2
    u1 = u1
    u2 = u2
    Nobody = nobody
    Absent = absent
    Null = null
    Server = {s1, s2}
    Conn = {c1, c2}
    Uid = {nobody, u1, u2}
    ServerOf <- EachItsOwn
    Peer <- EachOther
    Message <- OnePrivate
    Reach <- Roaming
    Block <- NoBlock
    Ends = {}
    Stay = {u1}
    Batch = 3
    MaxLogin = 3
    Overlap = FALSE
SPECIFICATION FairSpec
INVARIANTS
    AtMostOnce
PROPERTIES
    Settles
\* A process that has died, or a bound that is reached, ends a behaviour.
CHECK_DEADLOCK FALSE
