\* A server broadcast, forwarded to the other server.
CONSTANTS
    s1 = s1
    s2 = s2
    c1 = c1
    c2 = c2
    u1 = u1
    u2 = u2
    Nobody = nobody
    Absent = absent
    Null = null
    Server = {s1, s2}
    Conn = {c1, c2}
    Uid = {nobody, u1, u2}
    ServerOf <- EachItsOwn
    Peer <- EachOther
    Message <- OneServerCast
    Reach <- AtHome
    Block <- NoBlock
    Ends = {c1, c2}
    Stay = {}
    Batch = 3
    MaxLogin = 2
    Overlap = FALSE
SPECIFICATION Spec
INVARIANTS
    AtMostOnce
PROPERTIES
    BroadcastReaches
\* A process that has died, or a bound that is reached, ends a behaviour.
CHECK_DEADLOCK FALSE
