\* A queue as long as a batch.
CONSTANTS
    s1 = s1
    s2 = s2
    c1 = c1
    c2 = c2
    u1 = u1
    u2 = u2
    Nobody = nobody
    Absent = absent
    Null = null
    Server = {s1}
    Conn = {c1}
    Uid = {nobody, u1, u2}
    ServerOf <- OneServer
    Peer <- NoPeer
    Message <- TwoPrivate
    Reach <- ThroughC1
    Block <- NoBlock
    Ends = {c1}
    Stay = {}
    Batch = 1
    MaxLogin = 2
    Overlap = FALSE
SPECIFICATION Spec
INVARIANTS
    QueueTracked
\* A process that has died, or a bound that is reached, ends a behaviour.
CHECK_DEADLOCK FALSE
