\* A private message on one server: sender, receiver and one more login,
\* black lists, logouts and a proxy that goes away.
CONSTANTS
    s1 = s1
    s2 = s2
    c1 = c1
    c2 = c2
    u1 = u1
    u2 = u2
    Nobody = nobody
    Absent = absent
    Null = null
    Server = {s1}
    Conn = {c1}
    Uid = {nobody, u1, u2}
    ServerOf <- OneServer
    Peer <- NoPeer
    Message <- OnePrivate
    Reach <- ThroughC1
    Block <- U2BlocksU1
    Ends = {c1}
    Stay = {}
    Batch = 3
    MaxLogin = 3
    Overlap = FALSE
SPECIFICATION Spec
INVARIANTS
    PrivateStaysPrivate
    AtMostOnce
    QueueTracked
    OnlineIsLocal
    NeverForwardedToSelf
PROPERTIES
    SlotSticky
    BlackListRespected
    NoSilentLoss
\* A process that has died, or a bound that is reached, ends a behaviour.
CHECK_DEADLOCK FALSE
