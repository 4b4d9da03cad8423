\* Two connections to one server, accounts that log in twice, failed logins,
\* and answers to logins whose ProxyConnection is gone.
CONSTANTS
    s1 = s1
    s2 = s2
    c1 = c1
    c2 = c2
    u1 = u1
    u2 = u2
    Nobody = nobody
    Absent = absent
    Null = null
    Server = {s1}
    Conn = {c1, c2}
    Uid = {nobody, u1, u2}
    ServerOf <- OneServer
    Peer <- NoPeer
    Message <- OnePrivate
    Reach <- SomeoneFails
    Block <- NoBlock
    Ends = {c1, c2}
    Stay = {}
    Batch = 3
    MaxLogin = 2
    Overlap = TRUE
SPECIFICATION Spec
INVARIANTS
    TypeOK
    OnlineIsLocal
\* A process that has died, or a bound that is reached, ends a behaviour.
CHECK_DEADLOCK FALSE
