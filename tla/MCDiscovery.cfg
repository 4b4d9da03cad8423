\* Two chat servers, each of its own area, that end and are launched again.
CONSTANTS
    None = None
    s1 = s1
    s2 = s2
    Proxy = Proxy
    Server = {s1, s2}
    AreaOf <- EachItsOwn
    MaxLaunch = 3
SPECIFICATION Spec
INVARIANTS TypeOK NeverDialsSelf
PROPERTIES Acquainted Served
\* Every server is up, or none may be launched any more.
CHECK_DEADLOCK FALSE
