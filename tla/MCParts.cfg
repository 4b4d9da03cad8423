\* The five loops, each with the cuts it bears, a Hiredis, messages, the client,
\* and the load generators
CONSTANTS
    Kinds <- EveryLoop
    HeadLen = 16
    N = 4
    Body <- MixedBody
    Start <- MixedStart
    Cuts <- Bearable
    set = set
    lrange = lrange
    del = del
    get = get
    subscribe = subscribe
    None = none
SPECIFICATION MCSpec
INVARIANTS
    Drained
    RetrieveInBounds
    Guarded
    Intact
    Measured
PROPERTIES
    HandlesFrames
    InOrder
    SpeaksForItself
    Addressed
    Finishes
\* The stream, the connection and the way of a message end.
CHECK_DEADLOCK FALSE
