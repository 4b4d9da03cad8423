\* ProxyParser, the stream cut anywhere
CONSTANTS
    Kinds <- JustKeep
    HeadLen = 16
    N = 4
    Body <- MixedBody
    Start <- MixedStart
    Cuts <- KeepCut
SPECIFICATION Spec
INVARIANTS
    RetrieveInBounds
\* The stream ends.
CHECK_DEADLOCK FALSE
