SPECIFICATION Spec
CONSTANTS
    None = None
    c1 = c1
    c2 = c2
    c3 = c3
    Client = {c1, c2}
    Uid <- MCUid
    Area = {1, 2}
    Home <- TwoHomes
    StampMax = 2
    ClientStamp <- TwoStamps
    MaxLogin = 3
    MaxTalk = 1
    ClientLogout = TRUE
    Overlap = TRUE
    Mixed = TRUE
    Impatient = TRUE
SYMMETRY Clients
INVARIANTS TypeOK RightClient Registered LivePlayer
CHECK_DEADLOCK FALSE
