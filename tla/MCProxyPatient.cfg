SPECIFICATION FairSpec
CONSTANTS
    None = None
    c1 = c1
    c2 = c2
    c3 = c3
    Client = {c1, c2}
    Uid <- MCUid
    Area = {1, 2}
    Home <- OneHome
    StampMax = 4
    ClientStamp <- FourStamps
    MaxLogin = 3
    MaxTalk = 3
    ClientLogout = FALSE
    Overlap = FALSE
    Mixed = FALSE
    Impatient = FALSE
INVARIANTS AnswersToAsker ServersSurvive
PROPERTY Answered
CHECK_DEADLOCK FALSE
