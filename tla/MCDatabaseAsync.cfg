SPECIFICATION Spec
CONSTANTS
    None = None
    p1 = p1
    p2 = p2
    b = b
    ann = ann
    bob = bob
    Conn = {p1, p2, b}
    Tester = {b}
    Name = {ann, bob}
    MaxAsk = 3
INVARIANTS TypeOK LaterHeader Owners ReadsOwnWrites
PROPERTY Answered
CHECK_DEADLOCK FALSE
