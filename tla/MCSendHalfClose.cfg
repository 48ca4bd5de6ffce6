SPECIFICATION FairSpec
CONSTANTS
    Sender = {a, b}
    Owner = a
    None = None
    Size = 2
    Space = 1
    MaxSending = 1
    MaxSend <- TwoAndOne
    a = a
    b = b
    MaxId = 2
PROPERTY HalfCloseEnds
CHECK_DEADLOCK FALSE
