CONSTANTS
    Account = {a1}
    Passwd = {p1, p2}
    Client = {c1, c2}
    App = {b1, b2}
    None = None
    MaxClient = 1
    MaxRestart = 1
SPECIFICATION FairSpec
INVARIANTS
    OneRecord
    FullOnlyIfFull
PROPERTIES
    RequestEnds
    AddressOpens
