SPECIFICATION FairSpec
CONSTANTS
    a1 = a1
    Fd = {f1, f2}
    Packet <- AllPackets
    Account <- AllAccounts
    NoAccount = NoAccount
    maxclient = 1
    MaxEvents = 2
INVARIANTS GateCount ClientsNotOver AuthedIsOpen
PROPERTY ClosedForgotten
CHECK_DEADLOCK FALSE
