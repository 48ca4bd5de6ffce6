SPECIFICATION FairSpec
CONSTANTS
    boot = boot
    w1 = w1
    w2 = w2
    Handle = {boot, s}
    NoHandle = NoHandle
    Worker = {w1}
    Ext = {socket}
    Boot = {boot}
    BootQ <- MCBootQ
    Weight <- MCWeight
    MaxMsg = 1
PROPERTIES Served Freed
