SPECIFICATION Spec
CONSTANTS
    boot = boot
    w1 = w1
    w2 = w2
    Handle = {boot, s}
    NoHandle = NoHandle
    Worker = {w1, w2}
    Ext = {}
    Boot = {boot}
    BootQ <- MCBootQ
    Weight <- MCWeight
    MaxMsg = 2
INVARIANTS OneOwner NoLostQueue NoLostMessage RefExact NoDanglingPointer
PROPERTY MailboxSpec
