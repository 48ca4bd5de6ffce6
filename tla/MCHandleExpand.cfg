SPECIFICATION Spec
CONSTANTS
    Ctx = {c1, c2, c3}
    Null = Null
    Name = {}
    Launcher = {t1, t2}
    SLOT_SIZE = 2
    MASK = 7
    MaxIndex = 8
INVARIANT AssertsHold
