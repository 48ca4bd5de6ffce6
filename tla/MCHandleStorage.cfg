SPECIFICATION Spec
CONSTANTS
    Ctx = {c1, c2, c3}
    Null = Null
    Name = {1, 2}
    Launcher = {t1}
    SLOT_SIZE = 2
    MASK = 3
    MaxIndex = 4
SYMMETRY Symmetry
INVARIANTS Findable AssertsHold RetireAllComplete
PROPERTY NamesFollowServices
