SPECIFICATION Spec
CONSTANTS
    Message = {m1, m2}
    None = None
    InitCap = 2
    MQ_OVERLOAD = 1
    MaxCap = 8
PROPERTIES FifoSpec WarningsDouble
