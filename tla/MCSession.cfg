SPECIFICATION Spec
CONSTANTS
    Co = {c1, c2, c3}
    Peer = {p}
    SessionId = {s1, s2}
    ReqSession = {0, 1}
    None = None
    BREAK = BREAK
    MaxChan = 1
    MaxDepth = 1
    MaxWatch = 2
SYMMETRY Symmetry
INVARIANTS Drained Resumable AnsweredOnce Tracked
CHECK_DEADLOCK FALSE
