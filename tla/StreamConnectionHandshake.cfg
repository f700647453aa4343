SPECIFICATION Spec
CONSTANTS
    b1 = b1
    b2 = b2
    Users = {u1, u2}
    Opener = u1
    Ids = {1, 2}
    Loop = Loop
    Reasons = {"Disconnect", "Error", "HandshakeFailed", "UserInitiated"}
    None = None
    Callers <- MCCallers
    Nodes = {n1, n2}
    Buffers = {b1, b2}
    Size <- MCSize
    Limits <- MCLimits
    IovMax = 2
    Null = Null
    MaxPerCall = 2
    Infinity = 9
    Scenarios <- EagerScenarios
INVARIANT OneFlusher
CHECK_DEADLOCK FALSE
