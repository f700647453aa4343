SPECIFICATION Spec
CONSTANTS
    a = a
    b = b
    pw = pw
    Cores = {a, b, c, pw}
    Readers = {a, b}
    Writers = {c}
    Reclaimers = {pw}
    PoolWorkers = {b, pw}
    Workers = {a}
    Deleters = {c}
    Owners = {a}
    Main = c
    Callbacks = {c1, c2}
    Objects = {o1, o2, o3}
    Entries = {e1, e2}
    Nodes = {n1, n2, n3, n4}
    kEntryCacheSize = 1
    StoreBufferSize = 2
    Capacity = 1
    Nothing = Nothing
    Nil = Nil
    Timers <- MCTimers
    SlowTimers <- MCSlowTimers
    Worlds <- MCWorlds
INVARIANTS
    HazardPointersSafe
    CallbacksSafe
    BackgroundSafe
PROPERTIES
    Settles
CHECK_DEADLOCK FALSE
