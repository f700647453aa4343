\* Objects that no program uses together share a model value.
CONSTANTS
    a = a
    b = b
    c = c
    latch = o1
    sem = o2
    sem2 = o3
    barrier = o4
    join = o1
    queue = o2
    event = o2
    rw = o2
    writer_lock = o3
    fast = o3
    None = None
    Fibers = {a, b, c}
    Objects = {o1, o2, o3, o4}
    Programs <- TortureProgram
    Initial <- InitialValues
    WriterLock <- WriterLocks
    kMaxReaders = 4
SPECIFICATION FairSpec
INVARIANTS TouchesLive
CHECK_DEADLOCK FALSE
