SPECIFICATION FairSpec
CONSTANTS
    f1 = f1
    f2 = f2
    f3 = f3
    s1 = s1
    GroupSize = 2
    Starters = {s1, s2}
    Fibers = {f1, f2}
    Local = {}
    Foreign = {f3}
    Capacity = 2
    Worlds <- GroupWorlds
    None = None
    ShuttingDown = ShuttingDown
INVARIANTS NoFiberLostInOrder ClaimedIsWoken ChecksHold
PROPERTIES EveryWorkerLeaves
