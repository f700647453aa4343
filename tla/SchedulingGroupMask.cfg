SPECIFICATION Spec
CONSTANTS
    f1 = f1
    f2 = f2
    f3 = f3
    s1 = s1
    GroupSize = 3
    Starters = {s1}
    Fibers = {f1, f2}
    Local = {}
    Foreign = {f3}
    Capacity = 4
    Worlds <- MaskWorlds
    None = None
    ShuttingDown = ShuttingDown
PROPERTIES BatchWakesLowest
