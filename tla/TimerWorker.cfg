CONSTANTS
    once = once
    again = again
    None = None
    GroupSize = 1
    Timers = {once, again}
    Periodic = {again}
    Interval = 1
    Slack = 0
    MaxTime = 1
    Never = 3
SPECIFICATION FairSpec
INVARIANTS NoMissedTimer CallbackReleased FiredOnTime CallsKeepUp
PROPERTIES NotTakenAfterRemove AllFire
\* The worker may be stopped.
CHECK_DEADLOCK FALSE
