SPECIFICATION Spec
CONSTANTS
    c1 = c1
    c2 = c2
    r1 = r1
    r2 = r2
    single = single
    Gates = {g1, g2}
    Calls = {c1, c2}
    Connections = {k1, k2}
    Requests = {r1, r2}
    SingleId = single
    Purger = Purger
    Stopper = Stopper
    Cleaner = Cleaner
    Main = Main
    None = None
    NoOne = None
    Shards <- CallShards
    Forwarded <- Forwarding
    Worlds <- JoinWorlds
    max_conns_ = 1
    max_concurrent_requests = 1
    max_concurrent_connections = 1
INVARIANT JoinersWoken
CHECK_DEADLOCK FALSE
