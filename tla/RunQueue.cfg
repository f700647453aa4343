SPECIFICATION Spec
CONSTANTS
    e1 = e1
    e2 = e2
    e3 = e3
    Pushers = {p1, p2}
    Poppers = {p1, p2}
    Entities = {e1, e2, e3}
    Local = {e1}
    Capacity = 4
    Batches <- PairBatch
    MaxSeq = 5
    None = None
SYMMETRY ThreadSymmetry
INVARIANTS ClaimedIsClean SlotExclusive StealOnlyStealable
PROPERTIES LinearizedAtSeqLoad ImplementsQueue
