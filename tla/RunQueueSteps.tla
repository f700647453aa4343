--------------------------- MODULE RunQueueSteps ----------------------------
(***************************************************************************)
(* Proofs about RunQueue, for every capacity of at least two, every set of *)
(* threads and every batch size, part one: the arithmetic of positions; the*)
(* steps that claim no position and change no node, and the                *)
(* compare-and-swaps that claim positions, keep the ring invariant.        *)
(***************************************************************************)
EXTENDS RunQueue, TLAPS

-----------------------------------------------------------------------------
\* Arithmetic of `& mask_`

\* A position is determined by its lap and its slot.
LEMMA LapAndSlot ==
    ASSUME NEW p \in Nat
    PROVE  /\ p = Capacity * (p \div Capacity) + Slot(p)
           /\ p \div Capacity \in Nat
           /\ Slot(p) \in 0..(Capacity - 1)
  BY CapacityAssumption DEF Slot

\* A later lap starts at least a whole Capacity further.
LEMMA LapStep ==
    ASSUME NEW x \in Int, NEW y \in Int, x < y
    PROVE  Capacity * x + Capacity <= Capacity * y
  BY CapacityAssumption

\* Two positions less than Capacity apart never share a slot.
LEMMA SlotInjective ==
    ASSUME NEW p \in Nat, NEW q \in Nat, Slot(p) = Slot(q),
           p < q + Capacity, q < p + Capacity
    PROVE  p = q
<1> DEFINE a == p \div Capacity
           b == q \div Capacity
<1>1. /\ p = Capacity * a + Slot(p) /\ a \in Nat
      /\ q = Capacity * b + Slot(q) /\ b \in Nat
      /\ Slot(p) \in 0..(Capacity - 1)
  BY LapAndSlot, Zenon
<1>2. CASE a < b
  <2>1. Capacity * a + Capacity <= Capacity * b
    BY <1>1, <1>2, LapStep
  <2>2. Capacity * a \in Int /\ Capacity * b \in Int
    BY <1>1, CapacityAssumption
  <2> QED
    BY <1>1, <2>1, <2>2, CapacityAssumption
<1>3. CASE b < a
  <2>1. Capacity * b + Capacity <= Capacity * a
    BY <1>1, <1>3, LapStep
  <2>2. Capacity * a \in Int /\ Capacity * b \in Int
    BY <1>1, CapacityAssumption
  <2> QED
    BY <1>1, <2>1, <2>2, CapacityAssumption
<1>4. CASE a = b
  BY <1>1, <1>4, Zenon
<1> QED
  BY <1>1, <1>2, <1>3, <1>4

\* The position one lap later has the same slot.
LEMMA SlotWraps ==
    ASSUME NEW p \in Nat
    PROVE  Slot(p + Capacity) = Slot(p)
<1> DEFINE q == p + Capacity
           a == p \div Capacity
           b == q \div Capacity
<1>0. q \in Nat
  BY CapacityAssumption
<1>1. /\ p = Capacity * a + Slot(p) /\ a \in Nat
      /\ q = Capacity * b + Slot(q) /\ b \in Nat
      /\ Slot(p) \in 0..(Capacity - 1)
      /\ Slot(q) \in 0..(Capacity - 1)
  BY <1>0, LapAndSlot, Zenon
<1>2. /\ Capacity * a \in Int /\ Capacity * b \in Int /\ Capacity * (a + 1) \in Int
      /\ Capacity * (a + 1) = Capacity * a + Capacity
  BY <1>1, CapacityAssumption
<1>3. CASE a + 1 < b
  <2>1. Capacity * (a + 1) + Capacity <= Capacity * b
    BY <1>1, <1>3, LapStep
  <2> QED
    BY <1>1, <1>2, <2>1, CapacityAssumption
<1>4. CASE b < a + 1
  <2>1. Capacity * b + Capacity <= Capacity * (a + 1)
    BY <1>1, <1>4, LapStep
  <2> QED
    BY <1>1, <1>2, <2>1, CapacityAssumption
<1>5. CASE b = a + 1
  BY <1>1, <1>2, <1>5, CapacityAssumption
<1> QED
  BY <1>1, <1>3, <1>4, <1>5

-----------------------------------------------------------------------------
\* Steps that leave the counters, the nodes and the ownership alone

\* Every thread but t keeps its locals.
Frame(t) ==
    \A u \in Threads \ {t} :
        /\ pc'[u] = pc[u] /\ pos'[u] = pos[u]
        /\ idx'[u] = idx[u] /\ batch'[u] = batch[u]

\* A step of t that neither claims nor gives up a position.
KeepsOwnership(t) ==
    /\ ~Filling(t) /\ ~Popping(t)
    /\ pc'[t] \notin {"fill", "publish", "read", "reset"}

\* The counters, without the rest of the invariant.
LEMMA Counters ==
    ASSUME RingInv
    PROVE  /\ head_seq \in Nat /\ tail_seq \in Nat /\ Capacity \in Nat /\ 1 <= Capacity
           /\ tail_seq <= head_seq /\ head_seq <= tail_seq + Capacity
  BY CapacityAssumption DEF RingInv, TypeOK, Window

\* The first element of a range of positions.
LEMMA FirstOfRange ==
    ASSUME NEW a \in Nat, NEW i \in Nat, NEW n \in Nat, i < n
    PROVE  a + i \in Nat /\ a + i < a + n /\ a + i \in (a + i)..(a + n - 1)
  OBVIOUS

\* A range of positions that ends below h.
LEMMA RangeBelow ==
    ASSUME NEW a \in Nat, NEW i \in Nat, NEW n \in Nat, NEW h \in Nat,
           NEW p \in (a + i)..(a + n - 1), a + n <= h
    PROVE  p \in Nat /\ p < h
  OBVIOUS

\* A range that ends below h does so when h has grown.
LEMMA StillBelow ==
    ASSUME NEW a \in Nat, NEW n \in Nat, NEW h \in Nat, NEW k \in Nat, a + n <= h, h < k
    PROVE  a + n <= k
  OBVIOUS

\* A position of a range that ends below h.
LEMMA BetweenCounters ==
    ASSUME NEW a \in Nat, NEW n \in Nat, NEW h \in Nat, NEW tail \in Nat, NEW q \in Nat,
           tail <= q, q < a + n, a + n <= h
    PROVE  q < h /\ q \in tail..(h - 1)
  OBVIOUS

\* A step by which a thread only learns something keeps the ring invariant.
LEMMA QuietStep ==
    ASSUME RingInv, TypeOK', NEW t \in Threads, Frame(t), KeepsOwnership(t),
           UNCHANGED <<head_seq, tail_seq, nodes>>,
           Knows(t)', (pc[t] = "idle" => idx[t] = 0)'
    PROVE  RingInv'
<1> USE ZenonT(40)
<1>1. ASSUME NEW u \in Threads
      PROVE  /\ Filling(u)' <=> Filling(u)
             /\ Popping(u)' <=> Popping(u)
             /\ Owned(u)' = Owned(u)
             /\ Filling(u) \/ Popping(u) =>
                  pos'[u] = pos[u] /\ idx'[u] = idx[u] /\ batch'[u] = batch[u]
  <2>1. CASE u = t
    BY <2>1 DEF KeepsOwnership, Filling, Popping, Owned
  <2>2. CASE u # t
    BY <2>2 DEF Frame, Filling, Popping, Owned
  <2> QED
    BY <2>1, <2>2
<1>2. \A p : SeqOf(p)' = SeqOf(p)
  BY DEF SeqOf
<1>3. Window'
  BY <1>1, <1>2, SMT DEF RingInv, Window
<1>4. Ownership'
  BY <1>1 DEF RingInv, Ownership
<1>5. SeqBounds'
  BY <1>2 DEF RingInv, SeqBounds
<1>6. FlagMatches'
  BY DEF RingInv, FlagMatches
<1>7. ASSUME NEW u \in Threads
      PROVE  Knows(u)' /\ (pc[u] = "idle" => idx[u] = 0)'
  <2>1. CASE u = t
    BY <2>1
  <2>2. CASE u # t
    BY <1>2, <2>2, SMT DEF RingInv, Frame, Knows
  <2> QED
    BY <2>1, <2>2
<1> QED
  BY <1>3, <1>4, <1>5, <1>6, <1>7 DEF RingInv

\* Entering a call, and the loads of the counters.
LEMMA EnterStep ==
    ASSUME RingInv, NEW t \in Threads,
           \/ \E e \in Entities : Push(t, e)
           \/ \E b \in Batches : BatchPush(t, b)
           \/ Pop(t) \/ Steal(t)
    PROVE  RingInv'
<1> USE ZenonT(40)
<1>1. TypeOK /\ pc[t] = "idle" /\ idx[t] = 0
  BY DEF RingInv, Push, BatchPush, Pop, Steal
<1>2. ASSUME NEW e \in Entities, Push(t, e)
      PROVE  RingInv'
  <2>1. TypeOK' /\ Frame(t) /\ KeepsOwnership(t)
    BY <1>1, <1>2, SMT DEF TypeOK, Push, Goto, Frame, KeepsOwnership, Filling, Popping
  <2>2. Knows(t)' /\ (pc[t] = "idle" => idx[t] = 0)'
    BY <1>1, <1>2 DEF TypeOK, Push, Goto, Knows
  <2> QED
    BY <1>2, <2>1, <2>2, QuietStep DEF Push
<1>3. ASSUME NEW b \in Batches, BatchPush(t, b)
      PROVE  RingInv'
  <2>0. b \in Seq(Entities) /\ Len(b) > 0
    BY EntitiesAssumption, SMT
  <2>1. TypeOK' /\ Frame(t) /\ KeepsOwnership(t)
    BY <1>1, <1>3, <2>0 DEF TypeOK, BatchPush, Goto, Frame, KeepsOwnership, Filling, Popping
  <2>2. Knows(t)' /\ (pc[t] = "idle" => idx[t] = 0)'
    BY <1>1, <1>3, <2>0 DEF TypeOK, BatchPush, Goto, Knows
  <2> QED
    BY <1>3, <2>1, <2>2, QuietStep DEF BatchPush
<1>4. ASSUME Pop(t) \/ Steal(t)
      PROVE  RingInv'
  <2>1. TypeOK' /\ Frame(t) /\ KeepsOwnership(t)
    BY <1>1, <1>4 DEF TypeOK, Pop, Steal, Goto, Frame, KeepsOwnership, Filling, Popping
  <2>2. Knows(t)' /\ (pc[t] = "idle" => idx[t] = 0)'
    BY <1>1, <1>4, SMT DEF TypeOK, Pop, Steal, Goto, Knows
  <2> QED
    BY <1>4, <2>1, <2>2, QuietStep DEF Pop, Steal
<1> QED
  BY <1>2, <1>3, <1>4

\* The load of head_seq_ or tail_seq_ that an operation starts with keeps the ring invariant.
LEMMA LoadCounterStep ==
    ASSUME RingInv, NEW t \in Threads, LoadHead(t) \/ LoadTail(t)
    PROVE  RingInv'
<1> USE ZenonT(40)
<1>1. TypeOK /\ Knows(t)
  BY DEF RingInv
<1>2. TypeOK' /\ Frame(t) /\ KeepsOwnership(t)
  <2>1. \/ pc' = [pc EXCEPT ![t] = "push_seq"] \/ pc' = [pc EXCEPT ![t] = "batch_last"]
        \/ pc' = [pc EXCEPT ![t] = "pop_seq"] \/ pc' = [pc EXCEPT ![t] = "steal_seq"]
    BY DEF LoadHead, LoadTail, Goto
  <2>2. TypeOK'
    <3>1. CASE LoadHead(t)
      BY <1>1, <2>1, <3>1 DEF TypeOK, LoadHead
    <3>2. CASE LoadTail(t)
      BY <1>1, <2>1, <3>2 DEF TypeOK, LoadTail
    <3> QED
      BY <3>1, <3>2
  <2>3. Frame(t) /\ KeepsOwnership(t)
    BY <1>1, <2>1, SMT DEF TypeOK, LoadHead, LoadTail, Frame, KeepsOwnership, Filling, Popping
  <2> QED
    BY <2>2, <2>3
<1>3. Knows(t)' /\ (pc[t] = "idle" => idx[t] = 0)'
  BY <1>1, SMT DEF TypeOK, LoadHead, LoadTail, Goto, Knows
<1> QED
  BY <1>2, <1>3, QuietStep DEF LoadHead, LoadTail

\* A call returns, or goes round its loop, without having claimed anything.
LEMMA ReturnStep ==
    ASSUME RingInv, NEW t \in Threads, ~Filling(t), ~Popping(t), Return(t),
           UNCHANGED <<head_seq, tail_seq, nodes>>,
           free' \in SUBSET (Entities \cup {None})
    PROVE  RingInv'
<1> USE ZenonT(40)
<1>1. TypeOK
  BY DEF RingInv
<1>2. TypeOK' /\ Frame(t) /\ KeepsOwnership(t)
  <2>0. <<>> \in Seq(Entities)
    BY SMT
  <2>1. TypeOK'
    BY <1>1, <2>0 DEF TypeOK, Return, Goto
  <2>2. Frame(t) /\ KeepsOwnership(t)
    BY <1>1 DEF TypeOK, Return, Goto, Frame, KeepsOwnership, Filling, Popping
  <2> QED
    BY <2>1, <2>2
<1>3. Knows(t)' /\ (pc[t] = "idle" => idx[t] = 0)'
  BY <1>1 DEF TypeOK, Return, Goto, Knows
<1> QED
  BY <1>2, <1>3, QuietStep

\* Returning without a result does.
LEMMA ReturnFalseStep ==
    ASSUME RingInv, NEW t \in Threads, ~Filling(t), ~Popping(t), ReturnFalse(t),
           UNCHANGED <<head_seq, tail_seq, nodes>>
    PROVE  RingInv'
<1>1. free' \in SUBSET (Entities \cup {None})
  BY DEF RingInv, TypeOK, ReturnFalse, Elements
<1> QED
  BY <1>1, ReturnStep, Zenon DEF ReturnFalse

\* Starting over after a lost race does.
LEMMA RetryStep ==
    ASSUME RingInv, NEW t \in Threads,
           UNCHANGED <<head_seq, tail_seq, nodes>>,
           \/ RetryPush(t) /\ pc[t] \in {"push_seq", "push_cas"}
           \/ RetryBatch(t) /\ pc[t] \in {"batch_last", "batch_cas"}
           \/ /\ RetryPop(t) /\ UNCHANGED free
              /\ pc[t] \in {"pop_seq", "pop_cas", "steal_seq", "steal_cas"}
    PROVE  RingInv'
<1> USE ZenonT(40)
<1>1. TypeOK /\ Knows(t)
  BY DEF RingInv
<1>2. TypeOK' /\ Frame(t) /\ KeepsOwnership(t)
  <2>1. TypeOK'
    <3>1. CASE RetryPush(t)
      BY <1>1, <3>1 DEF TypeOK, RetryPush, Goto
    <3>2. CASE RetryBatch(t)
      BY <1>1, <3>2 DEF TypeOK, RetryBatch, Goto
    <3>3. CASE RetryPop(t) /\ UNCHANGED free
      <4>1. pc' = [pc EXCEPT ![t] = "pop_tail"] \/ pc' = [pc EXCEPT ![t] = "steal_tail"]
        BY <3>3 DEF RetryPop, Goto
      <4> QED
        BY <1>1, <3>3, <4>1 DEF TypeOK, RetryPop
    <3> QED
      BY <3>1, <3>2, <3>3
  <2>2. Frame(t)
    BY <1>1, SMT DEF TypeOK, RetryPush, RetryBatch, RetryPop, Goto, Frame
  <2>3. KeepsOwnership(t)
    BY <1>1, SMT DEF TypeOK, RetryPush, RetryBatch, RetryPop, Goto, KeepsOwnership, Filling, Popping
  <2> QED
    BY <2>1, <2>2, <2>3
<1>3. Knows(t)' /\ (pc[t] = "idle" => idx[t] = 0)'
  BY <1>1, SMT DEF TypeOK, RetryPush, RetryBatch, RetryPop, Goto, Knows
<1> QED
  BY <1>2, <1>3, QuietStep

\* The loads of a node's sequence number and the branches on it.

\* Push's load of the node's sequence number does.
LEMMA PushLoadSeqStep ==
    ASSUME RingInv, NEW t \in Threads, PushLoadSeq(t)
    PROVE  RingInv'
<1> USE ZenonT(40)
<1>1. TypeOK /\ Knows(t) /\ ~Filling(t) /\ ~Popping(t)
  BY DEF RingInv, PushLoadSeq, Filling, Popping
<1>2. CASE /\ SeqOf(pos[t]) = pos[t]
           /\ Goto(t, "push_cas")
           /\ UNCHANGED <<slow, pos, idx, batch, got, free>>
  <2>1. TypeOK' /\ Frame(t) /\ KeepsOwnership(t)
    BY <1>1, <1>2 DEF TypeOK, PushLoadSeq, Goto, Frame, KeepsOwnership
  <2>2. SeqOf(pos[t])' = pos'[t]
    BY <1>2 DEF PushLoadSeq, SeqOf
  <2>3. Knows(t)' /\ (pc[t] = "idle" => idx[t] = 0)'
    BY <1>1, <1>2, <2>2 DEF TypeOK, PushLoadSeq, Goto, Knows
  <2> QED
    BY <2>1, <2>3, QuietStep DEF PushLoadSeq
<1>3. CASE ReturnFalse(t)
  BY <1>1, <1>3, ReturnFalseStep DEF PushLoadSeq
<1>4. CASE RetryPush(t)
  BY <1>4, RetryStep DEF PushLoadSeq
<1> QED
  BY <1>2, <1>3, <1>4 DEF PushLoadSeq

\* A clean node lies inside the window: SeqOf(q) = q cannot be read from a
\* node that belongs to an earlier lap.
LEMMA CleanInWindow ==
    ASSUME RingInv, Capacity >= 2, NEW q \in Nat, head_seq <= q, SeqOf(q) = q
    PROVE  q < tail_seq + Capacity
<1>1. q <= tail_seq + Capacity
  BY LapAndSlot, Zenon DEF RingInv, TypeOK, SeqBounds, SeqOf
<1>2. ASSUME q = tail_seq + Capacity
      PROVE  FALSE
  <2>1. SeqOf(q) = SeqOf(tail_seq)
    BY <1>2, SlotWraps, Zenon DEF RingInv, TypeOK, SeqOf
  <2>2. SeqOf(tail_seq) \in {tail_seq, tail_seq + 1, tail_seq + 1 - Capacity}
    <3>1. CASE tail_seq < head_seq
      <4>1. tail_seq \in tail_seq..(head_seq - 1)
        BY <3>1 DEF RingInv, TypeOK
      <4> QED
        BY <4>1, Zenon DEF RingInv, Window
    <3>2. CASE tail_seq = head_seq
      <4>1. tail_seq \in head_seq..(tail_seq + Capacity - 1)
        BY <3>2, CapacityAssumption DEF RingInv, TypeOK
      <4> QED
        BY <4>1, Zenon DEF RingInv, Window
    <3> QED
      BY <3>1, <3>2 DEF RingInv, TypeOK, Window
  <2> QED
    BY <1>2, <2>1, <2>2, CapacityAssumption DEF RingInv, TypeOK
<1> QED
  BY <1>1, <1>2, CapacityAssumption DEF RingInv, TypeOK

\* BatchPush's load of the last node's sequence number does.
LEMMA BatchLoadLastStep ==
    ASSUME RingInv, Capacity >= 2, NEW t \in Threads, BatchLoadLast(t)
    PROVE  RingInv'
<1> USE ZenonT(40)
<1> DEFINE head == pos[t] + Len(batch[t])
<1>1. TypeOK /\ Knows(t) /\ ~Filling(t) /\ ~Popping(t)
  BY DEF RingInv, BatchLoadLast, Filling, Popping
<1>2. CASE /\ SeqOf(head) = head
           /\ Goto(t, "batch_range")
           /\ UNCHANGED <<slow, pos, idx, batch, got, free>>
  <2>1. TypeOK' /\ Frame(t) /\ KeepsOwnership(t)
    BY <1>1, <1>2 DEF TypeOK, BatchLoadLast, Goto, Frame, KeepsOwnership
  <2>2. pos[t] = head_seq => head < tail_seq + Capacity
    BY <1>1, <1>2, CleanInWindow, SMT DEF TypeOK, BatchLoadLast, Knows
  <2>3. Knows(t)' /\ (pc[t] = "idle" => idx[t] = 0)'
    BY <1>1, <1>2, <2>2, SMT DEF TypeOK, BatchLoadLast, Goto, Knows
  <2> QED
    BY <2>1, <2>3, QuietStep DEF BatchLoadLast
<1>3. CASE ReturnFalse(t)
  BY <1>1, <1>3, ReturnFalseStep DEF BatchLoadLast
<1>4. CASE RetryBatch(t)
  BY <1>4, RetryStep DEF BatchLoadLast
<1> QED
  BY <1>2, <1>3, <1>4 DEF BatchLoadLast

\* BatchPush's look at the nodes before the last does.
LEMMA BatchCheckRangeStep ==
    ASSUME RingInv, NEW t \in Threads, BatchCheckRange(t)
    PROVE  RingInv'
<1> DEFINE q == pos[t] + idx[t]
<1>1. TypeOK /\ Knows(t) /\ ~Filling(t) /\ ~Popping(t)
  BY Zenon DEF RingInv, BatchCheckRange, Filling, Popping
<1>2. CASE /\ SeqOf(q) = q \/ ~Overrun(q)
           /\ idx' = [idx EXCEPT ![t] = idx[t] + 1]
           /\ Goto(t, IF idx[t] + 1 = Len(batch[t]) THEN "batch_cas"
                                                    ELSE "batch_range")
           /\ UNCHANGED <<slow, pos, batch, got, free>>
  <2>1. \/ pc' = [pc EXCEPT ![t] = "batch_cas"] /\ idx[t] + 1 = Len(batch[t])
        \/ pc' = [pc EXCEPT ![t] = "batch_range"] /\ idx[t] + 1 # Len(batch[t])
    BY <1>2, Zenon DEF Goto
  <2>2. TypeOK' /\ Frame(t) /\ KeepsOwnership(t)
    <3>1. TypeOK'
      <4>1. CASE pc' = [pc EXCEPT ![t] = "batch_cas"]
        BY <1>1, <1>2, <4>1 DEF TypeOK, BatchCheckRange
      <4>2. CASE pc' = [pc EXCEPT ![t] = "batch_range"]
        BY <1>1, <1>2, <4>2 DEF TypeOK, BatchCheckRange
      <4> QED
        BY <2>1, <4>1, <4>2, Zenon
    <3>2. Frame(t) /\ KeepsOwnership(t)
      BY <1>1, <1>2, <2>1 DEF TypeOK, Frame, KeepsOwnership
    <3> QED
      BY <3>1, <3>2, Zenon
  <2>3. pos[t] = head_seq => SeqOf(q) = q
    <3> SUFFICES ASSUME pos[t] = head_seq
                 PROVE  SeqOf(q) = q
      BY Zenon
    <3>1. q \in head_seq..(tail_seq + Capacity - 1)
      <4>1. idx[t] < Len(batch[t]) /\ pos[t] + Len(batch[t]) < tail_seq + Capacity
        BY <1>1, Zenon DEF BatchCheckRange, Knows
      <4>2. Len(batch[t]) \in Nat /\ idx[t] \in Nat /\ pos[t] \in Nat /\ tail_seq \in Nat
        BY <1>1 DEF TypeOK
      <4> QED
        BY <4>1, <4>2, CapacityAssumption
    <3>2. SeqOf(q) \in {q, q + 1 - Capacity}
      BY <3>1, Zenon DEF RingInv, Window
    <3> QED
      BY <1>1, <1>2, <3>1, <3>2, CapacityAssumption DEF TypeOK, Overrun
  <2>4. \A p : SeqOf(p)' = SeqOf(p)
    BY Zenon DEF BatchCheckRange, SeqOf
  <2>5. pos[t] = head_seq =>
          \A p \in pos[t]..(pos[t] + (idx[t] + 1) - 1) : SeqOf(p) = p
    BY <1>1, <2>3 DEF TypeOK, BatchCheckRange, Knows
  <2>6. Knows(t)' /\ (pc[t] = "idle" => idx[t] = 0)'
    BY <1>1, <1>2, <2>1, <2>4, <2>5 DEF TypeOK, BatchCheckRange, Knows
  <2> QED
    BY <2>2, <2>6, QuietStep, Zenon DEF BatchCheckRange
<1>3. CASE ReturnFalse(t)
  BY <1>1, <1>3, ReturnFalseStep, Zenon DEF BatchCheckRange
<1> QED
  BY <1>2, <1>3, Zenon DEF BatchCheckRange

\* The load of the node's sequence number by Pop and Steal does.
LEMMA PopLoadSeqStep ==
    ASSUME RingInv, NEW t \in Threads, PopLoadSeq(t)
    PROVE  RingInv'
<1> USE ZenonT(40)
<1>1. TypeOK /\ Knows(t) /\ ~Filling(t) /\ ~Popping(t)
  BY DEF RingInv, PopLoadSeq, Filling, Popping
<1>2. CASE /\ SeqOf(pos[t]) = pos[t] + 1
           /\ Goto(t, IF pc[t] = "pop_seq" THEN "pop_cas" ELSE "steal_test")
           /\ UNCHANGED <<slow, pos, idx, batch, got>>
  <2>1. \/ pc' = [pc EXCEPT ![t] = "pop_cas"]
        \/ pc' = [pc EXCEPT ![t] = "steal_test"]
    BY <1>2 DEF Goto
  <2>2. TypeOK' /\ Frame(t) /\ KeepsOwnership(t)
    <3>1. TypeOK'
      BY <1>1, <1>2, <2>1 DEF TypeOK, PopLoadSeq
    <3>2. Frame(t) /\ KeepsOwnership(t)
      BY <1>1, <1>2, <2>1 DEF TypeOK, Frame, KeepsOwnership
    <3> QED
      BY <3>1, <3>2
  <2>3. SeqOf(pos[t])' = pos'[t] + 1
    BY <1>2 DEF PopLoadSeq, SeqOf
  <2>4. Knows(t)' /\ (pc[t] = "idle" => idx[t] = 0)'
    BY <1>1, <1>2, <2>1, <2>3, SMT DEF TypeOK, PopLoadSeq, Knows
  <2> QED
    BY <2>2, <2>4, QuietStep DEF PopLoadSeq
<1>3. CASE Return(t)
  BY <1>1, <1>3, ReturnStep DEF TypeOK, PopLoadSeq
<1>4. CASE RetryPop(t)
  BY <1>4, RetryStep DEF PopLoadSeq
<1> QED
  BY <1>2, <1>3, <1>4 DEF PopLoadSeq

\* Steal's test of the node's flag does.
LEMMA StealTestStep ==
    ASSUME RingInv, NEW t \in Threads, StealTest(t)
    PROVE  RingInv'
<1> USE ZenonT(40)
<1>1. TypeOK /\ Knows(t) /\ ~Filling(t) /\ ~Popping(t)
  BY DEF RingInv, StealTest, Filling, Popping
<1>2. CASE Return(t)
  BY <1>1, <1>2, ReturnStep DEF TypeOK, StealTest
<1>3. CASE /\ ~nodes[Slot(pos[t])].instealable
           /\ Goto(t, "steal_cas")
           /\ UNCHANGED <<slow, pos, idx, batch, got>>
  <2>1. TypeOK' /\ Frame(t) /\ KeepsOwnership(t)
    BY <1>1, <1>3 DEF TypeOK, StealTest, Goto, Frame, KeepsOwnership
  <2>2. nodes[Slot(pos[t])].fiber \notin Local
    BY <1>1, <1>3, LapAndSlot DEF RingInv, TypeOK, FlagMatches
  <2>3. Knows(t)' /\ (pc[t] = "idle" => idx[t] = 0)'
    BY <1>1, <1>3, <2>2 DEF TypeOK, StealTest, Goto, Knows, SeqOf
  <2> QED
    BY <2>1, <2>3, QuietStep DEF StealTest
<1> QED
  BY <1>2, <1>3 DEF StealTest

-----------------------------------------------------------------------------
\* Claiming positions

\* A pusher whose compare-and-swap succeeds owns the clean positions from
\* head_seq on.
LEMMA ClaimStep ==
    ASSUME RingInv, Capacity >= 2, NEW t \in Threads, ~Filling(t), ~Popping(t),
           pos[t] = head_seq, Len(batch[t]) > 0,
           head_seq' = head_seq + Len(batch[t]),
           head_seq' <= tail_seq + Capacity,
           \A p \in head_seq..(head_seq' - 1) : SeqOf(p) = p,
           pc' = [pc EXCEPT ![t] = "fill"], idx' = [idx EXCEPT ![t] = 0],
           UNCHANGED <<tail_seq, nodes, slow, pos, batch, got, free>>
    PROVE  RingInv'
<1> USE ZenonT(40)
<1>1. /\ TypeOK
      /\ Len(batch[t]) \in Nat /\ head_seq \in Nat /\ tail_seq \in Nat
      /\ head_seq' \in Nat /\ head_seq < head_seq'
      /\ \A u \in Threads : pos[u] \in Nat /\ idx[u] \in Nat /\ Len(batch[u]) \in Nat
  BY SMT DEF RingInv, TypeOK
<1>2. TypeOK'
  BY <1>1 DEF TypeOK
<1>3. /\ Filling(t)' /\ ~Popping(t)' /\ Owned(t)' = head_seq..(head_seq' - 1)
      /\ \A u \in Threads \ {t} : /\ Filling(u)' <=> Filling(u)
                                  /\ Popping(u)' <=> Popping(u)
                                  /\ Owned(u)' = Owned(u)
                                  /\ idx'[u] = idx[u] /\ pc'[u] = pc[u]
  BY <1>1, SMT DEF TypeOK, Filling, Popping, Owned
<1>4. \A p : SeqOf(p)' = SeqOf(p)
  BY DEF SeqOf
<1>5. ASSUME NEW u \in Threads, NEW p \in Owned(u)
      PROVE  p \in Nat /\ p < head_seq
  <2>1. CASE Filling(u)
    <3>1. p \in (pos[u] + idx[u])..(pos[u] + Len(batch[u]) - 1)
      BY <2>1 DEF Owned
    <3>2. pos[u] + Len(batch[u]) <= head_seq
      BY <2>1 DEF RingInv, Ownership
    <3> QED
      BY <1>1, <3>1, <3>2, RangeBelow
  <2>2. CASE ~Filling(u)
    <3>1. Popping(u) /\ p = pos[u]
      BY <2>2 DEF Owned
    <3>2. pos[u] < tail_seq /\ tail_seq <= head_seq
      BY <3>1 DEF RingInv, Ownership, Window
    <3> QED
      BY <1>1, <3>1, <3>2, SMT
  <2> QED
    BY <2>1, <2>2
<1>6. ASSUME NEW u \in Threads, Popping(u)
      PROVE  head_seq' <= pos[u] + Capacity
  <2>1. pos[u] + Capacity >= head_seq /\ pos[u] + Capacity < tail_seq + Capacity
    BY <1>1, <1>6, CapacityAssumption, SMT DEF RingInv, Ownership
  <2>2. SeqOf(pos[u] + Capacity) = pos[u] + Capacity + 1 - Capacity
    <3>1. pos[u] + Capacity \in head_seq..(tail_seq + Capacity - 1)
      BY <1>1, <2>1, CapacityAssumption, SMT
    <3> QED
      BY <1>6, <3>1 DEF RingInv, Window
  <2>3. pos[u] + Capacity \in Nat /\ pos[u] + 1 # pos[u] + Capacity
    BY <1>1, CapacityAssumption, SMT
  <2>4. ~(pos[u] + Capacity < head_seq')
    BY <1>1, <2>1, <2>2, <2>3, CapacityAssumption, SMTT(30)
  <2> QED
    BY <1>1, <2>3, <2>4, SMT
<1>7. Window'
  <2>1. tail_seq' <= head_seq' /\ head_seq' <= tail_seq' + Capacity
    BY <1>1, SMT DEF RingInv, Window
  <2>2. ASSUME NEW p \in tail_seq..(head_seq' - 1)
        PROVE  SeqOf(p) = IF \E u \in Threads : Filling(u)' /\ p \in Owned(u)'
                          THEN p ELSE p + 1
    <3>1. CASE p < head_seq
      <4>1. p \in tail_seq..(head_seq - 1) /\ p \notin Owned(t)'
        BY <1>1, <1>3, <3>1, SMT
      <4>2. (\E u \in Threads : Filling(u)' /\ p \in Owned(u)') <=>
            (\E u \in Threads : Filling(u) /\ p \in Owned(u))
        BY <1>3, <4>1
      <4> QED
        BY <4>1, <4>2 DEF RingInv, Window
    <3>2. CASE p >= head_seq
      <4>1. p \in Owned(t)' /\ Filling(t)'
        BY <1>1, <1>3, <3>2, SMT
      <4> QED
        BY <1>1, <3>2, <4>1, SMT
    <3> QED
      BY <1>1, <3>1, <3>2, SMT
  <2>3. ASSUME NEW p \in head_seq'..(tail_seq + Capacity - 1)
        PROVE  SeqOf(p) = IF \E u \in Threads : Popping(u)' /\ pos'[u] + Capacity = p
                          THEN p + 1 - Capacity ELSE p
    <3>1. p \in head_seq..(tail_seq + Capacity - 1)
      BY <1>1, CapacityAssumption, SMT
    <3>2. (\E u \in Threads : Popping(u)' /\ pos'[u] + Capacity = p) <=>
          (\E u \in Threads : Popping(u) /\ pos[u] + Capacity = p)
      BY <1>3
    <3> QED
      BY <3>1, <3>2 DEF RingInv, Window
  <2> QED
    BY <1>4, <2>1, <2>2, <2>3 DEF Window
<1>8. Ownership'
  <2>1. ASSUME NEW u \in Threads
        PROVE  /\ Filling(u)' => /\ tail_seq' <= pos'[u] + idx'[u]
                                 /\ idx'[u] < Len(batch'[u])
                                 /\ pos'[u] + Len(batch'[u]) <= head_seq'
               /\ Popping(u)' => /\ pos'[u] < tail_seq'
                                 /\ head_seq' <= pos'[u] + Capacity
    <3>1. CASE u = t
      BY <1>1, <1>3, <3>1, SMT DEF RingInv, TypeOK, Window
    <3>2. CASE u # t
      <4>1. /\ Filling(u) => /\ tail_seq <= pos[u] + idx[u]
                             /\ idx[u] < Len(batch[u])
                             /\ pos[u] + Len(batch[u]) <= head_seq
            /\ Popping(u) => pos[u] < tail_seq
        BY DEF RingInv, Ownership
      <4>2. pos[u] + Len(batch[u]) <= head_seq => pos[u] + Len(batch[u]) <= head_seq'
        BY <1>1, StillBelow
      <4> QED
        BY <1>3, <1>6, <3>2, <4>1, <4>2
    <3> QED
      BY <3>1, <3>2
  <2>2. ASSUME NEW u \in Threads, NEW v \in Threads, u # v
        PROVE  Owned(u)' \cap Owned(v)' = {}
    <3>1. CASE u # t /\ v # t
      BY <1>3, <2>2, <3>1 DEF RingInv, Ownership
    <3>2. ASSUME NEW w \in Threads \ {t}
          PROVE  Owned(t)' \cap Owned(w)' = {}
      BY <1>1, <1>3, <1>5, SMT
    <3> QED
      BY <2>2, <3>1, <3>2
  <2> QED
    BY <2>1, <2>2 DEF Ownership
<1>9. SeqBounds'
  <2>1. \A p \in 0..(head_seq' - 1) : SeqOf(p) >= p
    BY <1>1, SMTT(30) DEF RingInv, SeqBounds
  <2> QED
    BY <1>4, <2>1 DEF RingInv, SeqBounds
<1>10. FlagMatches'
  BY DEF RingInv, FlagMatches
<1>11. ASSUME NEW u \in Threads
       PROVE  Knows(u)' /\ (pc[u] = "idle" => idx[u] = 0)'
  <2>1. CASE u = t
    BY <1>1, <2>1 DEF TypeOK, Knows
  <2>2. CASE u # t
    <3>1. pos[u] <= head_seq => pos[u] # head_seq' /\ pos[u] <= head_seq'
      BY <1>1, SMT
    <3> QED
      BY <1>3, <1>4, <2>2, <3>1 DEF RingInv, Knows
  <2> QED
    BY <2>1, <2>2
<1> QED
  BY <1>2, <1>7, <1>8, <1>9, <1>10, <1>11 DEF RingInv

\* Push's compare-and-swap of head_seq_ keeps the ring invariant, won or lost.
LEMMA PushCasStep ==
    ASSUME RingInv, Capacity >= 2, NEW t \in Threads, PushCas(t)
    PROVE  RingInv'
<1> USE ZenonT(40)
<1>1. TypeOK /\ Knows(t) /\ ~Filling(t) /\ ~Popping(t)
  BY DEF RingInv, PushCas, Filling, Popping
<1>2. CASE /\ head_seq = pos[t]
           /\ head_seq' = pos[t] + 1
           /\ Goto(t, "fill")
           /\ UNCHANGED <<slow, pos, idx, batch, got, free>>
  <2>1. Len(batch[t]) = 1 /\ idx[t] = 0 /\ SeqOf(head_seq) = head_seq
    BY <1>1, <1>2 DEF PushCas, Knows
  <2>2. head_seq < tail_seq + Capacity
    BY <1>1, <2>1, CleanInWindow, SMT DEF TypeOK
  <2>3. idx' = [idx EXCEPT ![t] = 0]
    BY <1>1, <1>2, <2>1 DEF TypeOK
  <2>4. /\ head_seq' = head_seq + Len(batch[t]) /\ Len(batch[t]) > 0
        /\ head_seq' <= tail_seq + Capacity
        /\ \A p \in head_seq..(head_seq' - 1) : SeqOf(p) = p
    BY <1>1, <1>2, <2>1, <2>2, CapacityAssumption, SMT DEF TypeOK
  <2> QED
    BY <1>1, <1>2, <2>3, <2>4, ClaimStep DEF PushCas, Goto
<1>3. CASE RetryPush(t) /\ UNCHANGED head_seq
  BY <1>3, RetryStep DEF PushCas
<1> QED
  BY <1>2, <1>3 DEF PushCas

\* So does BatchPush's.
LEMMA BatchCasStep ==
    ASSUME RingInv, Capacity >= 2, NEW t \in Threads, BatchCas(t)
    PROVE  RingInv'
<1> USE ZenonT(40)
<1>1. TypeOK /\ Knows(t) /\ ~Filling(t) /\ ~Popping(t)
  BY DEF RingInv, BatchCas, Filling, Popping
<1>2. CASE /\ head_seq = pos[t]
           /\ head_seq' = pos[t] + Len(batch[t])
           /\ idx' = [idx EXCEPT ![t] = 0]
           /\ Goto(t, "fill")
           /\ UNCHANGED <<slow, pos, batch, got, free>>
  <2>1. /\ idx[t] = Len(batch[t]) /\ Len(batch[t]) > 0
        /\ pos[t] + Len(batch[t]) < tail_seq + Capacity
        /\ \A p \in pos[t]..(pos[t] + idx[t] - 1) : SeqOf(p) = p
    BY <1>1, <1>2 DEF BatchCas, Knows
  <2>2. /\ head_seq' <= tail_seq + Capacity
        /\ \A p \in head_seq..(head_seq' - 1) : SeqOf(p) = p
    <3>1. pos[t] \in Nat /\ Len(batch[t]) \in Nat /\ tail_seq \in Nat
      BY <1>1, SMT DEF TypeOK
    <3>2. head_seq' <= tail_seq + Capacity
      BY <1>2, <2>1, <3>1, CapacityAssumption, SMT
    <3> QED
      BY <1>2, <2>1, <3>1, <3>2, SMTT(30)
  <2> QED
    BY <1>1, <1>2, <2>1, <2>2, ClaimStep DEF BatchCas, Goto
<1>3. CASE RetryBatch(t) /\ UNCHANGED head_seq
  BY <1>3, RetryStep DEF BatchCas
<1> QED
  BY <1>2, <1>3 DEF BatchCas

\* A popper whose compare-and-swap succeeds owns the published position
\* tail_seq.
LEMMA TakeStep ==
    ASSUME RingInv, Capacity >= 2, NEW t \in Threads, ~Filling(t), ~Popping(t),
           pos[t] = tail_seq, SeqOf(tail_seq) = tail_seq + 1,
           tail_seq' = tail_seq + 1,
           pc' = [pc EXCEPT ![t] = "read"],
           UNCHANGED <<head_seq, nodes, slow, pos, idx, batch, got, free>>
    PROVE  RingInv'
<1> USE ZenonT(40)
<1>1. /\ TypeOK
      /\ head_seq \in Nat /\ tail_seq \in Nat /\ tail_seq' \in Nat
      /\ tail_seq <= head_seq /\ head_seq <= tail_seq + Capacity
      /\ Capacity \in Nat
      /\ \A u \in Threads : pos[u] \in Nat /\ idx[u] \in Nat /\ Len(batch[u]) \in Nat
  BY CapacityAssumption, SMTT(30) DEF RingInv, TypeOK, Window
<1>2. TypeOK'
  BY <1>1 DEF TypeOK
<1>3. /\ ~Filling(t)' /\ Popping(t)' /\ Owned(t)' = {tail_seq}
      /\ \A u \in Threads \ {t} : /\ Filling(u)' <=> Filling(u)
                                  /\ Popping(u)' <=> Popping(u)
                                  /\ Owned(u)' = Owned(u)
                                  /\ pc'[u] = pc[u]
  BY <1>1 DEF TypeOK, Filling, Popping, Owned
<1>4. \A p : SeqOf(p)' = SeqOf(p)
  BY DEF SeqOf
<1>5. tail_seq < head_seq
  <2>1. ASSUME tail_seq = head_seq
        PROVE  FALSE
    <3>1. tail_seq \in head_seq..(tail_seq + Capacity - 1)
      BY <1>1, <2>1, SMT
    <3>2. SeqOf(tail_seq) \in {tail_seq, tail_seq + 1 - Capacity}
      BY <3>1 DEF RingInv, Window
    <3> QED
      BY <1>1, <3>2, SMT
  <2> QED
    BY <1>1, <2>1, SMT
<1>6. ASSUME NEW u \in Threads, Filling(u)
      PROVE  tail_seq \notin Owned(u) /\ tail_seq + 1 <= pos[u] + idx[u]
  <2>1. tail_seq \in tail_seq..(head_seq - 1)
    BY <1>1, <1>5, SMT
  <2>2. tail_seq \notin Owned(u)
    BY <1>1, <1>6, <2>1, SMT DEF RingInv, Window
  <2>3. /\ tail_seq <= pos[u] + idx[u] /\ idx[u] < Len(batch[u])
        /\ Owned(u) = (pos[u] + idx[u])..(pos[u] + Len(batch[u]) - 1)
    BY <1>6 DEF RingInv, Ownership, Owned
  <2>4. pos[u] \in Nat /\ idx[u] \in Nat /\ Len(batch[u]) \in Nat
    BY <1>1
  <2>5. pos[u] + idx[u] \in Nat /\ pos[u] + idx[u] \in Owned(u)
    BY <2>3, <2>4, FirstOfRange
  <2>6. tail_seq # pos[u] + idx[u]
    BY <2>2, <2>5
  <2>7. tail_seq \in Nat
    BY <1>1
  <2> QED
    BY <2>2, <2>3, <2>5, <2>6, <2>7, SMT
<1>7. Window'
  <2>1. tail_seq' <= head_seq' /\ head_seq' <= tail_seq' + Capacity
    BY <1>1, <1>5, SMT
  <2>2. ASSUME NEW p \in (tail_seq + 1)..(head_seq - 1)
        PROVE  SeqOf(p) = IF \E u \in Threads : Filling(u)' /\ p \in Owned(u)'
                          THEN p ELSE p + 1
    <3>1. p \in tail_seq..(head_seq - 1)
      BY <1>1, SMT
    <3>2. (\E u \in Threads : Filling(u)' /\ p \in Owned(u)') <=>
          (\E u \in Threads : Filling(u) /\ p \in Owned(u))
      BY <1>3
    <3> QED
      BY <3>1, <3>2 DEF RingInv, Window
  <2>3. ASSUME NEW p \in head_seq..(tail_seq + 1 + Capacity - 1)
        PROVE  SeqOf(p) = IF \E u \in Threads : Popping(u)' /\ pos'[u] + Capacity = p
                          THEN p + 1 - Capacity ELSE p
    <3>1. CASE p = tail_seq + Capacity
      <4>1. SeqOf(p) = SeqOf(tail_seq)
        BY <1>1, <3>1, SlotWraps DEF SeqOf
      <4> QED
        BY <1>1, <1>3, <3>1, <4>1, SMT
    <3>2. CASE p # tail_seq + Capacity
      <4>0. head_seq \in Nat /\ tail_seq \in Nat /\ Capacity \in Nat
        BY <1>1
      <4>1. p \in head_seq..(tail_seq + Capacity - 1)
        BY <3>2, <4>0, SMT
      <4>2. (\E u \in Threads : Popping(u)' /\ pos'[u] + Capacity = p) <=>
            (\E u \in Threads : Popping(u) /\ pos[u] + Capacity = p)
        BY <1>3, <3>2
      <4> QED
        BY <4>1, <4>2 DEF RingInv, Window
    <3> QED
      BY <3>1, <3>2
  <2> QED
    BY <1>4, <2>1, <2>2, <2>3 DEF Window
<1>8. Ownership'
  <2>1. ASSUME NEW u \in Threads
        PROVE  /\ Filling(u)' => /\ tail_seq' <= pos'[u] + idx'[u]
                                 /\ idx'[u] < Len(batch'[u])
                                 /\ pos'[u] + Len(batch'[u]) <= head_seq'
               /\ Popping(u)' => /\ pos'[u] < tail_seq'
                                 /\ head_seq' <= pos'[u] + Capacity
    <3>1. CASE u = t
      BY <1>1, <1>3, <3>1, SMT
    <3>2. CASE u # t
      <4>1. /\ Filling(u) => /\ idx[u] < Len(batch[u])
                             /\ pos[u] + Len(batch[u]) <= head_seq
            /\ Popping(u) => /\ pos[u] < tail_seq
                             /\ head_seq <= pos[u] + Capacity
        BY DEF RingInv, Ownership
      <4>2. pos[u] < tail_seq => pos[u] < tail_seq + 1
        BY <1>1, SMT
      <4> QED
        BY <1>3, <1>6, <3>2, <4>1, <4>2
    <3> QED
      BY <3>1, <3>2
  <2>2. ASSUME NEW w \in Threads \ {t}
        PROVE  tail_seq \notin Owned(w)
    <3>1. CASE Filling(w)
      BY <1>6, <3>1
    <3>2. CASE ~Filling(w)
      <4>1. Popping(w) => pos[w] < tail_seq
        BY DEF RingInv, Ownership
      <4> QED
        BY <1>1, <3>2, <4>1, SMT DEF Owned
    <3> QED
      BY <3>1, <3>2
  <2>3. ASSUME NEW u \in Threads, NEW v \in Threads, u # v
        PROVE  Owned(u)' \cap Owned(v)' = {}
    <3>1. CASE u # t /\ v # t
      BY <1>3, <2>3, <3>1 DEF RingInv, Ownership
    <3>2. ASSUME NEW w \in Threads \ {t}
          PROVE  Owned(t)' \cap Owned(w)' = {}
      BY <1>3, <2>2
    <3> QED
      BY <2>3, <3>1, <3>2
  <2> QED
    BY <2>1, <2>3 DEF Ownership
<1>9. SeqBounds'
  <2>1. \A s \in 0..(Capacity - 1) : nodes[s].seq <= tail_seq + 1 + Capacity
    <3>1. ASSUME NEW s \in 0..(Capacity - 1)
          PROVE  nodes[s].seq \in Nat /\ nodes[s].seq <= tail_seq + Capacity
      BY <1>1 DEF RingInv, TypeOK, SeqBounds
    <3> QED
      BY <1>1, <3>1, SMT
  <2>2. ASSUME NEW p \in 0..(tail_seq + 1 - 1)
        PROVE  SeqOf(p) >= p + 1
    <3>1. p = tail_seq \/ p \in 0..(tail_seq - 1)
      BY <1>1, SMT
    <3>2. CASE p = tail_seq
      BY <1>1, <3>2, SMT
    <3>3. CASE p \in 0..(tail_seq - 1)
      BY <3>3 DEF RingInv, SeqBounds
    <3> QED
      BY <3>1, <3>2, <3>3
  <2> QED
    <3>1. tail_seq' + Capacity = tail_seq + 1 + Capacity /\ tail_seq' - 1 = tail_seq + 1 - 1
      BY <1>1, SMT
    <3>2. \A p \in 0..(head_seq - 1) : SeqOf(p) >= p
      BY DEF RingInv, SeqBounds
    <3> QED
      BY <1>4, <2>1, <2>2, <3>1, <3>2 DEF SeqBounds
<1>10. FlagMatches'
  BY DEF RingInv, FlagMatches
<1>11. ASSUME NEW u \in Threads
       PROVE  Knows(u)' /\ (pc[u] = "idle" => idx[u] = 0)'
  <2>1. CASE u = t
    BY <1>1, <2>1 DEF TypeOK, Knows
  <2>2. CASE u # t
    <3>1. /\ pos[u] <= tail_seq => pos[u] # tail_seq' /\ pos[u] <= tail_seq'
          /\ pos[u] + Len(batch[u]) < tail_seq + Capacity =>
                pos[u] + Len(batch[u]) < tail_seq' + Capacity
      BY <1>1, SMT
    <3> QED
      BY <1>3, <1>4, <2>2, <3>1 DEF RingInv, Knows
  <2> QED
    BY <2>1, <2>2
<1> QED
  BY <1>2, <1>7, <1>8, <1>9, <1>10, <1>11 DEF RingInv

\* So does the one of tail_seq_ by Pop and Steal.
LEMMA PopCasStep ==
    ASSUME RingInv, Capacity >= 2, NEW t \in Threads, PopCas(t)
    PROVE  RingInv'
<1> USE ZenonT(40)
<1>1. TypeOK /\ Knows(t) /\ ~Filling(t) /\ ~Popping(t)
  BY DEF RingInv, PopCas, Filling, Popping
<1>2. CASE /\ tail_seq = pos[t]
           /\ tail_seq' = pos[t] + 1
           /\ Goto(t, "read")
           /\ UNCHANGED <<slow, pos, idx, batch, got>>
  <2>1. SeqOf(tail_seq) = tail_seq + 1
    BY <1>1, <1>2 DEF PopCas, Knows
  <2> QED
    BY <1>1, <1>2, <2>1, TakeStep DEF PopCas, Goto
<1>3. CASE RetryPop(t) /\ UNCHANGED tail_seq
  BY <1>3, RetryStep DEF PopCas
<1> QED
  BY <1>2, <1>3 DEF PopCas
=============================================================================
