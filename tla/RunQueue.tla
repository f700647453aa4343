------------------------------ MODULE RunQueue ------------------------------
(***************************************************************************)
(* flare/fiber/detail/run_queue.{h,cc}: the bounded multi-producer         *)
(* multi-consumer ring that holds a scheduling group's runnable fibers.    *)
(*                                                                         *)
(* Every atomic load, compare-and-swap and store of the code is a step of  *)
(* its own, so all interleavings of pushers, batch pushers, poppers and    *)
(* thieves are explored. Sequence numbers are unbounded naturals here      *)
(* (64-bit in the code, which do not wrap in practice).                    *)
(***************************************************************************)
EXTENDS Integers, Sequences

CONSTANTS
    Pushers,    \* threads that push; they may also be poppers
    Poppers,    \* threads that pop and steal
    Entities,   \* RunnableEntity objects
    Local,      \* the entities that are pushed with `instealable` set
    Capacity,   \* capacity_
    Batches,    \* sequences of entities BatchPush may be called with
    MaxSeq,     \* bound: no push starts once head_seq_ would pass it
    None        \* nullptr

ASSUME CapacityAssumption == Capacity \in Nat \ {0}
ASSUME EntitiesAssumption == /\ Local \subseteq Entities
                             /\ None \notin Entities
                             /\ \A b \in Batches : b \in Seq(Entities \ Local) /\ b # <<>>
                             /\ MaxSeq \in Nat

Threads == Pushers \cup Poppers

VARIABLES
    head_seq,   \* next position to be claimed by a pusher
    tail_seq,   \* next position to be claimed by a popper
    nodes,      \* nodes_: [seq, fiber, instealable] of each slot
    pc,         \* where each thread is
    slow,       \* whether its call has reached PushSlow / PopSlow
    pos,        \* its local copy of head_seq_ or tail_seq_
    idx,        \* its loop counter in BatchPush
    batch,      \* the entities it is pushing
    got,        \* what its Pop or Steal is about to return
    free        \* entities that are in nobody's hands and not in the queue

vars == <<head_seq, tail_seq, nodes, pc, slow, pos, idx, batch, got, free>>

\* nodes_[p & mask_]: Capacity is a power of two.
Slot(p) == p % Capacity

SeqOf(p) == nodes[Slot(p)].seq

\* Mutant: any node that is not clean is taken for an overrun.
OverrunAnyMismatch(p) == SeqOf(p) # p

\* The node still holds the entity of the previous lap: nseq + capacity_ ==
\* head + 1.
Overrun(p) == SeqOf(p) + Capacity = p + 1

Elements(b) == {b[i] : i \in 1..Len(b)}

Init ==
    /\ head_seq = 0
    /\ tail_seq = 0
    /\ nodes = [s \in 0..(Capacity - 1) |->
                  [seq |-> s, fiber |-> None, instealable |-> FALSE]]
    /\ pc = [t \in Threads |-> "idle"]
    /\ slow = [t \in Threads |-> FALSE]
    /\ pos = [t \in Threads |-> 0]
    /\ idx = [t \in Threads |-> 0]
    /\ batch = [t \in Threads |-> <<>>]
    /\ got = [t \in Threads |-> None]
    /\ free = Entities

Goto(t, l) == pc' = [pc EXCEPT ![t] = l]

\* A call returns: its locals are gone.
Return(t) ==
    /\ Goto(t, "idle")
    /\ slow' = [slow EXCEPT ![t] = FALSE]
    /\ pos' = [pos EXCEPT ![t] = 0]
    /\ idx' = [idx EXCEPT ![t] = 0]
    /\ batch' = [batch EXCEPT ![t] = <<>>]
    /\ got' = [got EXCEPT ![t] = None]

-----------------------------------------------------------------------------
\* Push and PushSlow

\* A caller enters Push(e, instealable).
Push(t, e) ==
    /\ pc[t] = "idle"
    /\ e \in free
    /\ head_seq < MaxSeq
    /\ free' = free \ {e}
    /\ batch' = [batch EXCEPT ![t] = <<e>>]
    /\ Goto(t, "push_head")
    /\ UNCHANGED <<head_seq, tail_seq, nodes, slow, pos, idx, got>>

\* auto head = head_seq_.load()
LoadHead(t) ==
    /\ pc[t] \in {"push_head", "batch_head"}
    /\ pos' = [pos EXCEPT ![t] = head_seq]
    /\ Goto(t, IF pc[t] = "push_head" THEN "push_seq" ELSE "batch_last")
    /\ UNCHANGED <<head_seq, tail_seq, nodes, slow, idx, batch, got, free>>

\* The call returns false: the caller keeps the entities.
ReturnFalse(t) ==
    /\ Return(t)
    /\ free' = free \cup Elements(batch[t])

\* Push falls back to PushSlow, PushSlow goes round its loop.
RetryPush(t) ==
    /\ Goto(t, "push_head")
    /\ slow' = [slow EXCEPT ![t] = TRUE]
    /\ pos' = [pos EXCEPT ![t] = 0]
    /\ UNCHANGED <<idx, batch, got, free>>

\* Mutant: an overrun node is taken for a clean one.
PushNoOverrun(t) ==
    /\ pc[t] = "push_seq"
    /\ \/ /\ SeqOf(pos[t]) = pos[t] \/ Overrun(pos[t])
          /\ Goto(t, "push_cas")
          /\ UNCHANGED <<slow, pos, idx, batch, got, free>>
       \/ /\ SeqOf(pos[t]) # pos[t] /\ ~Overrun(pos[t])
          /\ RetryPush(t)
    /\ UNCHANGED <<head_seq, tail_seq, nodes>>

\* auto nseq = n.seq.load() and the branch on it. Only PushSlow reports an
\* overrun.
PushLoadSeq(t) ==
    /\ pc[t] = "push_seq"
    /\ \/ /\ SeqOf(pos[t]) = pos[t]
          /\ Goto(t, "push_cas")
          /\ UNCHANGED <<slow, pos, idx, batch, got, free>>
       \/ /\ SeqOf(pos[t]) # pos[t]
          /\ slow[t] /\ Overrun(pos[t])
          /\ ReturnFalse(t)
       \/ /\ SeqOf(pos[t]) # pos[t]
          /\ ~(slow[t] /\ Overrun(pos[t]))
          /\ RetryPush(t)
    /\ UNCHANGED <<head_seq, tail_seq, nodes>>

\* head_seq_.compare_exchange(head, head + 1); the weak one of PushSlow may
\* fail although nobody interfered.
PushCas(t) ==
    /\ pc[t] = "push_cas"
    /\ \/ /\ head_seq = pos[t]
          /\ head_seq' = pos[t] + 1
          /\ Goto(t, "fill")
          /\ UNCHANGED <<slow, pos, idx, batch, got, free>>
       \/ /\ head_seq # pos[t] \/ slow[t]
          /\ RetryPush(t)
          /\ UNCHANGED head_seq
    /\ UNCHANGED <<tail_seq, nodes>>

\* n.fiber = e; n.instealable.store(instealable). StartFibers passes false
\* for a batch, and no entity it batches is scheduling-group-local.
Fill(t) ==
    /\ pc[t] = "fill"
    /\ LET e == batch[t][idx[t] + 1]
       IN  nodes' = [nodes EXCEPT
                       ![Slot(pos[t] + idx[t])].fiber = e,
                       ![Slot(pos[t] + idx[t])].instealable = e \in Local]
    /\ Goto(t, "publish")
    /\ UNCHANGED <<head_seq, tail_seq, slow, pos, idx, batch, got, free>>

\* n.seq.store(head + 1, release), then the next entity of a batch.
Publish(t) ==
    /\ pc[t] = "publish"
    /\ nodes' = [nodes EXCEPT ![Slot(pos[t] + idx[t])].seq =
                                  pos[t] + idx[t] + 1]
    /\ \/ /\ idx[t] + 1 < Len(batch[t])
          /\ idx' = [idx EXCEPT ![t] = idx[t] + 1]
          /\ Goto(t, "fill")
          /\ UNCHANGED <<slow, pos, batch, got>>
       \/ /\ idx[t] + 1 = Len(batch[t])
          /\ Return(t)
    /\ UNCHANGED <<head_seq, tail_seq, free>>

-----------------------------------------------------------------------------
\* BatchPush

BatchPush(t, b) ==
    /\ pc[t] = "idle"
    /\ Elements(b) \subseteq free
    /\ head_seq + Len(b) <= MaxSeq
    /\ free' = free \ Elements(b)
    /\ batch' = [batch EXCEPT ![t] = b]
    /\ Goto(t, "batch_head")
    /\ UNCHANGED <<head_seq, tail_seq, nodes, slow, pos, idx, got>>

RetryBatch(t) ==
    /\ Goto(t, "batch_head")
    /\ pos' = [pos EXCEPT ![t] = 0]
    /\ idx' = [idx EXCEPT ![t] = 0]
    /\ UNCHANGED <<slow, batch, got, free>>

\* hseq: the sequence number of the node after the range to be claimed.
BatchLoadLast(t) ==
    /\ pc[t] = "batch_last"
    /\ LET head == pos[t] + Len(batch[t])
       IN  \/ /\ SeqOf(head) = head
              /\ Goto(t, "batch_range")
              /\ UNCHANGED <<slow, pos, idx, batch, got, free>>
           \/ /\ SeqOf(head) # head /\ Overrun(head)
              /\ ReturnFalse(t)
           \/ /\ SeqOf(head) # head /\ ~Overrun(head)
              /\ RetryBatch(t)
    /\ UNCHANGED <<head_seq, tail_seq, nodes>>

\* One iteration of the check that the entire range is clean.
BatchCheckRange(t) ==
    /\ pc[t] = "batch_range"
    /\ LET p == pos[t] + idx[t]
       IN  \/ /\ SeqOf(p) # p /\ Overrun(p)
              /\ ReturnFalse(t)
           \/ /\ SeqOf(p) = p \/ ~Overrun(p)
              /\ idx' = [idx EXCEPT ![t] = idx[t] + 1]
              /\ Goto(t, IF idx[t] + 1 = Len(batch[t]) THEN "batch_cas"
                                                       ELSE "batch_range")
              /\ UNCHANGED <<slow, pos, batch, got, free>>
    /\ UNCHANGED <<head_seq, tail_seq, nodes>>

\* Mutant: the claimed range is filled from the end of the batch.
BatchCasReversed(t) ==
    /\ pc[t] = "batch_cas"
    /\ \/ /\ head_seq = pos[t]
          /\ head_seq' = pos[t] + Len(batch[t])
          /\ idx' = [idx EXCEPT ![t] = 0]
          /\ batch' = [batch EXCEPT ![t] = [i \in 1..Len(batch[t]) |->
                                              batch[t][Len(batch[t]) + 1 - i]]]
          /\ Goto(t, "fill")
          /\ UNCHANGED <<slow, pos, got, free>>
       \/ /\ RetryBatch(t)
          /\ UNCHANGED head_seq
    /\ UNCHANGED <<tail_seq, nodes>>

\* head_seq_.compare_exchange_weak(head_was, head)
BatchCas(t) ==
    /\ pc[t] = "batch_cas"
    /\ \/ /\ head_seq = pos[t]
          /\ head_seq' = pos[t] + Len(batch[t])
          /\ idx' = [idx EXCEPT ![t] = 0]
          /\ Goto(t, "fill")
          /\ UNCHANGED <<slow, pos, batch, got, free>>
       \/ /\ RetryBatch(t)
          /\ UNCHANGED head_seq
    /\ UNCHANGED <<tail_seq, nodes>>

-----------------------------------------------------------------------------
\* Pop, PopSlow and Steal: PopIf with the predicate it is given

Pop(t) ==
    /\ pc[t] = "idle"
    /\ Goto(t, "pop_tail")
    /\ UNCHANGED <<head_seq, tail_seq, nodes, slow, pos, idx, batch, got, free>>

Steal(t) ==
    /\ pc[t] = "idle"
    /\ Goto(t, "steal_tail")
    /\ slow' = [slow EXCEPT ![t] = TRUE]
    /\ UNCHANGED <<head_seq, tail_seq, nodes, pos, idx, batch, got, free>>

\* auto tail = tail_seq_.load()
LoadTail(t) ==
    /\ pc[t] \in {"pop_tail", "steal_tail"}
    /\ pos' = [pos EXCEPT ![t] = tail_seq]
    /\ Goto(t, IF pc[t] = "pop_tail" THEN "pop_seq" ELSE "steal_seq")
    /\ UNCHANGED <<head_seq, tail_seq, nodes, slow, idx, batch, got, free>>

\* Pop falls back to PopSlow, PopIf goes round its loop.
RetryPop(t) ==
    /\ Goto(t, IF pc[t] \in {"pop_seq", "pop_cas"} THEN "pop_tail"
                                                   ELSE "steal_tail")
    /\ slow' = [slow EXCEPT ![t] = TRUE]
    /\ pos' = [pos EXCEPT ![t] = 0]
    /\ UNCHANGED <<idx, batch, got>>

\* auto nseq = n.seq.load() and the branch on it.
PopLoadSeq(t) ==
    /\ pc[t] \in {"pop_seq", "steal_seq"}
    /\ \/ /\ SeqOf(pos[t]) = pos[t] + 1
          /\ Goto(t, IF pc[t] = "pop_seq" THEN "pop_cas" ELSE "steal_test")
          /\ UNCHANGED <<slow, pos, idx, batch, got>>
       \/ /\ SeqOf(pos[t]) = pos[t]             \* underrun: nullptr
          /\ Return(t)
       \/ /\ SeqOf(pos[t]) \notin {pos[t], pos[t] + 1}
          /\ RetryPop(t)
    /\ UNCHANGED <<head_seq, tail_seq, nodes, free>>

\* Mutant: the predicate is not tested.
StealNoTest(t) ==
    /\ pc[t] = "steal_test"
    /\ Goto(t, "steal_cas")
    /\ UNCHANGED <<head_seq, tail_seq, nodes, slow, pos, idx, batch, got, free>>

\* The predicate is tested before ownership is claimed.
StealTest(t) ==
    /\ pc[t] = "steal_test"
    /\ \/ /\ nodes[Slot(pos[t])].instealable
          /\ Return(t)
       \/ /\ ~nodes[Slot(pos[t])].instealable
          /\ Goto(t, "steal_cas")
          /\ UNCHANGED <<slow, pos, idx, batch, got>>
    /\ UNCHANGED <<head_seq, tail_seq, nodes, free>>

\* Mutant: the claim is a plain store.
PopStore(t) ==
    /\ pc[t] \in {"pop_cas", "steal_cas"}
    /\ tail_seq' = pos[t] + 1
    /\ Goto(t, "read")
    /\ UNCHANGED <<head_seq, nodes, slow, pos, idx, batch, got, free>>

\* tail_seq_.compare_exchange(tail, tail + 1), weak in PopIf.
PopCas(t) ==
    /\ pc[t] \in {"pop_cas", "steal_cas"}
    /\ \/ /\ tail_seq = pos[t]
          /\ tail_seq' = pos[t] + 1
          /\ Goto(t, "read")
          /\ UNCHANGED <<slow, pos, idx, batch, got>>
       \/ /\ tail_seq # pos[t] \/ slow[t]
          /\ RetryPop(t)
          /\ UNCHANGED tail_seq
    /\ UNCHANGED <<head_seq, nodes, free>>

\* auto rc = n.fiber
Read(t) ==
    /\ pc[t] = "read"
    /\ got' = [got EXCEPT ![t] = nodes[Slot(pos[t])].fiber]
    /\ Goto(t, "reset")
    /\ UNCHANGED <<head_seq, tail_seq, nodes, slow, pos, idx, batch, free>>

\* n.seq.store(tail + capacity_, release); return rc
Reset(t) ==
    /\ pc[t] = "reset"
    /\ nodes' = [nodes EXCEPT ![Slot(pos[t])].seq = pos[t] + Capacity]
    /\ free' = free \cup {got[t]}
    /\ Return(t)
    /\ UNCHANGED <<head_seq, tail_seq>>

-----------------------------------------------------------------------------
Step(t) ==
    \/ LoadHead(t) \/ PushLoadSeq(t) \/ PushCas(t) \/ Fill(t) \/ Publish(t)
    \/ BatchLoadLast(t) \/ BatchCheckRange(t) \/ BatchCas(t)
    \/ LoadTail(t) \/ PopLoadSeq(t) \/ StealTest(t) \/ PopCas(t)
    \/ Read(t) \/ Reset(t)

Next ==
    \/ \E t \in Pushers, e \in Entities : Push(t, e)
    \/ \E t \in Pushers, b \in Batches : BatchPush(t, b)
    \/ \E t \in Poppers : Pop(t) \/ Steal(t)
    \/ \E t \in Threads : Step(t)

Spec == Init /\ [][Next]_vars

-----------------------------------------------------------------------------
\* Properties

TypeOK ==
    /\ head_seq \in Nat
    /\ tail_seq \in Nat
    /\ nodes \in [0..(Capacity - 1) ->
                  [seq : Nat, fiber : Entities \cup {None}, instealable : BOOLEAN]]
    /\ pc \in [Threads -> {"idle", "push_head", "push_seq", "push_cas", "fill",
                           "publish", "batch_head", "batch_last", "batch_range",
                           "batch_cas", "pop_tail", "pop_seq", "pop_cas",
                           "steal_tail", "steal_seq", "steal_test",
                           "steal_cas", "read", "reset"}]
    /\ slow \in [Threads -> BOOLEAN]
    /\ pos \in [Threads -> Nat]
    /\ idx \in [Threads -> Nat]
    /\ batch \in [Threads -> Seq(Entities)]
    /\ got \in [Threads -> Entities \cup {None}]
    /\ free \in SUBSET (Entities \cup {None})

Filling(t) == pc[t] \in {"fill", "publish"}
Popping(t) == pc[t] \in {"read", "reset"}

\* The positions whose node thread t is entitled to read or write plainly.
Owned(t) ==
    IF Filling(t) THEN (pos[t] + idx[t])..(pos[t] + Len(batch[t]) - 1)
    ELSE IF Popping(t) THEN {pos[t]} ELSE {}

\* No data race on a node: the plain accesses to `fiber` between claiming a
\* position and the releasing store to `seq` are exclusive, also between a
\* popper that is slow to reset a node and the pusher of the next lap.
SlotExclusive ==
    \A t, u \in Threads : t # u =>
        \A p \in Owned(t), q \in Owned(u) : Slot(p) # Slot(q)

\* FLARE_CHECK_EQ(n.seq, head_was + i) of BatchPush, and what Push silently
\* relies on: a claimed node is clean when it is filled.
ClaimedIsClean ==
    \A t \in Threads : Filling(t) => SeqOf(pos[t] + idx[t]) = pos[t] + idx[t]

\* The CAS of a thief that will succeed takes an entity that was not pushed
\* with `instealable` set, although the flag was tested before the claim.
StealOnlyStealable ==
    \A t \in Threads : pc[t] = "steal_cas" /\ tail_seq = pos[t] =>
        nodes[Slot(pos[t])].fiber \notin Local

\* The inductive invariant behind the three properties above. The window
\* tail_seq..tail_seq + Capacity - 1 has one position per slot, and who owns a
\* position determines the sequence number in its slot.
Window ==
    /\ tail_seq <= head_seq
    /\ head_seq <= tail_seq + Capacity
    /\ \A p \in tail_seq..(head_seq - 1) :
          SeqOf(p) = IF \E t \in Threads : Filling(t) /\ p \in Owned(t)
                     THEN p ELSE p + 1
    /\ \A p \in head_seq..(tail_seq + Capacity - 1) :
          SeqOf(p) = IF \E t \in Threads : Popping(t) /\ pos[t] + Capacity = p
                     THEN p + 1 - Capacity ELSE p

\* Claimed positions lie between the two counters, and have one owner.
Ownership ==
    /\ \A t \in Threads :
         /\ Filling(t) => /\ tail_seq <= pos[t] + idx[t]
                          /\ idx[t] < Len(batch[t])
                          /\ pos[t] + Len(batch[t]) <= head_seq
         /\ Popping(t) => /\ pos[t] < tail_seq
                          /\ head_seq <= pos[t] + Capacity
    /\ \A t, u \in Threads : t # u => Owned(t) \cap Owned(u) = {}

\* Sequence numbers never fall behind the counters nor run ahead of them.
SeqBounds ==
    /\ \A s \in 0..(Capacity - 1) : nodes[s].seq <= tail_seq + Capacity
    /\ \A p \in 0..(head_seq - 1) : SeqOf(p) >= p
    /\ \A p \in 0..(tail_seq - 1) : SeqOf(p) >= p + 1

\* What a thread has learnt from the nodes is true for as long as the counter
\* it is going to compare-and-swap is the one it loaded.
Knows(t) ==
    /\ pc[t] \in {"push_seq", "push_cas", "batch_last", "batch_range",
                  "batch_cas"} => pos[t] <= head_seq
    /\ pc[t] \in {"push_head", "push_seq", "push_cas"} =>
          Len(batch[t]) = 1 /\ idx[t] = 0
    /\ pc[t] = "push_cas" /\ pos[t] = head_seq => SeqOf(pos[t]) = pos[t]
    /\ pc[t] \in {"batch_head", "batch_last"} => idx[t] = 0 /\ Len(batch[t]) > 0
    /\ pc[t] = "batch_range" => idx[t] < Len(batch[t])
    /\ pc[t] = "batch_cas" => idx[t] = Len(batch[t]) /\ Len(batch[t]) > 0
    /\ pc[t] \in {"batch_range", "batch_cas"} /\ pos[t] = head_seq =>
          /\ pos[t] + Len(batch[t]) < tail_seq + Capacity
          /\ \A p \in pos[t]..(pos[t] + idx[t] - 1) : SeqOf(p) = p
    /\ pc[t] \in {"pop_seq", "pop_cas", "steal_seq", "steal_test",
                  "steal_cas"} => pos[t] <= tail_seq
    /\ pc[t] \in {"pop_cas", "steal_test", "steal_cas"} /\ pos[t] = tail_seq =>
          SeqOf(pos[t]) = pos[t] + 1
    /\ pc[t] = "steal_cas" /\ pos[t] = tail_seq =>
          nodes[Slot(pos[t])].fiber \notin Local

FlagMatches ==
    \A s \in 0..(Capacity - 1) :
        nodes[s].instealable <=> nodes[s].fiber \in Local

RingInv ==
    /\ TypeOK /\ Window /\ Ownership /\ SeqBounds /\ FlagMatches
    /\ \A t \in Threads : Knows(t) /\ (pc[t] = "idle" => idx[t] = 0)

\* "This method is linearized at the instant when `n.seq` is loaded": a Push
\* that reports an overrun does it at a moment when all Capacity nodes are
\* occupied or still being reset, and a Pop or Steal that reports an empty
\* queue at a moment when the oldest position is unclaimed or unpublished.
LinearizedAtSeqLoad ==
    [][\A t \in Threads : pc'[t] = "idle" =>
        /\ pc[t] = "push_seq" =>
             /\ head_seq = pos[t]
             /\ \/ head_seq = tail_seq + Capacity
                \/ \E u \in Threads : Popping(u) /\ pos[u] + Capacity = head_seq
        /\ pc[t] \in {"pop_seq", "steal_seq"} =>
             /\ tail_seq = pos[t]
             /\ \/ head_seq = tail_seq
                \/ \E u \in Threads : Filling(u) /\ tail_seq \in Owned(u)]_vars

\* What the ring implements: see RunQueueSpec. A position that is claimed but
\* not yet published holds the entity its claimant is about to store.
CellAt(p) ==
    IF SeqOf(p) = p + 1
    THEN [entity |-> nodes[Slot(p)].fiber, ready |-> TRUE]
    ELSE LET t == CHOOSE t \in Threads : Filling(t) /\ p \in Owned(t)
         IN  [entity |-> batch[t][p - pos[t] + 1], ready |-> FALSE]

Abstract == INSTANCE RunQueueSpec WITH
    cells <- [k \in 1..(head_seq - tail_seq) |-> CellAt(tail_seq + k - 1)],
    hand <- [t \in Threads |->
               IF pc[t] = "read" THEN nodes[Slot(pos[t])].fiber ELSE got[t]]

\* Refinement: the ring is a bounded FIFO queue of cells that are reserved in
\* order, published in any order and taken in order, oldest first.
ImplementsQueue == Abstract!Spec
=============================================================================
