---------------------------- MODULE RunQueueSpec ----------------------------
(***************************************************************************)
(* What flare/fiber/detail/run_queue.h promises its callers: a bounded     *)
(* FIFO queue. A push first reserves its cell (or, for a batch, a run of   *)
(* adjacent cells) and later makes it ready; a pop takes the oldest cell,  *)
(* which it can only do once that cell is ready.                           *)
(***************************************************************************)
EXTENDS Integers, Sequences

CONSTANTS Threads, Entities, Batches, Capacity, None

VARIABLES
    cells,      \* the queue, oldest first: [entity, ready]
    hand        \* the entity a popper has taken and not yet returned

Init ==
    /\ cells = <<>>
    /\ hand = [t \in Threads |-> None]

\* A single push, or a batch, takes the next free cells.
Reserve(b) ==
    /\ Len(cells) + Len(b) <= Capacity
    /\ cells' = cells \o [i \in 1..Len(b) |-> [entity |-> b[i], ready |-> FALSE]]
    /\ UNCHANGED hand

MakeReady(k) ==
    /\ ~cells[k].ready
    /\ cells' = [cells EXCEPT ![k].ready = TRUE]
    /\ UNCHANGED hand

\* Pop or Steal.
Take(t) ==
    /\ hand[t] = None
    /\ cells # <<>> /\ cells[1].ready
    /\ hand' = [hand EXCEPT ![t] = cells[1].entity]
    /\ cells' = Tail(cells)

Return(t) ==
    /\ hand[t] # None
    /\ hand' = [hand EXCEPT ![t] = None]
    /\ UNCHANGED cells

Next ==
    \/ \E b \in {<<e>> : e \in Entities} \cup Batches : Reserve(b)
    \/ \E k \in 1..Len(cells) : MakeReady(k)
    \/ \E t \in Threads : Take(t) \/ Return(t)

Spec == Init /\ [][Next]_<<cells, hand>>
=============================================================================
