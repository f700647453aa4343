--------------------------- MODULE RunQueueProofs ---------------------------
(***************************************************************************)
(* Proofs about RunQueue, part two: the accesses to claimed nodes, and the *)
(* stores that publish or release them, keep the ring invariant; RingInv is*)
(* inductive, and the properties of RunQueue follow from it.               *)
(***************************************************************************)
EXTENDS RunQueueSteps

-----------------------------------------------------------------------------
\* Using and giving up claimed positions

\* Reading the fiber out of a claimed node keeps the ring invariant.
LEMMA ReadStep ==
    ASSUME RingInv, NEW t \in Threads, Read(t)
    PROVE  RingInv'
<1> USE ZenonT(40)
<1>1. TypeOK
  BY DEF RingInv
<1>2. nodes[Slot(pos[t])].fiber \in Entities \cup {None}
  BY <1>1, LapAndSlot DEF TypeOK
<1>3. TypeOK'
  BY <1>1, <1>2 DEF TypeOK, Read, Goto
<1>4. ASSUME NEW u \in Threads
      PROVE  /\ Filling(u)' <=> Filling(u)
             /\ Popping(u)' <=> Popping(u)
             /\ Owned(u)' = Owned(u)
             /\ pc'[u] # pc[u] => pc'[u] = "reset"
  BY <1>1 DEF TypeOK, Read, Goto, Filling, Popping, Owned
<1>5. \A p : SeqOf(p)' = SeqOf(p)
  BY DEF Read, SeqOf
<1>6. Window'
  <2>1. UNCHANGED <<head_seq, tail_seq, pos>>
    BY DEF Read
  <2>2. \A p : (\E u \in Threads : Filling(u)' /\ p \in Owned(u)') <=>
               (\E u \in Threads : Filling(u) /\ p \in Owned(u))
    BY <1>4
  <2>3. \A p : (\E u \in Threads : Popping(u)' /\ pos'[u] + Capacity = p) <=>
               (\E u \in Threads : Popping(u) /\ pos[u] + Capacity = p)
    BY <1>4, <2>1
  <2> QED
    BY <1>5, <2>1, <2>2, <2>3, SMT DEF RingInv, Window
<1>7. Ownership'
  BY <1>4 DEF RingInv, Ownership, Read
<1>8. SeqBounds' /\ FlagMatches'
  BY <1>5 DEF RingInv, SeqBounds, FlagMatches, Read
<1>9. ASSUME NEW u \in Threads
      PROVE  Knows(u)' /\ (pc[u] = "idle" => idx[u] = 0)'
  <2>1. CASE pc'[u] = pc[u]
    <3>1. Knows(u) /\ (pc[u] = "idle" => idx[u] = 0)
      BY DEF RingInv
    <3>2. UNCHANGED <<head_seq, tail_seq, nodes, pos, idx, batch>>
      BY DEF Read
    <3> QED
      BY <1>5, <2>1, <3>1, <3>2, SMT DEF Knows
  <2>2. CASE pc'[u] = "reset"
    BY <2>2 DEF Knows
  <2> QED
    BY <1>4, <2>1, <2>2
<1> QED
  BY <1>3, <1>6, <1>7, <1>8, <1>9 DEF RingInv

\* The position a filler is working on is inside the queue and unpublished.
LEMMA FillPosition ==
    ASSUME RingInv, NEW t \in Threads, Filling(t)
    PROVE  LET q == pos[t] + idx[t]
           IN  /\ q \in Nat /\ tail_seq <= q /\ q < head_seq
               /\ q \in Owned(t) /\ SeqOf(q) = q
               /\ idx[t] < Len(batch[t])
<1> DEFINE q == pos[t] + idx[t]
<1>1. /\ tail_seq <= q /\ idx[t] < Len(batch[t])
      /\ pos[t] + Len(batch[t]) <= head_seq
      /\ Owned(t) = q..(pos[t] + Len(batch[t]) - 1)
  BY Zenon DEF RingInv, Ownership, Owned
<1>2. /\ pos[t] \in Nat /\ idx[t] \in Nat /\ Len(batch[t]) \in Nat
      /\ head_seq \in Nat /\ tail_seq \in Nat
  BY DEF RingInv, TypeOK
<1>3. q \in Nat /\ q \in Owned(t) /\ q < pos[t] + Len(batch[t])
  BY <1>1, <1>2, FirstOfRange, Zenon
<1>4. q < head_seq /\ q \in tail_seq..(head_seq - 1)
  BY <1>1, <1>2, <1>3, BetweenCounters, Zenon
<1>5. SeqOf(q) = q
  BY <1>3, <1>4, Zenon DEF RingInv, Window
<1> QED
  BY <1>1, <1>3, <1>4, <1>5, Zenon

\* Filling a claimed node does.
LEMMA FillStep ==
    ASSUME RingInv, Capacity >= 2, NEW t \in Threads, Fill(t)
    PROVE  RingInv'
<1> USE ZenonT(40)
<1> DEFINE q == pos[t] + idx[t]
           e == batch[t][idx[t] + 1]
<1>1. TypeOK /\ Filling(t)
  BY DEF RingInv, Fill, Filling
<1>2. /\ q \in Nat /\ tail_seq <= q /\ q < head_seq /\ SeqOf(q) = q
      /\ idx[t] < Len(batch[t]) /\ Slot(q) \in 0..(Capacity - 1)
  BY <1>1, FillPosition, LapAndSlot
<1>3. e \in Entities
  BY <1>1, <1>2, SMT DEF TypeOK
<1>4. /\ nodes' = [nodes EXCEPT ![Slot(q)] =
                     [nodes[Slot(q)] EXCEPT !.fiber = e, !.instealable = e \in Local]]
  BY <1>1, <1>2 DEF TypeOK, Fill
<1>5. nodes' \in [0..(Capacity - 1) ->
                    [seq : Nat, fiber : Entities \cup {None}, instealable : BOOLEAN]]
  <2>1. CASE e \in Local
    <3>1. nodes' = [nodes EXCEPT ![Slot(q)] =
                      [nodes[Slot(q)] EXCEPT !.fiber = e, !.instealable = TRUE]]
      BY <1>4, <2>1
    <3> QED
      BY <1>1, <1>2, <1>3, <3>1, ZenonT(60) DEF TypeOK
  <2>2. CASE e \notin Local
    <3>1. (e \in Local) = FALSE
      BY <2>2, SMT
    <3>2. nodes' = [nodes EXCEPT ![Slot(q)] =
                      [nodes[Slot(q)] EXCEPT !.fiber = e, !.instealable = FALSE]]
      BY <1>4, <3>1
    <3> QED
      BY <1>1, <1>2, <1>3, <3>2, ZenonT(60) DEF TypeOK
  <2> QED
    BY <2>1, <2>2
<1>6. TypeOK'
  BY <1>1, <1>5 DEF TypeOK, Fill, Goto
<1>7. ASSUME NEW u \in Threads
      PROVE  /\ Filling(u)' <=> Filling(u)
             /\ Popping(u)' <=> Popping(u)
             /\ Owned(u)' = Owned(u)
             /\ pc'[u] # pc[u] => pc'[u] = "publish"
  BY <1>1 DEF TypeOK, Fill, Goto, Filling, Popping, Owned
<1>8. /\ \A s \in 0..(Capacity - 1) : nodes'[s].seq = nodes[s].seq
      /\ \A s \in 0..(Capacity - 1) : s # Slot(q) => nodes'[s] = nodes[s]
      /\ nodes'[Slot(q)].fiber = e
      /\ nodes'[Slot(q)].instealable <=> e \in Local
  BY <1>1, <1>2, <1>4, ZenonT(60) DEF TypeOK
<1>9. \A p \in Nat : SeqOf(p)' = SeqOf(p)
  BY <1>8, LapAndSlot DEF SeqOf
<1>10. head_seq \in Nat /\ tail_seq \in Nat
  BY <1>1 DEF TypeOK
<1>11. Window'
  <2>1. \A p \in tail_seq..(head_seq - 1) : p \in Nat
    BY <1>10, SMT
  <2>2. \A p \in head_seq..(tail_seq + Capacity - 1) : p \in Nat
    BY <1>10, CapacityAssumption, SMT
  <2> QED
    BY <1>7, <1>9, <2>1, <2>2, SMT DEF RingInv, Window, Fill
<1>12. Ownership'
  BY <1>7 DEF RingInv, Ownership, Fill
<1>13. SeqBounds'
  <2>1. \A p \in 0..(head_seq - 1) : p \in Nat
    BY <1>10, SMT
  <2>2. \A p \in 0..(tail_seq - 1) : p \in Nat
    BY <1>10, SMT
  <2> QED
    BY <1>8, <1>9, <2>1, <2>2 DEF RingInv, SeqBounds, Fill
<1>14. FlagMatches'
  BY <1>8 DEF RingInv, FlagMatches
<1>15. ASSUME NEW u \in Threads
       PROVE  Knows(u)' /\ (pc[u] = "idle" => idx[u] = 0)'
  <2>1. CASE pc'[u] # pc[u]
    BY <1>7, <2>1 DEF Knows
  <2>2. CASE pc'[u] = pc[u]
    <3>1. pos[u] \in Nat /\ \A p \in pos[u]..(pos[u] + idx[u] - 1) : p \in Nat
      BY <1>1, SMT DEF TypeOK
    <3>2. pc[u] = "steal_cas" /\ pos[u] = tail_seq =>
            nodes'[Slot(pos[u])] = nodes[Slot(pos[u])]
      <4> SUFFICES ASSUME pc[u] = "steal_cas", pos[u] = tail_seq
                   PROVE  nodes'[Slot(pos[u])] = nodes[Slot(pos[u])]
        OBVIOUS
      <4>1. SeqOf(tail_seq) = tail_seq + 1
        BY DEF RingInv, Knows
      <4>2. tail_seq # q
        BY <1>2, <1>10, <4>1, SMT
      <4>3. Slot(tail_seq) # Slot(q)
        BY <1>2, <1>10, <4>2, SlotInjective, CapacityAssumption, SMT DEF RingInv, Window
      <4> QED
        BY <1>8, <1>10, <4>3, LapAndSlot
    <3> QED
      BY <1>9, <2>2, <3>1, <3>2 DEF RingInv, Knows, Fill
  <2> QED
    BY <2>1, <2>2
<1> QED
  BY <1>6, <1>11, <1>12, <1>13, <1>14, <1>15 DEF RingInv

\* A releasing store of v to the seq of the slot of window position w, by the
\* thread t that owns it, disturbs nothing that other threads rely on.
LEMMA SeqStore ==
    ASSUME RingInv, Capacity >= 2, NEW t \in Threads, NEW w \in Nat, NEW v \in Nat,
           tail_seq <= w, w < tail_seq + Capacity,
           w < head_seq => SeqOf(w) = w,
           w >= head_seq => SeqOf(w) = w + 1 - Capacity,
           SeqOf(w) <= v, v <= tail_seq + Capacity,
           nodes' = [nodes EXCEPT ![Slot(w)].seq = v],
           UNCHANGED <<head_seq, tail_seq>>,
           \A u \in Threads \ {t} : /\ pc'[u] = pc[u] /\ pos'[u] = pos[u]
                                    /\ idx'[u] = idx[u] /\ batch'[u] = batch[u]
    PROVE  /\ nodes' \in [0..(Capacity - 1) ->
                [seq : Nat, fiber : Entities \cup {None}, instealable : BOOLEAN]]
           /\ SeqOf(w)' = v
           /\ \A p \in Nat : tail_seq <= p /\ p < tail_seq + Capacity /\ p # w
                                => SeqOf(p)' = SeqOf(p)
           /\ SeqBounds' /\ FlagMatches'
           /\ \A u \in Threads \ {t} : Knows(u)'
<1>1. /\ TypeOK /\ head_seq \in Nat /\ tail_seq \in Nat
      /\ Slot(w) \in 0..(Capacity - 1)
      /\ \A u \in Threads : pos[u] \in Nat /\ idx[u] \in Nat /\ Len(batch[u]) \in Nat
  BY LapAndSlot, SMTT(30) DEF RingInv, TypeOK
<1>2. /\ nodes' \in [0..(Capacity - 1) ->
            [seq : Nat, fiber : Entities \cup {None}, instealable : BOOLEAN]]
      /\ \A s \in 0..(Capacity - 1) :
            /\ nodes'[s].fiber = nodes[s].fiber
            /\ nodes'[s].instealable = nodes[s].instealable
            /\ nodes'[s].seq = IF s = Slot(w) THEN v ELSE nodes[s].seq
  BY <1>1, ZenonT(60) DEF TypeOK
<1>3. \A p \in Nat : SeqOf(p)' = IF Slot(p) = Slot(w) THEN v ELSE SeqOf(p)
  BY <1>2, LapAndSlot, Zenon DEF SeqOf
<1>4. SeqOf(w)' = v
  BY <1>3, Zenon
<1>5. ASSUME NEW p \in Nat, tail_seq <= p, p < tail_seq + Capacity, p # w
      PROVE  SeqOf(p)' = SeqOf(p)
  <2>1. Slot(p) # Slot(w)
    BY <1>1, <1>5, SlotInjective, CapacityAssumption
  <2> QED
    BY <1>3, <2>1, Zenon
<1>6. SeqBounds'
  <2>1. \A s \in 0..(Capacity - 1) : nodes'[s].seq <= tail_seq' + Capacity
    BY <1>2 DEF RingInv, SeqBounds
  <2>2. \A p \in Nat : SeqOf(p)' >= SeqOf(p) /\ SeqOf(p) \in Nat /\ SeqOf(p)' \in Nat
    BY <1>1, <1>3, LapAndSlot, SMTT(30) DEF SeqOf, TypeOK
  <2>3. \A p \in 0..(head_seq - 1) : SeqOf(p)' >= p
    <3> TAKE p \in 0..(head_seq - 1)
    <3>1. p \in Nat /\ SeqOf(p) >= p
      BY <1>1 DEF RingInv, SeqBounds
    <3> QED
      BY <2>2, <3>1
  <2>4. \A p \in 0..(tail_seq - 1) : SeqOf(p)' >= p + 1
    <3> TAKE p \in 0..(tail_seq - 1)
    <3>1. p \in Nat /\ SeqOf(p) >= p + 1
      BY <1>1 DEF RingInv, SeqBounds
    <3> QED
      BY <2>2, <3>1
  <2> QED
    BY <2>1, <2>3, <2>4, Zenon DEF SeqBounds
<1>7. FlagMatches'
  BY <1>2 DEF RingInv, FlagMatches
<1>8. ASSUME NEW p \in Nat, head_seq <= p, p < tail_seq + Capacity, SeqOf(p) = p
      PROVE  SeqOf(p)' = p
  <2>1. p # w
    BY <1>1, <1>8, CapacityAssumption
  <2> QED
    BY <1>1, <1>5, <1>8, <2>1 DEF RingInv, Window
<1>9. ASSUME SeqOf(tail_seq) = tail_seq + 1
      PROVE  SeqOf(tail_seq)' = tail_seq + 1
  <2>1. tail_seq # w
    BY <1>1, <1>9, CapacityAssumption
  <2> QED
    BY <1>1, <1>5, <1>9, <2>1, CapacityAssumption
<1>10. ASSUME NEW u \in Threads \ {t}
       PROVE  Knows(u)'
  <2>1. pc[u] = "push_cas" /\ pos[u] = head_seq => SeqOf(pos[u])' = pos[u]
    <3> SUFFICES ASSUME pc[u] = "push_cas", pos[u] = head_seq
                 PROVE  SeqOf(pos[u])' = pos[u]
      BY Zenon
    <3>1. SeqOf(head_seq) = head_seq
      BY Zenon DEF RingInv, Knows
    <3>2. head_seq < tail_seq + Capacity
      BY <1>1, <3>1, CleanInWindow
    <3> QED
      BY <1>1, <1>8, <3>1, <3>2
  <2>2. pc[u] \in {"batch_range", "batch_cas"} /\ pos[u] = head_seq =>
           \A p \in pos[u]..(pos[u] + idx[u] - 1) : SeqOf(p)' = p
    <3> SUFFICES ASSUME pc[u] \in {"batch_range", "batch_cas"}, pos[u] = head_seq,
                        NEW p \in pos[u]..(pos[u] + idx[u] - 1)
                 PROVE  SeqOf(p)' = p
      BY Zenon
    <3>1. /\ SeqOf(p) = p /\ pos[u] + Len(batch[u]) < tail_seq + Capacity
          /\ idx[u] <= Len(batch[u])
      <4>1. Knows(u)
        BY Zenon DEF RingInv
      <4>2. /\ pos[u] + Len(batch[u]) < tail_seq + Capacity
            /\ \A q \in pos[u]..(pos[u] + idx[u] - 1) : SeqOf(q) = q
        BY <4>1, Zenon DEF Knows
      <4>3. idx[u] < Len(batch[u]) \/ idx[u] = Len(batch[u])
        BY <4>1, Zenon DEF Knows
      <4>4. idx[u] <= Len(batch[u])
        BY <1>1, <4>3
      <4> QED
        BY <4>2, <4>4, Zenon
    <3>2. /\ head_seq \in Nat /\ tail_seq \in Nat
          /\ idx[u] \in Nat /\ Len(batch[u]) \in Nat
      BY <1>1, Zenon
    <3>3. p \in head_seq..(head_seq + idx[u] - 1)
      BY Zenon
    <3>4. p \in Nat /\ head_seq <= p /\ p < head_seq + idx[u]
      BY <3>2, <3>3
    <3>5. p < tail_seq + Capacity
      <4>1. head_seq + Len(batch[u]) < tail_seq + Capacity /\ idx[u] <= Len(batch[u]) /\ Capacity \in Nat
        BY <3>1, CapacityAssumption, Zenon
      <4> QED
        BY <3>2, <3>4, <4>1, SMTT(30)
    <3> QED
      BY <1>8, <3>1, <3>4, <3>5, Zenon
  <2>3. pc[u] \in {"pop_cas", "steal_test", "steal_cas"} /\ pos[u] = tail_seq =>
          SeqOf(pos[u])' = pos[u] + 1
    BY <1>9, Zenon DEF RingInv, Knows
  <2>4. nodes'[Slot(pos[u])].fiber = nodes[Slot(pos[u])].fiber
    BY <1>1, <1>2, LapAndSlot, Zenon
  <2>5. SeqOf(pos[u])' = nodes'[Slot(pos'[u])].seq
    BY Zenon DEF SeqOf
  <2> QED
    BY <2>1, <2>2, <2>3, <2>4, SMTT(30) DEF RingInv, Knows, SeqOf
<1> QED
  BY <1>2, <1>4, <1>5, <1>6, <1>7, <1>10, Zenon

\* Publishing it with the store of its sequence number does.
LEMMA PublishStep ==
    ASSUME RingInv, Capacity >= 2, NEW t \in Threads, Publish(t)
    PROVE  RingInv'
<1> USE ZenonT(40)
<1>0. PICK q \in Nat : q = pos[t] + idx[t]
  BY SMT DEF RingInv, TypeOK
<1>1. /\ TypeOK /\ Filling(t) /\ ~Popping(t)
      /\ head_seq \in Nat /\ tail_seq \in Nat
      /\ \A u \in Threads : pos[u] \in Nat /\ idx[u] \in Nat /\ Len(batch[u]) \in Nat
  <2>1. TypeOK /\ Filling(t) /\ ~Popping(t)
    BY DEF RingInv, Publish, Filling, Popping
  <2> QED
    BY <2>1, SMT DEF TypeOK
<1>2. /\ q \in Nat /\ tail_seq <= q /\ q < head_seq /\ q < tail_seq + Capacity
      /\ q \in Owned(t) /\ SeqOf(q) = q /\ q + 1 <= tail_seq + Capacity
  <2>1. /\ tail_seq <= q /\ q < head_seq /\ q \in Owned(t) /\ SeqOf(q) = q
    BY <1>0, <1>1, FillPosition
  <2> QED
    BY <2>1, Counters, SMT
<1>3. /\ \A u \in Threads \ {t} :
           /\ pc'[u] = pc[u] /\ pos'[u] = pos[u] /\ idx'[u] = idx[u]
           /\ batch'[u] = batch[u]
           /\ Filling(u)' <=> Filling(u)
           /\ Popping(u)' <=> Popping(u)
           /\ Owned(u)' = Owned(u)
  <2>1. ASSUME NEW u \in Threads \ {t}
        PROVE  /\ pc'[u] = pc[u] /\ pos'[u] = pos[u] /\ idx'[u] = idx[u]
               /\ batch'[u] = batch[u]
    BY <1>1 DEF TypeOK, Publish, Return, Goto
  <2> QED
    BY <2>1 DEF Filling, Popping, Owned
<1>5. UNCHANGED <<head_seq, tail_seq>> /\ nodes' = [nodes EXCEPT ![Slot(q)].seq = q + 1]
  BY <1>0 DEF Publish
<1>4. /\ ~Popping(t)' /\ Owned(t)' = Owned(t) \ {q}
      /\ Filling(t)' \/ Owned(t)' = {}
      /\ Filling(t)' => /\ pos'[t] = pos[t] /\ idx'[t] = idx[t] + 1
                        /\ batch'[t] = batch[t] /\ idx[t] + 1 < Len(batch[t])
      /\ nodes' \in [0..(Capacity - 1) ->
            [seq : Nat, fiber : Entities \cup {None}, instealable : BOOLEAN]]
            => TypeOK'
      /\ Knows(t)' /\ (pc[t] = "idle" => idx[t] = 0)'
  <2>1. CASE /\ idx[t] + 1 < Len(batch[t])
             /\ idx' = [idx EXCEPT ![t] = idx[t] + 1]
             /\ Goto(t, "fill")
             /\ UNCHANGED <<slow, pos, batch, got>>
    <3>1. Owned(t)' = (q + 1)..(pos[t] + Len(batch[t]) - 1)
      BY <1>0, <1>1, <2>1, SMT DEF TypeOK, Goto, Owned, Filling
    <3>2. Owned(t) = q..(pos[t] + Len(batch[t]) - 1)
      BY <1>0, <1>1 DEF Owned
    <3>3. Owned(t)' = Owned(t) \ {q}
      BY <1>0, <1>1, <3>1, <3>2, SMT
    <3>4. nodes' \in [0..(Capacity - 1) ->
            [seq : Nat, fiber : Entities \cup {None}, instealable : BOOLEAN]]
            => TypeOK'
      <4>1. idx' \in [Threads -> Nat]
        BY <1>1, <2>1, SMT DEF TypeOK
      <4>2. pc' = [pc EXCEPT ![t] = "fill"]
        BY <2>1 DEF Goto
      <4>3. free' = free
        BY DEF Publish
      <4> QED
        BY <1>1, <1>5, <2>1, <4>1, <4>2, <4>3 DEF TypeOK
    <3>5. Knows(t)' /\ (pc[t] = "idle" => idx[t] = 0)'
      BY <1>1, <2>1 DEF TypeOK, Goto, Knows
    <3>6. /\ ~Popping(t)' /\ Filling(t)' /\ pos'[t] = pos[t]
          /\ idx'[t] = idx[t] + 1 /\ batch'[t] = batch[t]
      BY <1>1, <2>1 DEF TypeOK, Goto, Filling, Popping
    <3> QED
      BY <2>1, <3>3, <3>4, <3>5, <3>6
  <2>2. CASE idx[t] + 1 = Len(batch[t]) /\ Return(t)
    <3>1. ~Popping(t)' /\ ~Filling(t)' /\ Owned(t)' = {}
      BY <1>1, <2>2 DEF TypeOK, Return, Goto, Filling, Popping, Owned
    <3>2. Owned(t) = q..(pos[t] + Len(batch[t]) - 1)
      BY <1>0, <1>1 DEF Owned
    <3>3. pos[t] + Len(batch[t]) - 1 = q
      BY <1>0, <1>1, <2>2, SMT
    <3>4. Owned(t) \ {q} = {}
      BY <1>2, <3>2, <3>3, SMT
    <3>5. nodes' \in [0..(Capacity - 1) ->
            [seq : Nat, fiber : Entities \cup {None}, instealable : BOOLEAN]]
            => TypeOK'
      <4>1. <<>> \in Seq(Entities)
        BY SMT
      <4> QED
        BY <1>1, <2>2, <4>1 DEF TypeOK, Publish, Return, Goto
    <3>6. Knows(t)' /\ (pc[t] = "idle" => idx[t] = 0)'
      BY <1>1, <2>2 DEF TypeOK, Return, Goto, Knows
    <3> QED
      BY <3>1, <3>4, <3>5, <3>6
  <2> QED
    BY <2>1, <2>2 DEF Publish
<1>6. /\ nodes' \in [0..(Capacity - 1) ->
           [seq : Nat, fiber : Entities \cup {None}, instealable : BOOLEAN]]
      /\ SeqOf(q)' = q + 1
      /\ \A p \in Nat : tail_seq <= p /\ p < tail_seq + Capacity /\ p # q
                           => SeqOf(p)' = SeqOf(p)
      /\ SeqBounds' /\ FlagMatches'
      /\ \A u \in Threads \ {t} : Knows(u)'
  <2>1. q + 1 \in Nat /\ SeqOf(q) <= q + 1 /\ ~(q >= head_seq)
    BY <1>1, <1>2, SMT
  <2>2. q < head_seq => SeqOf(q) = q
    BY <1>2
  <2>3. q >= head_seq => SeqOf(q) = q + 1 - Capacity
    BY <2>1
  <2>4. \A u \in Threads \ {t} : /\ pc'[u] = pc[u] /\ pos'[u] = pos[u]
                                 /\ idx'[u] = idx[u] /\ batch'[u] = batch[u]
    BY <1>3
  <2>5. /\ q \in Nat /\ tail_seq <= q /\ q < tail_seq + Capacity
        /\ q + 1 <= tail_seq + Capacity
        /\ nodes' = [nodes EXCEPT ![Slot(q)].seq = q + 1]
        /\ UNCHANGED <<head_seq, tail_seq>>
    BY <1>2, <1>5
  <2> QED
    BY <2>1, <2>2, <2>3, <2>4, <2>5, SeqStore
<1>7. \A u \in Threads : u # t => Owned(u) \cap Owned(t) = {}
  BY DEF RingInv, Ownership
<1>8. Window'
  <2>1. tail_seq' <= head_seq' /\ head_seq' <= tail_seq' + Capacity
    BY <1>5 DEF RingInv, Window
  <2>2. ASSUME NEW p \in tail_seq..(head_seq - 1)
        PROVE  SeqOf(p)' = IF \E u \in Threads : Filling(u)' /\ p \in Owned(u)'
                           THEN p ELSE p + 1
    <3>1. CASE p = q
      <4>1. ~\E u \in Threads : Filling(u)' /\ p \in Owned(u)'
        BY <1>2, <1>3, <1>4, <1>7, <3>1
      <4> QED
        BY <1>6, <3>1, <4>1
    <3>2. CASE p # q
      <4>1. (\E u \in Threads : Filling(u)' /\ p \in Owned(u)') <=>
            (\E u \in Threads : Filling(u) /\ p \in Owned(u))
        <5>1. (Filling(t)' /\ p \in Owned(t)') <=> (Filling(t) /\ p \in Owned(t))
          BY <1>1, <1>4, <3>2
        <5>2. \A u \in Threads \ {t} :
                 (Filling(u)' /\ p \in Owned(u)') <=> (Filling(u) /\ p \in Owned(u))
          BY <1>3
        <5> QED
          BY <5>1, <5>2
      <4>2. p \in Nat /\ tail_seq <= p /\ p < tail_seq + Capacity
        BY <1>1, CapacityAssumption, SMT DEF RingInv, Window
      <4>3. SeqOf(p)' = SeqOf(p)
        BY <1>6, <3>2, <4>2
      <4> QED
        BY <4>1, <4>3 DEF RingInv, Window
    <3> QED
      BY <3>1, <3>2
  <2>3. ASSUME NEW p \in head_seq..(tail_seq + Capacity - 1)
        PROVE  SeqOf(p)' = IF \E u \in Threads : Popping(u)' /\ pos'[u] + Capacity = p
                           THEN p + 1 - Capacity ELSE p
    <3>1. p \in Nat /\ tail_seq <= p /\ p < tail_seq + Capacity /\ p # q
      BY <1>2, Counters, SMT
    <3>2. SeqOf(p)' = SeqOf(p)
      BY <1>6, <3>1
    <3>3. (\E u \in Threads : Popping(u)' /\ pos'[u] + Capacity = p) <=>
          (\E u \in Threads : Popping(u) /\ pos[u] + Capacity = p)
      BY <1>1, <1>3, <1>4
    <3> QED
      BY <3>2, <3>3 DEF RingInv, Window
  <2> QED
    BY <1>5, <2>1, <2>2, <2>3 DEF Window
<1>9. Ownership'
  <2>1. ASSUME NEW u \in Threads
        PROVE  /\ Filling(u)' => /\ tail_seq <= pos'[u] + idx'[u]
                                 /\ idx'[u] < Len(batch'[u])
                                 /\ pos'[u] + Len(batch'[u]) <= head_seq
               /\ Popping(u)' => /\ pos'[u] < tail_seq
                                 /\ head_seq <= pos'[u] + Capacity
    <3>1. CASE u = t
      <4>1. ~Popping(t)'
        BY <1>4
      <4>2. CASE Filling(t)'
        <5>1. /\ pos'[t] = pos[t] /\ idx'[t] = idx[t] + 1
              /\ batch'[t] = batch[t] /\ idx[t] + 1 < Len(batch[t])
          BY <1>4, <4>2
        <5>2. tail_seq <= pos[t] + idx[t] /\ pos[t] + Len(batch[t]) <= head_seq
          BY <1>1 DEF RingInv, Ownership
        <5>3. /\ pos[t] \in Nat /\ idx[t] \in Nat /\ Len(batch[t]) \in Nat
              /\ tail_seq \in Nat
          BY <1>1
        <5> QED
          BY <3>1, <4>1, <5>1, <5>2, <5>3, SMT
      <4> QED
        BY <3>1, <4>1, <4>2
    <3>2. CASE u # t
      BY <1>3, <3>2 DEF RingInv, Ownership
    <3> QED
      BY <3>1, <3>2
  <2>2. \A u, v \in Threads : u # v => Owned(u)' \cap Owned(v)' = {}
    <3>1. ASSUME NEW u \in Threads
          PROVE  Owned(u)' \subseteq Owned(u)
      BY <1>3, <1>4
    <3>2. ASSUME NEW u \in Threads, NEW v \in Threads, u # v
          PROVE  Owned(u) \cap Owned(v) = {}
      BY <3>2 DEF RingInv, Ownership
    <3> QED
      BY <3>1, <3>2
  <2> QED
    BY <1>5, <2>1, <2>2 DEF Ownership
<1>10. \A u \in Threads : Knows(u)' /\ (pc[u] = "idle" => idx[u] = 0)'
  BY <1>3, <1>4, <1>6 DEF RingInv
<1> QED
  BY <1>4, <1>6, <1>8, <1>9, <1>10 DEF RingInv

\* Handing it to the next lap does.
LEMMA ResetStep ==
    ASSUME RingInv, Capacity >= 2, NEW t \in Threads, Reset(t)
    PROVE  RingInv'
<1> USE ZenonT(40)
<1>0. PICK w \in Nat : w = pos[t] + Capacity
  BY CapacityAssumption, SMT DEF RingInv, TypeOK
<1>1. /\ TypeOK /\ Popping(t) /\ ~Filling(t)
      /\ head_seq \in Nat /\ tail_seq \in Nat
      /\ \A u \in Threads : pos[u] \in Nat
  BY DEF RingInv, TypeOK, Reset, Filling, Popping
<1>2. /\ tail_seq <= w /\ head_seq <= w /\ w < tail_seq + Capacity
      /\ SeqOf(w) = w + 1 - Capacity /\ SeqOf(w) <= w
  <2>1. head_seq <= w /\ pos[t] < tail_seq /\ tail_seq <= head_seq
    BY <1>0, <1>1 DEF RingInv, Ownership, Window
  <2>2. tail_seq <= w /\ w < tail_seq + Capacity
    BY <1>0, <1>1, <2>1, CapacityAssumption, SMT
  <2>3. w \in head_seq..(tail_seq + Capacity - 1)
    BY <1>1, <2>1, <2>2, CapacityAssumption, SMT
  <2>4. SeqOf(w) = w + 1 - Capacity
    BY <1>0, <1>1, <2>3 DEF RingInv, Window
  <2>5. SeqOf(w) <= w
    BY <2>4, CapacityAssumption, SMT
  <2> QED
    BY <2>1, <2>2, <2>4, <2>5
<1>3. \A u \in Threads \ {t} :
           /\ pc'[u] = pc[u] /\ pos'[u] = pos[u] /\ idx'[u] = idx[u]
           /\ batch'[u] = batch[u]
           /\ Filling(u)' <=> Filling(u)
           /\ Popping(u)' <=> Popping(u)
           /\ Owned(u)' = Owned(u)
  <2>1. ASSUME NEW u \in Threads \ {t}
        PROVE  /\ pc'[u] = pc[u] /\ pos'[u] = pos[u] /\ idx'[u] = idx[u]
               /\ batch'[u] = batch[u]
    BY <1>1 DEF TypeOK, Reset, Return, Goto
  <2> QED
    BY <2>1 DEF Filling, Popping, Owned
<1>4. /\ ~Popping(t)' /\ ~Filling(t)' /\ Owned(t)' = {}
      /\ Knows(t)' /\ (pc[t] = "idle" => idx[t] = 0)'
  BY <1>1 DEF TypeOK, Reset, Return, Goto, Filling, Popping, Owned, Knows
<1>5. UNCHANGED <<head_seq, tail_seq>> /\ nodes' = [nodes EXCEPT ![Slot(w)].seq = w]
  BY <1>0, <1>1, SlotWraps DEF Reset
<1>6. /\ nodes' \in [0..(Capacity - 1) ->
           [seq : Nat, fiber : Entities \cup {None}, instealable : BOOLEAN]]
      /\ SeqOf(w)' = w
      /\ \A p \in Nat : tail_seq <= p /\ p < tail_seq + Capacity /\ p # w
                           => SeqOf(p)' = SeqOf(p)
      /\ SeqBounds' /\ FlagMatches'
      /\ \A u \in Threads \ {t} : Knows(u)'
  <2>1. w <= tail_seq + Capacity /\ ~(w < head_seq)
    BY <1>1, <1>2, CapacityAssumption, SMT
  <2>2. \A u \in Threads \ {t} : /\ pc'[u] = pc[u] /\ pos'[u] = pos[u]
                                 /\ idx'[u] = idx[u] /\ batch'[u] = batch[u]
    BY <1>3
  <2> QED
    BY <1>2, <1>5, <2>1, <2>2, SeqStore
<1>7. TypeOK'
  <2>1. <<>> \in Seq(Entities)
    BY SMT
  <2>2. free' \in SUBSET (Entities \cup {None})
    BY <1>1 DEF TypeOK, Reset
  <2> QED
    BY <1>1, <1>5, <1>6, <2>1, <2>2 DEF TypeOK, Reset, Return, Goto
<1>8. Window'
  <2>1. tail_seq' <= head_seq' /\ head_seq' <= tail_seq' + Capacity
    BY <1>5 DEF RingInv, Window
  <2>2. ASSUME NEW p \in tail_seq..(head_seq - 1)
        PROVE  SeqOf(p)' = IF \E u \in Threads : Filling(u)' /\ p \in Owned(u)'
                           THEN p ELSE p + 1
    <3>1. p \in Nat /\ tail_seq <= p /\ p < tail_seq + Capacity /\ p # w
      BY <1>2, Counters, SMT
    <3>2. SeqOf(p)' = SeqOf(p)
      BY <1>6, <3>1
    <3>3. (\E u \in Threads : Filling(u)' /\ p \in Owned(u)') <=>
          (\E u \in Threads : Filling(u) /\ p \in Owned(u))
      BY <1>1, <1>3, <1>4
    <3> QED
      BY <3>2, <3>3 DEF RingInv, Window
  <2>3. ASSUME NEW p \in head_seq..(tail_seq + Capacity - 1)
        PROVE  SeqOf(p)' = IF \E u \in Threads : Popping(u)' /\ pos'[u] + Capacity = p
                           THEN p + 1 - Capacity ELSE p
    <3>1. CASE p = w
      <4>1. ASSUME NEW u \in Threads, Popping(u)', pos'[u] + Capacity = p
            PROVE  FALSE
        <5>1. u # t /\ Popping(u) /\ pos[u] = pos[t]
          <6>1. u # t
            BY <1>4, <4>1
          <6>2. Popping(u) /\ pos[u] + Capacity = pos[t] + Capacity
            BY <1>0, <1>3, <3>1, <4>1, <6>1
          <6>3. pos[u] \in Nat /\ pos[t] \in Nat
            BY <1>1
          <6> QED
            BY <6>1, <6>2, <6>3, Counters, SMT
        <5>2. ~Filling(u)
          BY <5>1 DEF Filling, Popping
        <5>3. pos[t] \in Owned(u) \cap Owned(t)
          BY <1>1, <5>1, <5>2 DEF Owned
        <5> QED
          BY <5>1, <5>3 DEF RingInv, Ownership
      <4> QED
        BY <1>6, <3>1, <4>1
    <3>2. CASE p # w
      <4>1. p \in Nat /\ tail_seq <= p /\ p < tail_seq + Capacity
        BY <1>1, CapacityAssumption, SMT DEF RingInv, Window
      <4>2. SeqOf(p)' = SeqOf(p)
        BY <1>6, <3>2, <4>1
      <4>3. (\E u \in Threads : Popping(u)' /\ pos'[u] + Capacity = p) <=>
            (\E u \in Threads : Popping(u) /\ pos[u] + Capacity = p)
        BY <1>0, <1>3, <1>4, <3>2
      <4> QED
        BY <4>2, <4>3 DEF RingInv, Window
    <3> QED
      BY <3>1, <3>2
  <2> QED
    BY <1>5, <2>1, <2>2, <2>3 DEF Window
<1>9. Ownership'
  <2>1. ASSUME NEW u \in Threads
        PROVE  /\ Filling(u)' => /\ tail_seq <= pos'[u] + idx'[u]
                                 /\ idx'[u] < Len(batch'[u])
                                 /\ pos'[u] + Len(batch'[u]) <= head_seq
               /\ Popping(u)' => /\ pos'[u] < tail_seq
                                 /\ head_seq <= pos'[u] + Capacity
    BY <1>3, <1>4 DEF RingInv, Ownership
  <2>2. \A u, v \in Threads : u # v => Owned(u)' \cap Owned(v)' = {}
    BY <1>3, <1>4 DEF RingInv, Ownership
  <2> QED
    BY <1>5, <2>1, <2>2 DEF Ownership
<1>10. \A u \in Threads : Knows(u)' /\ (pc[u] = "idle" => idx[u] = 0)'
  BY <1>3, <1>4, <1>6 DEF RingInv
<1> QED
  BY <1>6, <1>7, <1>8, <1>9, <1>10 DEF RingInv

-----------------------------------------------------------------------------
\* The ring invariant is inductive

\* An empty ring satisfies the ring invariant.
LEMMA InitRing ==
    ASSUME Init
    PROVE  RingInv
<1>1. TypeOK
  <2>1. <<>> \in Seq(Entities)
    OBVIOUS
  <2> QED
    BY <2>1 DEF Init, TypeOK
<1>2. \A t \in Threads : ~Filling(t) /\ ~Popping(t) /\ Owned(t) = {}
  BY Zenon DEF Init, Filling, Popping, Owned
<1>3. \A p \in 0..(Capacity - 1) : Slot(p) = p
  <2> TAKE p \in 0..(Capacity - 1)
  <2>1. p \in Nat /\ Slot(p) \in 0..(Capacity - 1) /\ Slot(p) \in Nat
    BY LapAndSlot, CapacityAssumption
  <2>2. p = Capacity * (p \div Capacity) + Slot(p) /\ p \div Capacity \in Nat
    BY <2>1, LapAndSlot, Zenon
  <2>3. p \div Capacity = 0
    BY <2>1, CapacityAssumption
  <2> QED
    BY <2>1, <2>2, <2>3, CapacityAssumption
<1>4. \A p \in 0..(Capacity - 1) : SeqOf(p) = p
  BY <1>3, Zenon DEF Init, SeqOf
<1>5. Window
  <2>1. head_seq = 0 /\ tail_seq = 0 /\ 0 <= Capacity
    BY CapacityAssumption DEF Init
  <2>2. \A p \in 0..(0 - 1) : FALSE
    OBVIOUS
  <2>3. 0 + Capacity - 1 = Capacity - 1
    BY CapacityAssumption
  <2> QED
    BY <1>2, <1>4, <2>1, <2>2, <2>3, CapacityAssumption DEF Window
<1>6. Ownership /\ FlagMatches
  <2>1. FlagMatches
    BY EntitiesAssumption, Zenon DEF Init, FlagMatches
  <2> QED
    BY <1>2, <2>1, Zenon DEF Ownership
<1>7. SeqBounds
  BY CapacityAssumption DEF Init, SeqBounds
<1>8. \A t \in Threads : Knows(t) /\ (pc[t] = "idle" => idx[t] = 0)
  BY Zenon DEF Init, Knows
<1> QED
  BY <1>1, <1>5, <1>6, <1>7, <1>8, Zenon DEF RingInv

\* Steps of others keep it.
LEMMA RingStutter ==
    ASSUME RingInv, UNCHANGED vars
    PROVE  RingInv'
<1> USE ZenonT(40)
<1>1. TypeOK'
  BY DEF RingInv, TypeOK, vars
<1>2. \A t \in Threads : /\ Filling(t)' <=> Filling(t)
                         /\ Popping(t)' <=> Popping(t)
                         /\ Owned(t)' = Owned(t)
  BY DEF vars, Filling, Popping, Owned
<1>3. \A p : SeqOf(p)' = SeqOf(p)
  BY DEF vars, SeqOf
<1>4. Window' /\ Ownership'
  <2>1. UNCHANGED <<head_seq, tail_seq, pos, idx, batch>>
    BY DEF vars
  <2>2. Window'
    BY <1>2, <1>3, <2>1, SMT DEF RingInv, Window
  <2>3. Ownership'
    BY <1>2, <2>1 DEF RingInv, Ownership
  <2> QED
    BY <2>2, <2>3
<1>5. SeqBounds' /\ FlagMatches'
  BY <1>3 DEF RingInv, SeqBounds, FlagMatches, vars
<1>6. \A t \in Threads : Knows(t)' /\ (pc[t] = "idle" => idx[t] = 0)'
  BY <1>3, SMT DEF RingInv, Knows, vars
<1> QED
  BY <1>1, <1>4, <1>5, <1>6 DEF RingInv

\* Every step of every operation keeps it.
LEMMA RingStep ==
    ASSUME RingInv, Capacity >= 2, [Next]_vars
    PROVE  RingInv'
<1> USE ZenonT(40)
<1>1. ASSUME NEW t \in Pushers, NEW e \in Entities, Push(t, e)
      PROVE  RingInv'
  BY <1>1, EnterStep DEF Threads
<1>2. ASSUME NEW t \in Pushers, NEW b \in Batches, BatchPush(t, b)
      PROVE  RingInv'
  BY <1>2, EnterStep DEF Threads
<1>3. ASSUME NEW t \in Poppers, Pop(t) \/ Steal(t)
      PROVE  RingInv'
  BY <1>3, EnterStep DEF Threads
<1>4. ASSUME NEW t \in Threads, Step(t)
      PROVE  RingInv'
  <2>1. CASE LoadHead(t) \/ LoadTail(t)
    BY <2>1, LoadCounterStep
  <2>2. CASE PushLoadSeq(t)
    BY <2>2, PushLoadSeqStep
  <2>3. CASE PushCas(t)
    BY <2>3, PushCasStep
  <2>4. CASE Fill(t)
    BY <2>4, FillStep
  <2>5. CASE Publish(t)
    BY <2>5, PublishStep
  <2>6. CASE BatchLoadLast(t)
    BY <2>6, BatchLoadLastStep
  <2>7. CASE BatchCheckRange(t)
    BY <2>7, BatchCheckRangeStep
  <2>8. CASE BatchCas(t)
    BY <2>8, BatchCasStep
  <2>9. CASE PopLoadSeq(t)
    BY <2>9, PopLoadSeqStep
  <2>10. CASE StealTest(t)
    BY <2>10, StealTestStep
  <2>11. CASE PopCas(t)
    BY <2>11, PopCasStep
  <2>12. CASE Read(t)
    BY <2>12, ReadStep
  <2>13. CASE Reset(t)
    BY <2>13, ResetStep
  <2> QED
    BY <1>4, <2>1, <2>2, <2>3, <2>4, <2>5, <2>6, <2>7, <2>8, <2>9, <2>10,
       <2>11, <2>12, <2>13 DEF Step
<1>5. CASE UNCHANGED vars
  BY <1>5, RingStutter
<1> QED
  BY <1>1, <1>2, <1>3, <1>4, <1>5 DEF Next

\* The ring invariant holds in every run of the queue, whatever the number of
\* threads, the entities, the batches and the capacity, provided the capacity
\* is at least two. With one node the sequence number that says "filled" is
\* the one that says "clean for the next lap", and the ring does not work.
THEOREM RingInvariant ==
    ASSUME Capacity >= 2
    PROVE  Spec => []RingInv
<1>1. Init => RingInv
  BY InitRing, Zenon
<1>2. RingInv /\ [Next]_vars => RingInv'
  BY RingStep, Zenon
<1> QED
  BY <1>1, <1>2, PTL DEF Spec

\* Every variable keeps its type.
THEOREM TypeCorrect ==
    ASSUME Capacity >= 2
    PROVE  Spec => []TypeOK
<1>1. RingInv => TypeOK
  BY Zenon DEF RingInv
<1> QED
  BY <1>1, RingInvariant, PTL

-----------------------------------------------------------------------------
\* What the ring invariant gives

\* A claimed range that lies between the counters, which are at most c apart.
LEMMA InsideLap ==
    ASSUME NEW head \in Nat, NEW tail \in Nat, NEW c \in Nat, NEW b \in Nat, NEW i \in Nat, NEW n \in Nat,
           NEW p \in (b + i)..(b + n - 1), tail <= b + i, b + n <= head, head <= tail + c
    PROVE  p \in Nat /\ head <= p + c /\ p < head
  OBVIOUS

\* A position in a thread's hands lies in the lap behind head_seq_.
LEMMA OwnedInLap ==
    ASSUME RingInv, NEW t \in Threads, NEW p \in Owned(t)
    PROVE  p \in Nat /\ head_seq <= p + Capacity /\ p < head_seq
<1>1. /\ head_seq \in Nat /\ tail_seq \in Nat /\ pos[t] \in Nat
      /\ idx[t] \in Nat /\ Len(batch[t]) \in Nat
      /\ tail_seq <= head_seq /\ head_seq <= tail_seq + Capacity
  BY DEF RingInv, TypeOK, Window
<1>2. CASE Filling(t)
  <2>1. p \in (pos[t] + idx[t])..(pos[t] + Len(batch[t]) - 1)
    BY <1>2, Zenon DEF Owned
  <2>2. tail_seq <= pos[t] + idx[t] /\ pos[t] + Len(batch[t]) <= head_seq
    BY <1>2, Zenon DEF RingInv, Ownership
  <2> QED
    BY <1>1, <2>1, <2>2, CapacityAssumption, InsideLap, Zenon
<1>3. CASE ~Filling(t)
  <2>1. Popping(t) /\ p = pos[t]
    BY <1>3, Zenon DEF Owned
  <2>2. pos[t] < tail_seq /\ head_seq <= pos[t] + Capacity
    BY <2>1, Zenon DEF RingInv, Ownership
  <2> QED
    BY <1>1, <2>1, <2>2
<1> QED
  BY <1>2, <1>3, Zenon

\* Plain accesses to a node never race: two threads never own positions of
\* the same slot, whatever lap they are in (PushSlow, BatchPush and PopIf
\* between their compare-and-swap and their releasing store).
THEOREM ExclusiveSlots ==
    ASSUME Capacity >= 2
    PROVE  Spec => []SlotExclusive
<1>1. RingInv => SlotExclusive
  <2> SUFFICES ASSUME RingInv, NEW t \in Threads, NEW u \in Threads, t # u,
                      NEW p \in Owned(t), NEW q \in Owned(u), Slot(p) = Slot(q)
               PROVE  FALSE
    BY Zenon DEF SlotExclusive
  <2>1. /\ p \in Nat /\ head_seq <= p + Capacity /\ p < head_seq
        /\ q \in Nat /\ head_seq <= q + Capacity /\ q < head_seq
        /\ head_seq \in Nat
    BY OwnedInLap, Zenon DEF RingInv, TypeOK
  <2>2. p < q + Capacity /\ q < p + Capacity
    BY <2>1, CapacityAssumption
  <2>3. p = q
    BY <2>1, <2>2, SlotInjective, Zenon
  <2> QED
    BY <2>3, Zenon DEF RingInv, Ownership
<1> QED
  BY <1>1, RingInvariant, PTL

\* A node that has been claimed is clean until it is filled and published:
\* the FLARE_CHECK of BatchPush never fires, and Push needs none.
THEOREM CleanWhenClaimed ==
    ASSUME Capacity >= 2
    PROVE  Spec => []ClaimedIsClean
<1>1. RingInv => ClaimedIsClean
  BY FillPosition, Zenon DEF ClaimedIsClean
<1> QED
  BY <1>1, RingInvariant, PTL

\* Steal tests `instealable` before it claims the node, yet never claims a
\* fiber that was pushed as instealable.
THEOREM ThievesRespectLocality ==
    ASSUME Capacity >= 2
    PROVE  Spec => []StealOnlyStealable
<1>1. RingInv => StealOnlyStealable
  BY Zenon DEF RingInv, Knows, StealOnlyStealable
<1> QED
  BY <1>1, RingInvariant, PTL

\* Push reports an overrun only when the ring is full, or its next slot is still being popped.
LEMMA OverrunIsFull ==
    ASSUME RingInv, Capacity >= 2, NEW t \in Threads, pc[t] = "push_seq",
           Overrun(pos[t])
    PROVE  /\ head_seq = pos[t]
           /\ \/ head_seq = tail_seq + Capacity
              \/ \E u \in Threads : Popping(u) /\ pos[u] + Capacity = head_seq
<1>1. /\ pos[t] \in Nat /\ head_seq \in Nat /\ tail_seq \in Nat
      /\ pos[t] <= head_seq /\ SeqOf(pos[t]) \in Nat
      /\ head_seq <= tail_seq + Capacity
  BY LapAndSlot, Zenon DEF RingInv, TypeOK, Knows, SeqOf, Window
<1>2. head_seq = pos[t]
  <2>1. SeqOf(pos[t]) < pos[t]
    BY <1>1, CapacityAssumption DEF Overrun
  <2>2. ~(pos[t] < head_seq)
    <3> SUFFICES ASSUME pos[t] < head_seq
                 PROVE  FALSE
      BY Zenon
    <3>1. pos[t] \in 0..(head_seq - 1)
      BY <1>1
    <3>2. SeqOf(pos[t]) >= pos[t]
      BY <3>1, Zenon DEF RingInv, SeqBounds
    <3> QED
      BY <1>1, <2>1, <3>2
  <2> QED
    BY <1>1, <2>2
<1>3. CASE head_seq < tail_seq + Capacity
  <2>1. head_seq \in head_seq..(tail_seq + Capacity - 1)
    BY <1>1, <1>3, CapacityAssumption
  <2>2. SeqOf(head_seq) # head_seq
    BY <1>1, <1>2, CapacityAssumption DEF Overrun
  <2> QED
    BY <1>2, <2>1, <2>2, Zenon DEF RingInv, Window
<1> QED
  BY <1>1, <1>2, <1>3, CapacityAssumption

\* Pop and Steal report an empty ring only when it is, or its first position is being filled.
LEMMA UnderrunIsEmpty ==
    ASSUME RingInv, Capacity >= 2, NEW t \in Threads,
           pc[t] \in {"pop_seq", "steal_seq"}, SeqOf(pos[t]) = pos[t]
    PROVE  /\ tail_seq = pos[t]
           /\ \/ head_seq = tail_seq
              \/ \E u \in Threads : Filling(u) /\ tail_seq \in Owned(u)
<1>1. /\ pos[t] \in Nat /\ head_seq \in Nat /\ tail_seq \in Nat
      /\ pos[t] <= tail_seq /\ tail_seq <= head_seq
  BY Zenon DEF RingInv, TypeOK, Knows, Window
<1>2. tail_seq = pos[t]
  <2>1. ~(pos[t] < tail_seq)
    <3> SUFFICES ASSUME pos[t] < tail_seq
                 PROVE  FALSE
      BY Zenon
    <3>1. pos[t] \in 0..(tail_seq - 1)
      BY <1>1
    <3>2. SeqOf(pos[t]) >= pos[t] + 1
      BY <3>1, Zenon DEF RingInv, SeqBounds
    <3> QED
      BY <1>1, <3>2
  <2> QED
    BY <1>1, <2>1
<1>3. CASE tail_seq < head_seq
  <2>1. tail_seq \in tail_seq..(head_seq - 1)
    BY <1>1, <1>3
  <2>2. SeqOf(tail_seq) # tail_seq + 1
    BY <1>1, <1>2
  <2> QED
    BY <1>2, <2>1, <2>2, Zenon DEF RingInv, Window
<1> QED
  BY <1>1, <1>2, <1>3

\* Push reports an overrun, and Pop and Steal an empty queue, only at a moment
\* when the queue is full, or empty, up to nodes that a thread still holds.
THEOREM Linearized ==
    ASSUME Capacity >= 2
    PROVE  Spec => LinearizedAtSeqLoad
<1> DEFINE Claim(t) ==
      pc'[t] = "idle" =>
        /\ pc[t] = "push_seq" =>
             /\ head_seq = pos[t]
             /\ \/ head_seq = tail_seq + Capacity
                \/ \E u \in Threads : Popping(u) /\ pos[u] + Capacity = head_seq
        /\ pc[t] \in {"pop_seq", "steal_seq"} =>
             /\ tail_seq = pos[t]
             /\ \/ head_seq = tail_seq
                \/ \E u \in Threads : Filling(u) /\ tail_seq \in Owned(u)
<1>1. ASSUME RingInv, [Next]_vars, ~UNCHANGED vars, NEW t \in Threads,
             pc'[t] = "idle", pc[t] \in {"push_seq", "pop_seq", "steal_seq"}
      PROVE  PushLoadSeq(t) \/ PopLoadSeq(t)
  <2>1. PICK S : pc \in [Threads -> S]
    BY <1>1, Zenon DEF RingInv, TypeOK
  <2>2. ASSUME NEW u \in Threads, Step(u)
        PROVE  PushLoadSeq(t) \/ PopLoadSeq(t)
    <3>1. PICK l : pc' = [pc EXCEPT ![u] = l]
      <4>1. CASE LoadHead(u) \/ Fill(u) \/ LoadTail(u) \/ Read(u)
        BY <4>1, Zenon DEF LoadHead, Fill, LoadTail, Read, Goto
      <4>2. CASE PushLoadSeq(u) \/ PushCas(u)
        BY <4>2, Zenon DEF PushLoadSeq, PushCas, RetryPush, ReturnFalse, Return, Goto
      <4>3. CASE BatchLoadLast(u) \/ BatchCheckRange(u) \/ BatchCas(u)
        BY <4>3, Zenon DEF BatchLoadLast, BatchCheckRange, BatchCas, RetryBatch,
                    ReturnFalse, Return, Goto
      <4>4. CASE Publish(u) \/ StealTest(u) \/ Reset(u)
        BY <4>4, Zenon DEF Publish, StealTest, Reset, Return, Goto
      <4>5. CASE PopLoadSeq(u) \/ PopCas(u)
        BY <4>5, Zenon DEF PopLoadSeq, PopCas, RetryPop, Return, Goto
      <4> QED
        BY <2>2, <4>1, <4>2, <4>3, <4>4, <4>5, Zenon DEF Step
    <3>2. u = t
      BY <1>1, <2>1, <3>1, Zenon
    <3> QED
      BY <1>1, <2>2, <3>2, Zenon
         DEF Step, LoadHead, PushCas, Fill, Publish, BatchLoadLast,
             BatchCheckRange, BatchCas, LoadTail, StealTest, PopCas, Read, Reset
  <2>3. ASSUME NEW u \in Threads,
               \/ \E e \in Entities : Push(u, e)
               \/ \E b \in Batches : BatchPush(u, b)
               \/ Pop(u) \/ Steal(u)
        PROVE  FALSE
    BY <1>1, <2>1, <2>3, Zenon DEF Push, BatchPush, Pop, Steal, Goto
  <2> QED
    BY <1>1, <2>2, <2>3, Zenon DEF Next, Threads
<1>2. ASSUME RingInv, [Next]_vars, ~UNCHANGED vars, NEW t \in Threads
      PROVE  Claim(t)
  <2>1. PICK S : pc \in [Threads -> S]
    BY <1>2, Zenon DEF RingInv, TypeOK
  <2>2. ASSUME pc'[t] = "idle", pc[t] = "push_seq"
        PROVE  Overrun(pos[t])
    <3>1. PushLoadSeq(t)
      BY <1>1, <1>2, <2>2, Zenon DEF PopLoadSeq
    <3>2. ~RetryPush(t) /\ ~Goto(t, "push_cas")
      BY <2>1, <2>2, Zenon DEF Goto, RetryPush
    <3> QED
      BY <3>1, <3>2, Zenon DEF PushLoadSeq
  <2>3. ASSUME pc'[t] = "idle", pc[t] \in {"pop_seq", "steal_seq"}
        PROVE  SeqOf(pos[t]) = pos[t]
    BY <1>1, <1>2, <2>1, <2>3, Zenon DEF PushLoadSeq, PopLoadSeq, Goto, RetryPop
  <2> QED
    BY <1>2, <2>2, <2>3, OverrunIsFull, UnderrunIsEmpty, Zenon
<1>3. RingInv /\ [Next]_vars => [\A t \in Threads : Claim(t)]_vars
  BY <1>2, Zenon
<1> QED
  BY <1>3, RingInvariant, PTL DEF Spec, LinearizedAtSeqLoad
=============================================================================
