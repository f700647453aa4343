---------------------- MODULE WritingBufferListProofs -----------------------
(***************************************************************************)
(* The list of writing buffers, for any number of threads, nodes and       *)
(* buffers: ListSpec => []NoStaleNode and ListSpec => []WrittenInOrder, by *)
(* the inductive invariant ListInv.                                        *)
(*                                                                         *)
(* order is the order in which buffers were appended.  The nodes in use    *)
(* are those of order[First] to its end, where First is the first one that *)
(* has not been given back to the pool.  The inductive invariant says how  *)
(* the pointers run along this part of order, with the gaps appenders have *)
(* still to close, and where each thread is on it.                         *)
(***************************************************************************)
EXTENDS WritingBufferList, TLAPS

Labels == {"idle", "link", "appended", "tail", "walk", "writev", "rewind", "cas", "spin",
           "flushed"}

\* The list's own types; bytes play no part in the proof.
Types ==
    /\ head_ \in Nodes \cup {Null} /\ tail_ \in Nodes \cup {Null}
    /\ next \in [Nodes -> Nodes \cup {Null}]
    /\ ctx \in [Nodes -> Buffers \cup {Null}]
    /\ pool \subseteq Nodes
    /\ lpc \in [Callers -> Labels]
    /\ node \in [Callers -> Nodes \cup {Null}]
    /\ from \in [Callers -> Nodes \cup {Null}]
    /\ order \in Seq([node : Nodes, ctx : Buffers])
    /\ flushed_ctxs \in Seq(Buffers \cup {Null})

\* The flusher has reported its node, and has it still.
Waits(t) == lpc[t] \in {"cas", "spin"}
First == IF \E t \in Callers : Waits(t) THEN Len(flushed_ctxs) ELSE Len(flushed_ctxs) + 1

\* From order[f] on: nodes in use, each of them once, linked but for the last
\* and for those whose successor has still to link itself.
Chain(f) ==
    /\ f \in 1..(Len(order) + 1)
    /\ \A i \in f..Len(order) :
          /\ order[i].node \notin pool
          /\ ctx[order[i].node] = order[i].ctx
          /\ \/ next[order[i].node] = Null
             \/ i < Len(order) /\ next[order[i].node] = order[i + 1].node
    /\ \A i, j \in f..Len(order) : order[i].node = order[j].node => i = j
    /\ tail_ = IF f > Len(order) THEN Null ELSE order[Len(order)].node

\* An appender that has still to link its node knows the one before it.
Linked(f) ==
    \A t \in Callers : lpc[t] = "link" =>
        \E i \in f..Len(order) :
            /\ node[t] = order[i].node
            /\ from[t] = Null => i = f
            /\ from[t] # Null => i > f /\ from[t] = order[i - 1].node /\ next[from[t]] = Null

\* Each node has one appender.
OneLinker ==
    \A t, u \in Callers : lpc[t] = "link" /\ lpc[u] = "link" /\ node[t] = node[u] => t = u

\* A flusher starts from the first node, and is on a node in use.
Flushing(f) ==
    \A t \in Callers :
        /\ InFlushTo(t) => f <= Len(order)
        /\ lpc[t] \in {"tail", "walk", "writev"} => from[t] = order[f].node
        /\ lpc[t] = "walk" => \E j \in f..Len(order) : node[t] = order[j].node
        /\ lpc[t] \in {"rewind", "cas", "spin"} => node[t] = order[f].node

\* There is one flusher, and it began when head_ was set.
OneFlusher ==
    \A t, u \in Callers : InFlushTo(t) =>
        /\ InFlushTo(u) => t = u
        /\ lpc[u] = "link" => from[u] # Null

\* head_ is the first node, unless it is about to become it.
Headed(f) ==
    \/ f > Len(order)
    \/ \E t \in Callers : lpc[t] \in {"rewind", "cas", "spin"}
    \/ \E t \in Callers : lpc[t] = "link" /\ from[t] = Null
    \/ head_ = order[f].node

ListInv ==
    /\ Types /\ WrittenInOrder
    /\ Chain(First) /\ Linked(First) /\ OneLinker
    /\ Flushing(First) /\ OneFlusher /\ Headed(First)

-----------------------------------------------------------------------------
(* First.                                                                  *)

\* The thread t goes on, and neither begins nor ceases to wait.
LEMMA SameFirst ==
    ASSUME Types, NEW t \in Callers, NEW l \in Labels,
           GotoList(t, l), Waits(t) <=> l \in {"cas", "spin"},
           flushed_ctxs' = flushed_ctxs
    PROVE  First' = First
  <1>1. \A u \in Callers : Waits(u)' <=> Waits(u)
    BY Zenon DEF Types, GotoList, Waits
  <1>2. (\E u \in Callers : Waits(u)') <=> (\E u \in Callers : Waits(u))
    BY <1>1, Zenon
  <1> QED
    BY <1>2, Zenon DEF First

\* No thread begins to link a node.
LEMMA SameLinkers ==
    ASSUME OneLinker,
           \A u \in Callers : lpc'[u] = "link" => lpc[u] = "link" /\ node'[u] = node[u]
    PROVE  OneLinker'
  BY Zenon DEF OneLinker

\* What appending to a sequence does.
LEMMA AppendFacts ==
    ASSUME NEW S, NEW s \in Seq(S), NEW x \in S
    PROVE  /\ Append(s, x) \in Seq(S)
           /\ Len(Append(s, x)) = Len(s) + 1
           /\ Len(s) \in Nat
           /\ \A i \in 1..Len(s) : Append(s, x)[i] = s[i]
           /\ Append(s, x)[Len(s) + 1] = x
  OBVIOUS

\* A sequence that agrees with the contexts of o still does with the next of them.
LEMMA AppendNext ==
    ASSUME NEW S, NEW s \in Seq(S), NEW o, NEW f, f = Len(s) + 1, o[f].ctx \in S,
           \A i \in 1..Len(s) : s[i] = o[i].ctx,
           NEW r, r = Append(s, o[f].ctx)
    PROVE  r \in Seq(S) /\ Len(r) = f /\ \A i \in 1..Len(r) : r[i] = o[i].ctx
  OBVIOUS

\* The positions from the f-th on, with and without it.
LEMMA FromOn ==
    ASSUME NEW n \in Nat, NEW f \in 1..n
    PROVE  /\ f + 1 \in 1..(n + 1) /\ f \in f..n /\ n \in f..n /\ ~(f > n)
           /\ \A i \in (f + 1)..n : i \in f..n /\ i # f
           /\ \A i \in f..n : i > f /\ i # f + 1 => i \in (f + 1)..n /\ i > f + 1
           /\ f < n => f + 1 \in f..n /\ f + 1 <= n /\ ~(f + 1 > n)
           /\ f = n => f + 1 > n /\ f + 1 \notin f..n
  OBVIOUS

\* The positions of a sequence with one element more.
LEMMA UpTo ==
    ASSUME NEW n \in Nat
    PROVE  \A i \in 1..(n + 1) : i = n + 1 \/ i \in 1..n
  OBVIOUS

\* The positions from the f-th on, when a sequence gets one element more.
LEMMA OneMore ==
    ASSUME NEW n \in Nat, NEW f \in 1..(n + 1)
    PROVE  /\ f \in 1..((n + 1) + 1)
           /\ \A i \in f..(n + 1) : i = n + 1 \/ i \in f..n
           /\ \A i \in f..n : /\ i \in 1..n /\ i \in f..(n + 1) /\ i < n + 1
                              /\ i < n => i + 1 \in 1..n
  OBVIOUS

\* The nodes from the first on, when there is one.
LEMMA WithFirst ==
    ASSUME NEW n \in Nat, NEW f \in 1..(n + 1), f <= n
    PROVE  f \in 1..n /\ f \in f..n /\ \A i \in f..n : i \in 1..n
  OBVIOUS

\* An element of a sequence.
LEMMA ElementOf ==
    ASSUME NEW S, NEW s \in Seq(S), NEW i \in 1..Len(s)
    PROVE  s[i] \in S
  OBVIOUS

\* Everything appended is a buffer in a node.
LEMMA OrderFacts ==
    ASSUME Types
    PROVE  /\ Len(order) \in Nat /\ Len(flushed_ctxs) \in Nat
           /\ \A i \in 1..Len(order) : order[i].node \in Nodes /\ order[i].ctx \in Buffers
  <1>1. Len(order) \in Nat /\ Len(flushed_ctxs) \in Nat
    BY DEF Types
  <1>2. \A i \in 1..Len(order) : order[i] \in [node : Nodes, ctx : Buffers]
    BY ElementOf, Zenon DEF Types
  <1> QED
    BY <1>1, <1>2, Zenon

\* The invariant holds in the initial state: the list is empty.
LEMMA InitInv == ListInit => ListInv
  <1> SUFFICES ASSUME ListInit PROVE ListInv
    BY Zenon
  <1>1. Types
    BY DEF ListInit, Types, Labels
  <1> /\ First = 1 /\ Len(order) = 0 /\ Len(flushed_ctxs) = 0
    BY DEF ListInit, First, Waits
  <1>3. Chain(1)
    BY DEF ListInit, Chain
  <1>4. Linked(1) /\ OneLinker /\ Flushing(1) /\ OneFlusher /\ Headed(1)
    BY DEF ListInit, Linked, OneLinker, Flushing, OneFlusher, Headed, InFlushTo
  <1>5. WrittenInOrder
    BY DEF WrittenInOrder
  <1> QED
    BY <1>1, <1>3, <1>4, <1>5, Zenon DEF ListInv

-----------------------------------------------------------------------------
(* Append.                                                                 *)

\* Append's exchange of tail_ keeps the list's invariant.
LEMMA ExchangeInv ==
    ASSUME ListInv, NEW t \in Callers, NEW b \in Buffers, Exchange(t, b)
    PROVE  ListInv'
  <1> USE ListAssumption, ZenonT(40)
  <1>f. PICK f : f = First
    OBVIOUS
  <1>n. PICK n \in pool :
           /\ pool' = pool \ {n}
           /\ next' = [next EXCEPT ![n] = Null]
           /\ ctx' = [ctx EXCEPT ![n] = b]
           /\ node' = [node EXCEPT ![t] = n]
           /\ tail_' = n
           /\ order' = Append(order, [node |-> n, ctx |-> b])
    BY DEF Exchange
  <1>x. /\ lpc[t] = "idle" /\ GotoList(t, "link")
        /\ from' = [from EXCEPT ![t] = tail_]
        /\ head_' = head_ /\ flushed_ctxs' = flushed_ctxs
    BY DEF Exchange, AtList
  <1> /\ Types /\ WrittenInOrder /\ Chain(f) /\ Linked(f) /\ OneLinker
      /\ Flushing(f) /\ OneFlusher /\ Headed(f)
    BY <1>f DEF ListInv
  <1>1. First' = f
    BY <1>f, <1>x, SameFirst DEF Labels, Waits
  <1> /\ n \in Nodes /\ Len(order) \in Nat /\ f \in Nat
      /\ order' \in Seq([node : Nodes, ctx : Buffers])
      /\ Len(order') = Len(order) + 1
      /\ \A i \in 1..Len(order) : order'[i] = order[i]
      /\ order'[Len(order) + 1].node = n /\ order'[Len(order) + 1].ctx = b
    <2>1. n \in Nodes /\ [node |-> n, ctx |-> b] \in [node : Nodes, ctx : Buffers]
      BY <1>n DEF Types
    <2>2. order \in Seq([node : Nodes, ctx : Buffers])
      BY DEF Types
    <2> QED
      BY <2>1, <2>2, <1>n, AppendFacts, SMT DEF Chain
  <1>3. Types'
    <2>1. (/\ head_ \in Nodes \cup {Null} /\ tail_ \in Nodes \cup {Null} /\ pool \subseteq Nodes
           /\ next \in [Nodes -> Nodes \cup {Null}])'
      BY <1>n, <1>x DEF Types
    <2>2. (ctx \in [Nodes -> Buffers \cup {Null}])'
      BY <1>n DEF Types
    <2>3. (lpc \in [Callers -> Labels] /\ node \in [Callers -> Nodes \cup {Null}])'
      BY <1>n, <1>x DEF Types, GotoList, Labels
    <2>4. (from \in [Callers -> Nodes \cup {Null}])'
      BY <1>x DEF Types
    <2>5. (flushed_ctxs \in Seq(Buffers \cup {Null}))'
      BY <1>x DEF Types
    <2> QED
      BY <2>1, <2>2, <2>3, <2>4, <2>5 DEF Types
  <1>4. WrittenInOrder'
    <2>1. Len(flushed_ctxs) \in Nat
      BY SMT DEF Types
    <2>2. \A i \in 1..Len(flushed_ctxs) : i \in 1..Len(order)
      BY <2>1, SMT DEF WrittenInOrder
    <2> QED
      BY <2>1, <2>2, <1>x, SMTT(30) DEF WrittenInOrder
  <1>5. /\ \A i \in f..Len(order) : i \in 1..Len(order) /\ order[i].node \in Nodes /\ order[i].node # n
        /\ f \in 1..(Len(order) + 1)
    <2>1. f \in 1..(Len(order) + 1)
      BY DEF Chain
    <2>2. \A i \in f..Len(order) : i \in 1..Len(order)
      BY <2>1, OneMore
    <2>3. \A i \in 1..Len(order) : order[i].node \in Nodes
      BY OrderFacts
    <2>4. \A i \in f..Len(order) : order[i].node \notin pool
      BY DEF Chain
    <2> QED
      BY <2>1, <2>2, <2>3, <2>4, <1>n
  <1>6. Chain(f)'
    <2>1. (f \in 1..(Len(order) + 1))'
      BY <1>5, OneMore
    <2>2. ASSUME NEW i \in f..Len(order')
          PROVE  (/\ order[i].node \notin pool
                  /\ ctx[order[i].node] = order[i].ctx
                  /\ \/ next[order[i].node] = Null
                     \/ i < Len(order) /\ next[order[i].node] = order[i + 1].node)'
      <3>1. CASE i = Len(order) + 1
        BY <3>1, <1>n DEF Types
      <3>2. CASE i \in f..Len(order)
        <4>1. order'[i] = order[i] /\ order[i].node \in Nodes /\ order[i].node # n
          BY <3>2, <1>5
        <4>2. /\ next'[order[i].node] = next[order[i].node]
              /\ ctx'[order[i].node] = ctx[order[i].node]
          BY <4>1, <1>n DEF Types
        <4>3. i < Len(order') /\ (i < Len(order) => order'[i + 1] = order[i + 1])
          <5>1. i < Len(order) + 1 /\ (i < Len(order) => i + 1 \in 1..Len(order))
            BY <3>2, <1>5, OneMore
          <5> QED
            BY <5>1
        <4>4. /\ order[i].node \notin pool /\ ctx[order[i].node] = order[i].ctx
              /\ \/ next[order[i].node] = Null
                 \/ i < Len(order) /\ next[order[i].node] = order[i + 1].node
          BY <3>2 DEF Chain
        <4> QED
          BY <4>1, <4>2, <4>3, <4>4, <1>n
      <3> QED
        BY <3>1, <3>2, <1>5, OneMore
    <2>3. (\A i, j \in f..Len(order) : order[i].node = order[j].node => i = j)'
      <3> SUFFICES ASSUME NEW i \in f..Len(order'), NEW j \in f..Len(order'),
                          order'[i].node = order'[j].node
                   PROVE  i = j
        OBVIOUS
      <3>1. \A k \in f..Len(order') : k = Len(order) + 1 \/ k \in f..Len(order)
        BY <1>5, OneMore
      <3>2. \A k \in f..Len(order) : order'[k] = order[k] /\ order[k].node # n
        BY <1>5
      <3>3. \A k, l \in f..Len(order) : order[k].node = order[l].node => k = l
        BY DEF Chain
      <3> QED
        BY <3>1, <3>2, <3>3
    <2>4. (tail_ = IF f > Len(order) THEN Null ELSE order[Len(order)].node)'
      BY <1>n, <1>5, SMT
    <2> QED
      BY <2>1, <2>2, <2>3, <2>4 DEF Chain
  <1>7. Linked(f)'
    <2> SUFFICES ASSUME NEW u \in Callers, lpc'[u] = "link"
                 PROVE  \E i \in f..Len(order') :
                           /\ node'[u] = order'[i].node
                           /\ from'[u] = Null => i = f
                           /\ from'[u] # Null => /\ i > f /\ from'[u] = order'[i - 1].node
                                                 /\ next'[from'[u]] = Null
      BY DEF Linked
    <2>1. CASE u = t
      <3>1. node'[u] = order'[Len(order) + 1].node /\ from'[u] = tail_
        BY <2>1, <1>n, <1>x DEF Types
      <3>2. CASE f > Len(order)
        BY <3>1, <3>2, <1>5, SMT DEF Chain
      <3>3. CASE f <= Len(order)
        <4> /\ tail_ = order[Len(order)].node /\ tail_ \in Nodes /\ tail_ # n
            /\ Len(order) \in f..Len(order)
          BY <3>3, <1>5, SMT DEF Chain
        <4>2. next[tail_] = Null
          BY <1>5, SMT DEF Chain
        <4>3. next'[tail_] = Null /\ order'[Len(order)] = order[Len(order)]
          BY <4>2, <1>n, <1>5 DEF Types
        <4> QED
          BY <3>1, <3>3, <4>3, <1>5, SMTT(30)
      <3> QED
        BY <3>2, <3>3, SMT
    <2>2. CASE u # t
      <3>1. lpc[u] = "link" /\ node'[u] = node[u] /\ from'[u] = from[u]
        BY <2>2, <1>n, <1>x DEF Types, GotoList
      <3> PICK i \in f..Len(order) :
             /\ node[u] = order[i].node
             /\ from[u] = Null => i = f
             /\ from[u] # Null => i > f /\ from[u] = order[i - 1].node /\ next[from[u]] = Null
        BY <3>1 DEF Linked
      <3>3. i \in f..Len(order') /\ order'[i] = order[i]
        BY <1>5, SMT
      <3>4. CASE from[u] = Null
        BY <3>1, <3>3, <3>4
      <3>5. CASE from[u] # Null
        <4>0. i - 1 \in f..Len(order)
          BY <3>5, <1>5, SMT
        <4>1. i - 1 \in f..Len(order) /\ order'[i - 1] = order[i - 1]
          BY <4>0, <1>5
        <4>2. next'[from[u]] = Null
          BY <4>1, <3>5, <1>n, <1>5 DEF Types
        <4> QED
          BY <3>1, <3>3, <3>5, <4>1, <4>2
      <3> QED
        BY <3>4, <3>5
    <2> QED
      BY <2>1, <2>2
  <1>8. \A u \in Callers : /\ InFlushTo(u)' => u # t /\ InFlushTo(u)
                           /\ u # t => lpc'[u] = lpc[u] /\ node'[u] = node[u] /\ from'[u] = from[u]
    BY <1>n, <1>x DEF Types, GotoList, InFlushTo
  <1>9. OneLinker'
    <2>1. \A u \in Callers : u # t /\ lpc'[u] = "link" => lpc[u] = "link" /\ node'[u] = node[u] /\ node[u] # n
      BY <1>8, <1>5, SMTT(30) DEF Linked
    <2>2. node'[t] = n
      BY <1>n DEF Types
    <2> QED
      BY <2>1, <2>2 DEF OneLinker
  <1>10. Flushing(f)'
    <2> SUFFICES ASSUME NEW u \in Callers, u # t, lpc'[u] = lpc[u], node'[u] = node[u], from'[u] = from[u]
                 PROVE  (/\ InFlushTo(u) => f <= Len(order)
                         /\ lpc[u] \in {"tail", "walk", "writev"} => from[u] = order[f].node
                         /\ lpc[u] = "walk" => \E j \in f..Len(order) : node[u] = order[j].node
                         /\ lpc[u] \in {"rewind", "cas", "spin"} => node[u] = order[f].node)'
      BY <1>8 DEF Flushing, InFlushTo
    <2>1. CASE ~InFlushTo(u)
      BY <2>1 DEF InFlushTo
    <2>2. CASE InFlushTo(u)
      <3>1. f \in 1..Len(order) /\ order'[f] = order[f]
        BY <2>2, <1>5, SMT DEF Flushing
      <3>2. \A j \in f..Len(order) : j \in f..Len(order') /\ order'[j] = order[j]
        BY <1>5, OneMore
      <3>3. f <= Len(order')
        BY <3>1, SMT
      <3>4. /\ lpc[u] \in {"tail", "walk", "writev"} => from[u] = order[f].node
            /\ lpc[u] = "walk" => \E j \in f..Len(order) : node[u] = order[j].node
            /\ lpc[u] \in {"rewind", "cas", "spin"} => node[u] = order[f].node
        BY DEF Flushing
      <3>5. lpc[u] = "walk" => \E j \in f..Len(order') : node[u] = order'[j].node
        BY <3>2, <3>4
      <3> QED
        BY <3>1, <3>3, <3>4, <3>5
    <2> QED
      BY <2>1, <2>2
  <1>11. OneFlusher'
    <2> SUFFICES ASSUME NEW u \in Callers, NEW v \in Callers, InFlushTo(u)'
                 PROVE  /\ InFlushTo(v)' => u = v
                        /\ lpc'[v] = "link" => from'[v] # Null
      BY DEF OneFlusher
    <2> u # t /\ InFlushTo(u)
      BY <1>8
    <2>2. InFlushTo(v)' => u = v
      BY <1>8 DEF OneFlusher
    <2>3. CASE v = t
      <3>1. f <= Len(order) /\ tail_ # Null
        BY <1>5, SMT DEF Flushing, Chain
      <3> QED
        BY <2>2, <2>3, <3>1, <1>x DEF Types
    <2>4. CASE v # t
      BY <2>2, <2>4, <1>8 DEF OneFlusher
    <2> QED
      BY <2>3, <2>4
  <1>12. Headed(f)'
    <2>1. CASE f > Len(order)
      <3>1. lpc'[t] = "link" /\ from'[t] = Null
        BY <2>1, <1>x DEF Types, GotoList, Chain
      <3> QED
        BY <3>1 DEF Headed
    <2>2. CASE \E u \in Callers : lpc[u] \in {"rewind", "cas", "spin"}
      <3>1. PICK u \in Callers : lpc[u] \in {"rewind", "cas", "spin"}
        BY <2>2
      <3>2. lpc'[u] \in {"rewind", "cas", "spin"}
        BY <3>1, <1>x, <1>8
      <3> QED
        BY <3>2 DEF Headed
    <2>3. CASE \E u \in Callers : lpc[u] = "link" /\ from[u] = Null
      <3>1. PICK u \in Callers : lpc[u] = "link" /\ from[u] = Null
        BY <2>3
      <3>2. lpc'[u] = "link" /\ from'[u] = Null
        BY <3>1, <1>x, <1>8
      <3> QED
        BY <3>2 DEF Headed
    <2>4. CASE head_ = order[f].node /\ f <= Len(order)
      <3>1. f \in 1..Len(order)
        BY <2>4, <1>5, SMT
      <3>2. order'[f] = order[f]
        BY <3>1
      <3> QED
        BY <2>4, <3>2, <1>x DEF Headed
    <2> QED
      BY <2>1, <2>2, <2>3, <2>4, SMT DEF Headed
  <1> QED
    BY <1>1, <1>3, <1>4, <1>6, <1>7, <1>9, <1>10, <1>11, <1>12 DEF ListInv

\* Append's link from the predecessor, or from head_, does.
LEMMA LinkInv ==
    ASSUME ListInv, NEW t \in Callers, Link(t)
    PROVE  ListInv'
  <1> USE ListAssumption, ZenonT(40)
  <1>f. PICK f : f = First
    OBVIOUS
  <1> /\ Types /\ WrittenInOrder /\ Chain(f) /\ Linked(f) /\ OneLinker
      /\ Flushing(f) /\ OneFlusher /\ Headed(f)
    BY <1>f DEF ListInv
  <1> /\ lpc[t] = "link" /\ GotoList(t, "appended")
      /\ UNCHANGED <<tail_, ctx, pool, node, from, order, flushed_ctxs>>
      /\ IF from[t] = Null
           THEN head_' = node[t] /\ next' = next
           ELSE next' = [next EXCEPT ![from[t]] = node[t]] /\ head_' = head_
    BY DEF Link, AtList, historyVars
  <1>1. First' = f
    BY <1>f, SameFirst DEF Labels, Waits
  <1>i. PICK i \in f..Len(order) :
           /\ node[t] = order[i].node
           /\ from[t] = Null => i = f
           /\ from[t] # Null => i > f /\ from[t] = order[i - 1].node /\ next[from[t]] = Null
    BY DEF Linked
  <1>2. /\ f \in Nat /\ f >= 1 /\ Len(order) \in Nat
        /\ \A j \in f..Len(order) : j \in 1..Len(order) /\ order[j].node \in Nodes
        /\ \A j, k \in f..Len(order) : order[j].node = order[k].node => j = k
    <2>1. f \in Nat /\ f >= 1 /\ Len(order) \in Nat
      BY OrderFacts, SMT DEF Chain
    <2>2. \A j \in f..Len(order) : j \in 1..Len(order)
      BY <2>1, SMT
    <2> QED
      BY <2>1, <2>2, OrderFacts DEF Chain
  <1>3. \A u \in Callers : /\ u # t => lpc'[u] = lpc[u]
                           /\ lpc'[t] = "appended"
    BY DEF Types, GotoList
  <1>4. Types'
    <2>1. (head_ \in Nodes \cup {Null} /\ next \in [Nodes -> Nodes \cup {Null}])'
      BY DEF Types
    <2>2. (lpc \in [Callers -> Labels])'
      BY DEF Types, GotoList, Labels
    <2> QED
      BY <2>1, <2>2 DEF Types
  <1>5. WrittenInOrder'
    BY DEF WrittenInOrder
  <1>6. ASSUME NEW j \in f..Len(order)
        PROVE  next'[order[j].node] = IF from[t] # Null /\ j = i - 1 THEN order[i].node
                                      ELSE next[order[j].node]
    <2>1. CASE from[t] = Null
      BY <2>1
    <2>2. CASE from[t] # Null
      <3>1. i - 1 \in f..Len(order) /\ from[t] = order[i - 1].node /\ from[t] \in Nodes
        BY <2>2, <1>i, <1>2, SMT
      <3>2. (order[j].node = from[t]) <=> (j = i - 1)
        BY <3>1, <1>2
      <3> QED
        BY <2>2, <3>1, <3>2, <1>i, <1>2 DEF Types
    <2> QED
      BY <2>1, <2>2
  <1>7. Chain(f)'
    <2>1. ASSUME NEW j \in f..Len(order)
          PROVE  \/ next'[order[j].node] = Null
                 \/ j < Len(order) /\ next'[order[j].node] = order[j + 1].node
      <3>1. CASE from[t] # Null /\ j = i - 1
        BY <3>1, <1>6, <1>i, <1>2, SMT
      <3>2. CASE ~(from[t] # Null /\ j = i - 1)
        BY <3>2, <1>6 DEF Chain
      <3> QED
        BY <3>1, <3>2
    <2> QED
      BY <2>1 DEF Chain
  <1>8. Linked(f)'
    <2> SUFFICES ASSUME NEW u \in Callers, lpc'[u] = "link"
                 PROVE  \E k \in f..Len(order) :
                           /\ node[u] = order[k].node
                           /\ from[u] = Null => k = f
                           /\ from[u] # Null => /\ k > f /\ from[u] = order[k - 1].node
                                                /\ next'[from[u]] = Null
      BY DEF Linked
    <2>1. u # t /\ lpc[u] = "link" /\ node[u] # node[t]
      BY <1>3 DEF OneLinker
    <2> PICK k \in f..Len(order) :
           /\ node[u] = order[k].node
           /\ from[u] = Null => k = f
           /\ from[u] # Null => k > f /\ from[u] = order[k - 1].node /\ next[from[u]] = Null
      BY <2>1 DEF Linked
    <2>3. CASE from[u] = Null
      BY <2>3
    <2>4. CASE from[u] # Null
      <3>1. k # i /\ k - 1 \in f..Len(order) /\ k - 1 # i - 1
        BY <2>1, <2>4, <1>i, <1>2, SMT
      <3>2. next'[order[k - 1].node] = next[order[k - 1].node]
        BY <3>1, <1>6
      <3> QED
        BY <2>4, <3>2
    <2> QED
      BY <2>3, <2>4
  <1>9. OneLinker'
    BY <1>3, SMT DEF OneLinker
  <1>10. Flushing(f)' /\ OneFlusher'
    BY <1>3, SMT DEF Flushing, OneFlusher, InFlushTo
  <1>11. Headed(f)'
    <2>1. CASE from[t] = Null
      BY <2>1, <1>i DEF Headed
    <2>2. CASE from[t] # Null
      BY <2>2, <1>3 DEF Headed
    <2> QED
      BY <2>1, <2>2
  <1> QED
    BY <1>1, <1>4, <1>5, <1>7, <1>8, <1>9, <1>10, <1>11 DEF ListInv

-----------------------------------------------------------------------------
(* Steps that change nothing but what a thread knows.                      *)

\* A step that changes only what its thread knows of the list keeps the list's invariant.
LEMMA LocalInv ==
    ASSUME ListInv, NEW t \in Callers, NEW l \in Labels,
           GotoList(t, l),
           UNCHANGED <<head_, tail_, next, ctx, pool, order, flushed_ctxs>>,
           NEW n \in Nodes \cup {Null}, node' = [node EXCEPT ![t] = n],
           NEW m \in Nodes \cup {Null}, from' = [from EXCEPT ![t] = m],
           lpc[t] \in {"idle", "appended", "tail", "walk", "writev", "flushed"},
           l \in {"idle", "tail", "walk", "writev", "rewind", "flushed"},
           l \in {"tail", "walk", "writev", "rewind"} =>
               First <= Len(order) /\ (InFlushTo(t) \/ MayFlush),
           l \in {"tail", "walk", "writev"} => m = order[First].node,
           l = "walk" => \E j \in First..Len(order) : n = order[j].node,
           l = "rewind" => n = order[First].node
    PROVE  ListInv'
  <1> USE ZenonT(40)
  <1>f. PICK f : f = First
    OBVIOUS
  <1> /\ Types /\ WrittenInOrder /\ Chain(f) /\ Linked(f) /\ OneLinker
      /\ Flushing(f) /\ OneFlusher /\ Headed(f)
    BY <1>f DEF ListInv
  <1>1. First' = f
    BY <1>f, SameFirst DEF Waits
  <1> /\ lpc'[t] = l /\ node'[t] = n /\ from'[t] = m
      /\ \A u \in Callers : u # t => lpc'[u] = lpc[u] /\ node'[u] = node[u] /\ from'[u] = from[u]
    BY DEF Types, GotoList
  <1>3. Types'
    BY DEF Types, GotoList
  <1>4. WrittenInOrder' /\ Chain(f)'
    BY DEF WrittenInOrder, Chain
  <1>5. Linked(f)' /\ OneLinker'
    BY SMT DEF Linked, OneLinker
  <1>6. Flushing(f)'
    <2> SUFFICES ASSUME NEW u \in Callers
                 PROVE  /\ InFlushTo(u)' => f <= Len(order)
                        /\ lpc'[u] \in {"tail", "walk", "writev"} => from'[u] = order[f].node
                        /\ lpc'[u] = "walk" => \E j \in f..Len(order) : node'[u] = order[j].node
                        /\ lpc'[u] \in {"rewind", "cas", "spin"} => node'[u] = order[f].node
      BY SMT DEF Flushing
    <2>0. /\ l \in {"tail", "walk", "writev", "rewind"} => f <= Len(order)
          /\ l \in {"tail", "walk", "writev"} => m = order[f].node
          /\ l = "walk" => \E j \in f..Len(order) : n = order[j].node
          /\ l = "rewind" => n = order[f].node
      BY <1>f
    <2>1. CASE u = t
      BY <2>0, <2>1 DEF InFlushTo
    <2>2. CASE u # t
      <3>1. lpc'[u] = lpc[u] /\ node'[u] = node[u] /\ from'[u] = from[u]
        BY <2>2
      <3> QED
        BY <3>1, SMT DEF Flushing, InFlushTo
    <2> QED
      BY <2>1, <2>2
  <1>7. OneFlusher'
    <2>1. InFlushTo(t)' => InFlushTo(t) \/ MayFlush
      BY DEF InFlushTo
    <2>2. lpc'[t] # "link" /\ \A u \in Callers : u # t => (InFlushTo(u)' <=> InFlushTo(u))
      BY DEF InFlushTo
    <2>3. MayFlush => \A u \in Callers : ~InFlushTo(u) /\ (lpc[u] = "link" => from[u] # Null)
      BY DEF MayFlush, AtList
    <2> QED
      BY <2>1, <2>2, <2>3 DEF OneFlusher
  <1>8. Headed(f)'
    BY SMT DEF Headed
  <1> QED
    BY <1>1, <1>3, <1>4, <1>5, <1>6, <1>7, <1>8 DEF ListInv

\* A thread with nothing to flush knows nothing of the list that could be wrong.
LEMMA LocalSteps ==
    ASSUME ListInv, NEW t \in Callers,
           \/ \E max \in Limits : FlushTo(t, max)
           \/ LoadTail(t) \/ Walk(t) \/ ReturnList(t)
           \/ \E rc \in -2..Len(iov[t]) : WriteV(t, rc)
    PROVE  ListInv'
  <1> USE ListAssumption, ZenonT(40)
  <1> /\ Types /\ Chain(First) /\ Flushing(First) /\ Headed(First)
      /\ First \in Nat /\ First >= 1 /\ Len(order) \in Nat
      /\ node = [node EXCEPT ![t] = node[t]] /\ node[t] \in Nodes \cup {Null}
      /\ from = [from EXCEPT ![t] = from[t]] /\ from[t] \in Nodes \cup {Null}
    <2>1. Types /\ Chain(First) /\ Flushing(First) /\ Headed(First)
      BY DEF ListInv
    <2>2. First \in Nat /\ First >= 1 /\ Len(order) \in Nat
      BY <2>1, OrderFacts, SMT DEF Chain
    <2> QED
      BY <2>1, <2>2 DEF Types
  <1>1. ASSUME NEW max \in Limits, FlushTo(t, max) PROVE ListInv'
    <2> /\ lpc[t] = "idle" /\ GotoList(t, "tail") /\ MayFlush
        /\ UNCHANGED <<head_, tail_, next, ctx, pool, order, flushed_ctxs>>
        /\ node' = node /\ from' = [from EXCEPT ![t] = head_]
      BY <1>1 DEF FlushTo, LoadHead, AtList, nodeVars, historyVars
    <2>2. First <= Len(order)
      BY SMT DEF MayFlush, Chain
    <2>3. head_ = order[First].node
      BY <2>2, SMT DEF MayFlush, Headed, InFlushTo, AtList
    <2> QED
      BY <2>2, <2>3, LocalInv DEF Labels, Types
  <1>2. CASE LoadTail(t)
    <2> /\ lpc[t] = "tail" /\ GotoList(t, IF tail_ = Null THEN "flushed" ELSE "walk")
        /\ UNCHANGED <<head_, tail_, next, ctx, pool, order, flushed_ctxs>>
        /\ node' = [node EXCEPT ![t] = from[t]] /\ from' = from
      BY <1>2 DEF LoadTail, AtList, nodeVars, historyVars
    <2>2. /\ First <= Len(order) /\ from[t] = order[First].node /\ InFlushTo(t)
          /\ First \in First..Len(order)
      BY SMT DEF Flushing, InFlushTo
    <2>3. CASE tail_ = Null
      BY <2>2, <2>3, LocalInv DEF Labels
    <2>4. CASE tail_ # Null
      BY <2>2, <2>4, LocalInv DEF Labels
    <2> QED
      BY <2>3, <2>4
  <1>3. CASE Walk(t)
    <2> /\ lpc[t] = "walk"
        /\ GotoList(t, IF next[node[t]] = Null THEN "writev" ELSE "walk")
        /\ UNCHANGED <<head_, tail_, next, ctx, pool, order, flushed_ctxs>>
        /\ node' = [node EXCEPT ![t] = next[node[t]]] /\ from' = from
      BY <1>3 DEF Walk, AtList, nodeVars, historyVars
    <2>2. /\ First <= Len(order) /\ from[t] = order[First].node /\ InFlushTo(t)
      BY DEF Flushing, InFlushTo
    <2>3. PICK j \in First..Len(order) : node[t] = order[j].node
      BY DEF Flushing
    <2>4. /\ next[node[t]] \in Nodes \cup {Null}
          /\ \/ next[node[t]] = Null
             \/ j < Len(order) /\ next[node[t]] = order[j + 1].node
      <3>1. j \in 1..Len(order)
        BY SMT
      <3>2. order[j].node \in Nodes
        BY <3>1, OrderFacts
      <3> QED
        BY <2>3, <3>2 DEF Chain, Types
    <2>5. CASE next[node[t]] = Null
      BY <2>2, <2>5, LocalInv DEF Labels
    <2>6. CASE next[node[t]] # Null
      <3>1. j + 1 \in First..Len(order) /\ next[node[t]] = order[j + 1].node
        BY <2>4, <2>6, SMT
      <3>2. \E k \in First..Len(order) : next[node[t]] = order[k].node
        BY <3>1
      <3>3. GotoList(t, "walk")
        BY <2>6
      <3>4. PICK n \in Nodes \cup {Null} : n = next[node[t]]
        BY <2>4
      <3> QED
        BY <2>2, <3>2, <3>3, <3>4, LocalInv DEF Labels
    <2> QED
      BY <2>5, <2>6
  <1>4. CASE ReturnList(t)
    <2>1. /\ lpc[t] \in {"appended", "flushed"} /\ GotoList(t, "idle")
          /\ UNCHANGED <<head_, tail_, next, ctx, pool, order, flushed_ctxs>>
          /\ node' = [node EXCEPT ![t] = Null] /\ from' = [from EXCEPT ![t] = Null]
      BY <1>4 DEF ReturnList, nodeVars, historyVars
    <2> QED
      BY <2>1, LocalInv DEF Labels
  <1>5. ASSUME NEW rc \in -2..Len(iov[t]), WriteV(t, rc) PROVE ListInv'
    <2> /\ lpc[t] = "writev" /\ GotoList(t, IF rc > 0 THEN "rewind" ELSE "flushed")
        /\ UNCHANGED <<head_, tail_, next, ctx, pool, order, flushed_ctxs>>
        /\ node' = [node EXCEPT ![t] = from[t]] /\ from' = from
      BY <1>5 DEF WriteV, AtList, nodeVars
    <2>2. /\ First <= Len(order) /\ from[t] = order[First].node /\ InFlushTo(t)
      BY DEF Flushing, InFlushTo
    <2>3. CASE rc > 0
      BY <2>2, <2>3, LocalInv DEF Labels
    <2>4. CASE ~(rc > 0)
      BY <2>2, <2>4, LocalInv DEF Labels
    <2> QED
      BY <2>3, <2>4
  <1> QED
    BY <1>1, <1>2, <1>3, <1>4, <1>5

-----------------------------------------------------------------------------
(* Steps of FlushTo that take nodes off.                                   *)

\* The flusher leaves a node with some of its bytes at the head.
LEMMA LeaveOffInv ==
    ASSUME ListInv, NEW t \in Callers, LeaveOff(t)
    PROVE  ListInv'
  <1> USE ZenonT(40)
  <1>f. PICK f : f = First
    OBVIOUS
  <1> /\ Types /\ WrittenInOrder /\ Chain(f) /\ Linked(f) /\ OneLinker
      /\ Flushing(f) /\ OneFlusher /\ Headed(f)
    BY <1>f DEF ListInv
  <1> /\ lpc[t] = "rewind" /\ GotoList(t, "flushed")
      /\ head_' = node[t]
      /\ UNCHANGED <<tail_, next, ctx, pool, node, from, order, flushed_ctxs>>
    BY DEF LeaveOff, AtList, historyVars
  <1>1. First' = f
    BY <1>f, SameFirst DEF Labels, Waits
  <1>2. /\ lpc'[t] = "flushed"
        /\ \A u \in Callers : u # t => lpc'[u] = lpc[u]
        /\ node[t] = order[f].node
    BY DEF Types, GotoList, Flushing
  <1>3. Types'
    BY DEF Types, GotoList, Labels
  <1>4. WrittenInOrder' /\ Chain(f)'
    BY DEF WrittenInOrder, Chain
  <1>5. Linked(f)' /\ OneLinker'
    <2>1. \A u \in Callers : lpc'[u] = "link" => lpc[u] = "link"
      BY <1>2
    <2> QED
      BY <2>1, SMT DEF Linked, OneLinker
  <1>6. Flushing(f)' /\ OneFlusher' /\ Headed(f)'
    BY <1>2 DEF Flushing, OneFlusher, Headed, InFlushTo
  <1> QED
    BY <1>1, <1>3, <1>4, <1>5, <1>6 DEF ListInv

\* The next buffer is reported.
LEMMA ReportFacts ==
    ASSUME Types, WrittenInOrder, UNCHANGED order, NEW f \in 1..Len(order),
           f = Len(flushed_ctxs) + 1, order[f].ctx \in Buffers,
           flushed_ctxs' = Append(flushed_ctxs, order[f].ctx)
    PROVE  flushed_ctxs' \in Seq(Buffers \cup {Null}) /\ Len(flushed_ctxs') = f /\ WrittenInOrder'
  <1>1. flushed_ctxs \in Seq(Buffers \cup {Null}) /\ order[f].ctx \in Buffers \cup {Null}
    BY Zenon DEF Types
  <1>2. \A i \in 1..Len(flushed_ctxs) : flushed_ctxs[i] = order[i].ctx
    BY Zenon DEF WrittenInOrder
  <1>3. /\ flushed_ctxs' \in Seq(Buffers \cup {Null}) /\ Len(flushed_ctxs') = f
        /\ \A i \in 1..Len(flushed_ctxs') : flushed_ctxs'[i] = order[i].ctx
    BY <1>1, <1>2, AppendNext
  <1> QED
    BY <1>3 DEF WrittenInOrder, Types

\* The only flusher has reported the last node it knows, or finds another one.
LEMMA HoldInv ==
    ASSUME ListInv, NEW t \in Callers, NEW l \in {"cas", "spin"},
           GotoList(t, l),
           UNCHANGED <<head_, tail_, next, ctx, pool, node, from, order>>,
           \/ lpc[t] = "rewind" /\ flushed_ctxs' = Append(flushed_ctxs, ctx[node[t]])
           \/ lpc[t] = "cas" /\ flushed_ctxs' = flushed_ctxs
    PROVE  ListInv'
  <1> USE ZenonT(40)
  <1>f. PICK f : f = First
    OBVIOUS
  <1> /\ Types /\ WrittenInOrder /\ Chain(f) /\ Linked(f) /\ OneLinker
      /\ Flushing(f) /\ OneFlusher /\ Headed(f)
    BY <1>f DEF ListInv
  <1>2. /\ lpc'[t] = l
        /\ \A u \in Callers : u # t => lpc'[u] = lpc[u]
    BY DEF Types, GotoList
  <1>3. /\ node[t] = order[f].node /\ f <= Len(order) /\ f \in 1..Len(order)
        /\ Len(order) \in Nat /\ Len(flushed_ctxs) \in Nat
        /\ order[f].node \in Nodes /\ order[f].ctx \in Buffers
        /\ ctx[node[t]] = order[f].ctx
    <2>1. node[t] = order[f].node /\ f <= Len(order)
      BY DEF Flushing, InFlushTo
    <2>2. Len(order) \in Nat /\ Len(flushed_ctxs) \in Nat /\ f \in 1..Len(order) /\ f \in f..Len(order)
      BY <2>1, OrderFacts, SMT DEF Chain
    <2> QED
      BY <2>1, <2>2, OrderFacts DEF Chain
  <1>4. /\ First' = f /\ WrittenInOrder' /\ flushed_ctxs' \in Seq(Buffers \cup {Null})
    <2>1. First' = Len(flushed_ctxs')
      BY <1>2 DEF First, Waits
    <2>2. CASE lpc[t] = "cas" /\ flushed_ctxs' = flushed_ctxs
      BY <2>1, <2>2, <1>f DEF First, Waits, WrittenInOrder, Types
    <2>3. CASE lpc[t] = "rewind" /\ flushed_ctxs' = Append(flushed_ctxs, ctx[node[t]])
      <3>1. f = Len(flushed_ctxs) + 1
        BY <2>3, <1>f DEF First, Waits, OneFlusher, InFlushTo
      <3>2. flushed_ctxs' = Append(flushed_ctxs, order[f].ctx)
        BY <2>3, <1>3
      <3> QED
        BY <2>1, <3>1, <3>2, <1>3, ReportFacts
    <2> QED
      BY <2>2, <2>3
  <1>5. Types'
    <2>1. (lpc \in [Callers -> Labels])'
      BY DEF Types, GotoList, Labels
    <2> QED
      BY <2>1, <1>4 DEF Types
  <1>6. Chain(f)' /\ Linked(f)' /\ OneLinker'
    <2>1. \A u \in Callers : lpc'[u] = "link" => u # t /\ lpc[u] = "link"
      BY <1>2
    <2>2. Chain(f)'
      BY DEF Chain
    <2>3. Linked(f)'
      BY <2>1 DEF Linked
    <2>4. OneLinker'
      BY <2>1 DEF OneLinker
    <2> QED
      BY <2>2, <2>3, <2>4
  <1>7. Flushing(f)'
    BY <1>2, <1>3 DEF Flushing, InFlushTo
  <1>8. OneFlusher'
    BY <1>2 DEF OneFlusher, InFlushTo
  <1>9. Headed(f)'
    BY <1>2 DEF Headed
  <1> QED
    BY <1>4, <1>5, <1>6, <1>7, <1>8, <1>9 DEF ListInv

\* The first node goes back to the pool and the flusher t leaves it.
LEMMA DropInv ==
    ASSUME ListInv, NEW t \in Callers, NEW l \in {"rewind", "flushed"},
           GotoList(t, l), lpc[t] \in {"rewind", "cas", "spin"},
           UNCHANGED <<next, ctx, from, order>>,
           pool' = pool \cup {node[t]},
           \/ lpc[t] = "rewind" /\ flushed_ctxs' = Append(flushed_ctxs, ctx[node[t]])
           \/ lpc[t] # "rewind" /\ flushed_ctxs' = flushed_ctxs,
           \/ /\ next[node[t]] # Null /\ tail_' = tail_
              /\ \/ l = "flushed" /\ head_' = next[node[t]] /\ node' = node
                 \/ l = "rewind" /\ head_' = head_ /\ node' = [node EXCEPT ![t] = next[node[t]]]
           \/ /\ tail_ = node[t] /\ tail_' = Null
              /\ l = "flushed" /\ head_' = head_ /\ node' = node
    PROVE  ListInv'
  <1> USE ListAssumption, ZenonT(40)
  <1>f. PICK f : f = First
    BY SMT
  <1> /\ Types /\ WrittenInOrder /\ Chain(f) /\ Linked(f) /\ OneLinker
      /\ Flushing(f) /\ OneFlusher /\ Headed(f)
    BY <1>f, SMT DEF ListInv
  <1>2. /\ lpc'[t] = l
        /\ \A u \in Callers : u # t => lpc'[u] = lpc[u] /\ node'[u] = node[u]
        /\ \A u \in Callers : u # t => ~InFlushTo(u) /\ ~InFlushTo(u)'
        /\ \A u \in Callers : lpc[u] = "link" => from[u] # Null
    <2>1. InFlushTo(t)
      BY DEF InFlushTo
    <2>2. lpc'[t] = l /\ \A u \in Callers : u # t => lpc'[u] = lpc[u] /\ node'[u] = node[u]
      BY SMT DEF Types, GotoList
    <2> QED
      BY <2>1, <2>2, SMT DEF OneFlusher, InFlushTo
  <1> /\ node[t] = order[f].node
      /\ Len(order) \in Nat /\ Len(flushed_ctxs) \in Nat /\ f \in 1..Len(order)
      /\ order[f].node \in Nodes /\ order[f].ctx \in Buffers
      /\ ctx[node[t]] = order[f].ctx
      /\ \A i \in f..Len(order) : i \in 1..Len(order) /\ order[i].node \in Nodes
    <2>1. node[t] = order[f].node /\ f <= Len(order)
      BY SMT DEF Flushing, InFlushTo
    <2>2. Len(order) \in Nat /\ Len(flushed_ctxs) \in Nat /\ f \in 1..(Len(order) + 1)
      BY OrderFacts DEF Chain
    <2>3. f \in 1..Len(order) /\ f \in f..Len(order) /\ \A i \in f..Len(order) : i \in 1..Len(order)
      BY <2>1, <2>2, WithFirst
    <2> QED
      BY <2>1, <2>2, <2>3, OrderFacts DEF Chain
  <1>4. /\ First' = f + 1 /\ WrittenInOrder' /\ flushed_ctxs' \in Seq(Buffers \cup {Null})
    <2>1. First' = Len(flushed_ctxs') + 1
      BY <1>2, SMT DEF First, Waits, InFlushTo
    <2>2. CASE lpc[t] # "rewind" /\ flushed_ctxs' = flushed_ctxs
      <3>1. f = Len(flushed_ctxs)
        BY <2>2, <1>f DEF First, Waits
      <3> QED
        BY <2>1, <2>2, <3>1, SMT DEF WrittenInOrder, Types
    <2>3. CASE lpc[t] = "rewind" /\ flushed_ctxs' = Append(flushed_ctxs, ctx[node[t]])
      <3>1. f = Len(flushed_ctxs) + 1
        BY <2>3, <1>2, <1>f DEF First, Waits, InFlushTo
      <3>2. flushed_ctxs' = Append(flushed_ctxs, order[f].ctx)
        BY <2>3, SMT
      <3> QED
        BY <2>1, <3>1, <3>2, ReportFacts, SMT
    <2> QED
      BY <2>2, <2>3, SMT
  <1>5. \/ /\ f < Len(order) /\ next[node[t]] = order[f + 1].node /\ next[node[t]] # Null /\ tail_' = tail_
           /\ order[f + 1].node \in Nodes
           /\ \/ l = "flushed" /\ head_' = next[node[t]] /\ node' = node
              \/ l = "rewind" /\ head_' = head_ /\ node' = [node EXCEPT ![t] = next[node[t]]]
        \/ f = Len(order) /\ tail_' = Null /\ l = "flushed" /\ head_' = head_ /\ node' = node
    <2>1. f \in f..Len(order) /\ Len(order) \in f..Len(order) /\ ~(f > Len(order))
      BY FromOn
    <2>2. CASE next[node[t]] # Null
      <3> f < Len(order) /\ next[node[t]] = order[f + 1].node
        BY <2>1, <2>2 DEF Chain
      <3>2. f + 1 \in f..Len(order)
        BY FromOn
      <3>3. order[f + 1].node \in Nodes
        BY <3>2
      <3>4. tail_ # node[t]
        BY <2>1 DEF Chain
      <3> QED
        BY <2>2, <3>3, <3>4
    <2>3. CASE next[node[t]] = Null
      <3>1. tail_ = order[Len(order)].node
        BY <2>1 DEF Chain
      <3>2. f = Len(order)
        BY <2>1, <2>3, <3>1 DEF Chain
      <3> QED
        BY <2>3, <3>2, SMT
    <2> QED
      BY <2>2, <2>3
  <1>6. Types'
    <2>1. (head_ \in Nodes \cup {Null} /\ tail_ \in Nodes \cup {Null} /\ pool \subseteq Nodes)'
      BY <1>5 DEF Types
    <2>2. (node \in [Callers -> Nodes \cup {Null}])'
      BY <1>5 DEF Types
    <2>3. (lpc \in [Callers -> Labels])'
      BY SMT DEF Types, GotoList, Labels
    <2> QED
      BY <2>1, <2>2, <2>3, <1>4 DEF Types
  <1>7. Chain(f + 1)'
    <2>1. /\ \A i \in (f + 1)..Len(order) : i \in f..Len(order) /\ i # f
          /\ f \in f..Len(order) /\ ~(f > Len(order))
          /\ IF f < Len(order) THEN ~(f + 1 > Len(order)) ELSE (f = Len(order) => f + 1 > Len(order))
      BY FromOn
    <2>2. \A i \in (f + 1)..Len(order) : order[i].node # node[t]
      BY <2>1 DEF Chain
    <2>3. (tail_ = IF f + 1 > Len(order) THEN Null ELSE order[Len(order)].node)'
      <3>1. tail_ = order[Len(order)].node
        BY <2>1 DEF Chain
      <3>2. CASE f < Len(order) /\ tail_' = tail_
        BY <3>1, <3>2, <2>1
      <3>3. CASE f = Len(order) /\ tail_' = Null
        BY <3>3, FromOn
      <3> QED
        BY <3>2, <3>3, <1>5
    <2>4. f + 1 \in 1..(Len(order) + 1)
      BY FromOn
    <2> QED
      BY <2>1, <2>2, <2>3, <2>4 DEF Chain
  <1>8. Linked(f + 1)'
    <2> SUFFICES ASSUME NEW u \in Callers, lpc'[u] = "link"
                 PROVE  \E i \in (f + 1)..Len(order) :
                           /\ node'[u] = order[i].node
                           /\ from[u] = Null => i = f + 1
                           /\ from[u] # Null => /\ i > f + 1 /\ from[u] = order[i - 1].node
                                                /\ next[from[u]] = Null
      BY DEF Linked
    <2>1. u # t /\ lpc[u] = "link" /\ node'[u] = node[u] /\ from[u] # Null
      BY <1>2
    <2> PICK i \in f..Len(order) :
           node[u] = order[i].node /\ i > f /\ from[u] = order[i - 1].node /\ next[from[u]] = Null
      BY <2>1 DEF Linked
    <2>3. i # f + 1
      <3> SUFFICES ASSUME i = f + 1 PROVE FALSE
        BY SMT
      <3>1. from[u] = node[t]
        BY SMT
      <3> QED
        BY <3>1, <1>5, FromOn
    <2>4. i \in (f + 1)..Len(order) /\ i > f + 1
      BY <2>3, FromOn
    <2> QED
      BY <2>1, <2>4
  <1>9. OneLinker'
    <2>1. \A u \in Callers : lpc'[u] = "link" => lpc[u] = "link" /\ node'[u] = node[u]
      BY <1>2, SMT
    <2> QED
      BY <2>1, SameLinkers
  <1>10. Flushing(f + 1)'
    <2>1. \A u \in Callers : InFlushTo(u)' => u = t /\ l = "rewind"
      BY <1>2 DEF InFlushTo
    <2>2. l = "rewind" => f + 1 <= Len(order) /\ node'[t] = order[f + 1].node
      <3> SUFFICES ASSUME l = "rewind" PROVE f + 1 <= Len(order) /\ node'[t] = order[f + 1].node
        BY SMT
      <3>1. f < Len(order) /\ node' = [node EXCEPT ![t] = order[f + 1].node]
        BY <1>5
      <3>2. f + 1 <= Len(order)
        BY <3>1, FromOn
      <3>3. node \in [Callers -> Nodes \cup {Null}]
        BY DEF Types
      <3> QED
        BY <3>1, <3>2, <3>3
    <2> QED
      BY <2>1, <2>2, <1>2 DEF Flushing, InFlushTo
  <1>11. OneFlusher'
    BY <1>2 DEF OneFlusher
  <1>12. Headed(f + 1)'
    <2>1. CASE f = Len(order)
      BY <2>1, FromOn DEF Headed
    <2>2. CASE l = "rewind"
      BY <2>2, <1>2 DEF Headed
    <2>3. CASE f # Len(order) /\ l # "rewind"
      <3>1. head_' = order[f + 1].node
        BY <2>3, <1>5
      <3> QED
        BY <3>1 DEF Headed
    <2> QED
      BY <2>1, <2>2, <2>3
  <1> QED
    BY <1>4, <1>6, <1>7, <1>8, <1>9, <1>10, <1>11, <1>12 DEF ListInv

\* Rewind, MarkEmpty and Spin are the two cases above.
LEMMA FlushSteps ==
    ASSUME ListInv, NEW t \in Callers, Rewind(t) \/ MarkEmpty(t) \/ Spin(t)
    PROVE  ListInv'
  <1> USE ZenonT(40)
  <1>1. CASE Rewind(t) /\ next[node[t]] = Null
    BY <1>1, HoldInv DEF Rewind, AtList
  <1>2. CASE Rewind(t) /\ next[node[t]] # Null
    <2>1. GotoList(t, "rewind")
      BY <1>2 DEF Rewind, AtList, GotoList, ListInv, Types
    <2> QED
      BY <1>2, <2>1, DropInv DEF Rewind, AtList
  <1>3. CASE MarkEmpty(t) /\ tail_ = node[t]
    BY <1>3, DropInv DEF MarkEmpty, AtList, historyVars
  <1>4. CASE MarkEmpty(t) /\ tail_ # node[t]
    BY <1>4, HoldInv DEF MarkEmpty, AtList, historyVars
  <1>5. CASE Spin(t)
    BY <1>5, DropInv DEF Spin, AtList, localVars, historyVars
  <1> QED
    BY <1>1, <1>2, <1>3, <1>4, <1>5

-----------------------------------------------------------------------------
\* ListInv is an invariant of Append and FlushTo by any number of threads.
LEMMA ListInvariance == ListSpec => []ListInv
  <1>1. ListInit => ListInv
    BY InitInv, Zenon
  <1>2. ListInv /\ [ListNext]_listVars => ListInv'
    <2> SUFFICES ASSUME ListInv, [ListNext]_listVars PROVE ListInv'
      BY Zenon
    <2>1. CASE UNCHANGED listVars
      <3> PICK f : f = First
        BY Zenon
      <3> UNCHANGED <<head_, tail_, next, ctx, pool, lpc, node, from, order, flushed_ctxs>>
        BY <2>1, Zenon DEF listVars, nodeVars, localVars, historyVars
      <3>1. First' = f
        BY Zenon DEF First, Waits
      <3>2. Types' /\ WrittenInOrder'
        BY Zenon DEF ListInv, Types, WrittenInOrder
      <3>3. Chain(f)' /\ Linked(f)' /\ OneLinker'
        BY Zenon DEF ListInv, Chain, Linked, OneLinker
      <3>4. Flushing(f)' /\ OneFlusher' /\ Headed(f)'
        BY Zenon DEF ListInv, Flushing, OneFlusher, Headed, InFlushTo
      <3> QED
        BY <3>1, <3>2, <3>3, <3>4, Zenon DEF ListInv
    <2>2. ASSUME NEW t \in Callers,
                 \/ \E b \in Buffers : Exchange(t, b)
                 \/ Link(t)
                 \/ \E max \in Limits : FlushTo(t, max)
                 \/ FlushStep(t)
                 \/ ReturnList(t)
          PROVE  ListInv'
      BY <2>2, ExchangeInv, LinkInv, LocalSteps, LeaveOffInv, FlushSteps, Zenon DEF FlushStep
    <2> QED
      BY <2>1, <2>2, Zenon DEF ListNext
  <1> QED
    BY <1>1, <1>2, PTL DEF ListSpec

(***************************************************************************)
(* Whatever the number of threads, nodes and buffers, neither Append nor   *)
(* FlushTo ever follows a pointer to a node that is back in the object     *)
(* pool.                                                                   *)
(***************************************************************************)
THEOREM NoStaleNodes == ListSpec => []NoStaleNode
  <1>1. ListInv => NoStaleNode
    <2> SUFFICES ASSUME ListInv, NEW t \in Callers
                 PROVE  /\ AtList(t, "link") => node[t] \notin pool /\ from[t] \notin pool
                        /\ lpc[t] \in {"walk", "rewind", "cas", "spin"} =>
                              node[t] # Null /\ node[t] \notin pool
      BY Zenon DEF NoStaleNode
    <2> USE ListAssumption
    <2>f. PICK f : f = First
      BY Zenon
    <2> Types /\ Chain(f) /\ Linked(f) /\ Flushing(f)
      BY <2>f, Zenon DEF ListInv
    <2> /\ f \in Nat /\ f >= 1 /\ Len(order) \in Nat
        /\ \A i \in f..Len(order) : order[i].node \in Nodes /\ order[i].node \notin pool
      <3>1. f \in Nat /\ f >= 1 /\ Len(order) \in Nat
        BY OrderFacts DEF Chain
      <3>2. \A i \in f..Len(order) : i \in 1..Len(order)
        BY <3>1
      <3> QED
        BY <3>1, <3>2, OrderFacts, Zenon DEF Chain
    <2>2. ASSUME lpc[t] = "link" PROVE node[t] \notin pool /\ from[t] \notin pool
      <3> PICK i \in f..Len(order) :
             /\ node[t] = order[i].node
             /\ from[t] # Null => i > f /\ from[t] = order[i - 1].node
        BY <2>2, Zenon DEF Linked
      <3>2. CASE from[t] = Null
        BY <3>2, Zenon DEF Types
      <3>3. CASE from[t] # Null
        <4>1. i - 1 \in f..Len(order)
          BY <3>3
        <4> QED
          BY <3>3, <4>1, Zenon
      <3> QED
        BY <3>2, <3>3, Zenon
    <2>3. ASSUME lpc[t] \in {"walk", "rewind", "cas", "spin"}
          PROVE  node[t] # Null /\ node[t] \notin pool
      <3>1. f \in f..Len(order)
        BY <2>3 DEF Flushing, InFlushTo
      <3>2. \E j \in f..Len(order) : node[t] = order[j].node
        BY <2>3, <3>1, Zenon DEF Flushing
      <3> QED
        BY <3>2, Zenon
    <2> QED
      BY <2>2, <2>3, Zenon DEF AtList
  <1> QED
    BY <1>1, ListInvariance, PTL

(***************************************************************************)
(* Buffers are reported as written in the order they were appended, none   *)
(* of them twice and none left out.                                        *)
(***************************************************************************)
THEOREM ReportedInOrder == ListSpec => []WrittenInOrder
  <1>1. ListInv => WrittenInOrder
    BY Zenon DEF ListInv
  <1> QED
    BY <1>1, ListInvariance, PTL
=============================================================================
