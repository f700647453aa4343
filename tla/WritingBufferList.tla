-------------------------- MODULE WritingBufferList --------------------------
(***************************************************************************)
(* flare/io/detail/writing_buffer_list.{h,cc}: the list of buffers waiting *)
(* to be written to a stream connection.  Any thread calls `Append`; one   *)
(* thread at a time calls `FlushTo`.  The list is built from two atomic    *)
(* pointers, head_ and tail_, and one atomic `next` per node; every action *)
(* below is one access to one of them (or one call of the kernel).         *)
(*                                                                         *)
(* Nodes come from an object pool and go back to it, so a node is reused   *)
(* for a later buffer: a stale pointer to a node is a pointer into another *)
(* buffer's node.  A buffer is named by the `ctx` its writer passes, and a *)
(* byte of it by the same name.  An element of the `iov` array holds one   *)
(* buffer.                                                                 *)
(***************************************************************************)
EXTENDS Integers, Sequences, FiniteSets

CONSTANTS Callers,   \* the threads that call the list
          Nodes,     \* the nodes of the object pool
          Buffers,   \* the buffers that are written, each one once
          Size,      \* Size[b]: the number of bytes of buffer b
          Limits,    \* the values of FlushTo's max_bytes
          IovMax,    \* the length of the iov array (IOV_MAX)
          Null

ASSUME ListAssumption ==
    /\ Null \notin Nodes
    /\ Size \in [Buffers -> Nat \ {0}]
    /\ Limits \subseteq Nat \ {0}
    /\ IovMax \in Nat \ {0}

VARIABLES
    head_, tail_,       \* the two ends of the list
    next, buffer, ctx,  \* the fields of each node; buffer is what is left to write
    pool,               \* the nodes that are in the object pool
    lpc,                \* where each thread is in Append or FlushTo
    node,               \* Append's `node`, FlushTo's `current`
    from,               \* Append's `prev`, FlushTo's `head`
    max_bytes, iov, nv, \* FlushTo's argument, the bytes gathered, the slots used
    flushed,            \* FlushTo's `flushed`: bytes still to be taken off the list
    result,             \* what Append or FlushTo returned
    order,              \* history: the nodes and ctxs in the order tail_ took them
    flushed_ctxs,       \* history: the ctxs FlushTo reported, in order
    wire                \* history: the bytes the kernel accepted, in order

nodeVars == <<next, buffer, ctx, pool>>
localVars == <<node, from, max_bytes, iov, nv, flushed, result>>
historyVars == <<order, flushed_ctxs, wire>>
listVars == <<head_, tail_, nodeVars, lpc, localVars, historyVars>>

NoResult == [rc |-> 0, emptied |-> FALSE, short_write |-> FALSE]

ListInit ==
    /\ head_ = Null /\ tail_ = Null
    /\ next = [n \in Nodes |-> Null]
    /\ buffer = [n \in Nodes |-> 0]
    /\ ctx = [n \in Nodes |-> Null]
    /\ pool = Nodes
    /\ lpc = [t \in Callers |-> "idle"]
    /\ node = [t \in Callers |-> Null]
    /\ from = [t \in Callers |-> Null]
    /\ max_bytes = [t \in Callers |-> 0]
    /\ iov = [t \in Callers |-> <<>>]
    /\ nv = [t \in Callers |-> 0]
    /\ flushed = [t \in Callers |-> 0]
    /\ result = [t \in Callers |-> NoResult]
    /\ order = <<>> /\ flushed_ctxs = <<>> /\ wire = <<>>

AtList(t, l) == lpc[t] = l
GotoList(t, l) == lpc' = [lpc EXCEPT ![t] = l]

-----------------------------------------------------------------------------
(* Append: take a node from the pool, fill it, make it the tail, then hook *)
(* it to the old tail or, if there was none, make it the head.             *)

Exchange(t, b) ==
    /\ AtList(t, "idle")
    /\ \E n \in pool :
         /\ pool' = pool \ {n}
         /\ next' = [next EXCEPT ![n] = Null]
         /\ buffer' = [buffer EXCEPT ![n] = Size[b]]
         /\ ctx' = [ctx EXCEPT ![n] = b]
         /\ node' = [node EXCEPT ![t] = n]
         /\ tail_' = n
         /\ order' = Append(order, [node |-> n, ctx |-> b])
    /\ from' = [from EXCEPT ![t] = tail_]
    /\ GotoList(t, "link")
    /\ UNCHANGED <<head_, max_bytes, iov, nv, flushed, result, flushed_ctxs, wire>>

\* Append returns whether it found the list empty, as `emptied`.
Link(t) ==
    /\ AtList(t, "link")
    /\ IF from[t] = Null
         THEN head_' = node[t] /\ UNCHANGED next
         ELSE next' = [next EXCEPT ![from[t]] = node[t]] /\ UNCHANGED head_
    /\ result' = [result EXCEPT ![t] = [NoResult EXCEPT !.emptied = (from[t] = Null)]]
    /\ GotoList(t, "appended")
    /\ UNCHANGED <<tail_, buffer, ctx, pool, node, from, max_bytes, iov, nv, flushed,
                   historyVars>>

-----------------------------------------------------------------------------
(* FlushTo.                                                                *)

LoadHead(t, max) ==
    /\ AtList(t, "idle")
    /\ from' = [from EXCEPT ![t] = head_]
    /\ max_bytes' = [max_bytes EXCEPT ![t] = max]
    /\ GotoList(t, "tail")
    /\ UNCHANGED <<head_, tail_, nodeVars, node, iov, nv, flushed, result, historyVars>>

LoadTail(t) ==
    /\ AtList(t, "tail")
    /\ node' = [node EXCEPT ![t] = from[t]]
    /\ iov' = [iov EXCEPT ![t] = <<>>]
    /\ nv' = [nv EXCEPT ![t] = 0]
    /\ result' = [result EXCEPT ![t] = [NoResult EXCEPT !.emptied = (tail_ = Null)]]
    /\ GotoList(t, IF tail_ = Null THEN "flushed" ELSE "walk")
    /\ UNCHANGED <<head_, tail_, nodeVars, from, max_bytes, flushed, historyVars>>

\* The bytes of node n that go into the array of thread t.
Taken(t, n) ==
    LET room == max_bytes[t] - Len(iov[t])
    IN  IF nv[t] = IovMax THEN 0 ELSE IF buffer[n] < room THEN buffer[n] ELSE room

\* One turn of the first loop: gather a node's bytes, go to its successor.
Walk(t) ==
    /\ AtList(t, "walk") /\ node[t] # Null
    /\ LET n == node[t]
       IN  /\ iov' = [iov EXCEPT ![t] = @ \o [i \in 1..Taken(t, n) |-> ctx[n]]]
           /\ nv' = [nv EXCEPT ![t] = IF Taken(t, n) = 0 THEN @ ELSE @ + 1]
           /\ node' = [node EXCEPT ![t] = next[n]]
           /\ GotoList(t, IF next[n] = Null THEN "writev" ELSE "walk")
    /\ UNCHANGED <<head_, tail_, nodeVars, from, max_bytes, flushed, result, historyVars>>

\* The kernel takes rc bytes; 0 is a closed connection, a negative rc an error.
WriteV(t, rc) ==
    /\ AtList(t, "writev")
    /\ rc \in -2..Len(iov[t])
    /\ wire' = IF rc > 0 THEN wire \o SubSeq(iov[t], 1, rc) ELSE wire
    /\ flushed' = [flushed EXCEPT ![t] = IF rc > 0 THEN rc ELSE 0]
    /\ result' = [result EXCEPT ![t] = [rc |-> rc, emptied |-> FALSE,
                                        short_write |-> rc > 0 /\ rc # Len(iov[t])]]
    /\ node' = [node EXCEPT ![t] = from[t]]
    /\ GotoList(t, IF rc > 0 THEN "rewind" ELSE "flushed")
    /\ UNCHANGED <<head_, tail_, nodeVars, from, max_bytes, iov, nv, order, flushed_ctxs>>

\* A turn of the second loop at a node written completely, up to the load of
\* its `next`.  A node that has a successor is destroyed, the last one waits.
Rewind(t) ==
    LET n == node[t]
    IN  /\ AtList(t, "rewind") /\ n # Null
        /\ buffer[n] <= flushed[t]
        /\ flushed' = [flushed EXCEPT ![t] = @ - buffer[n]]
        /\ flushed_ctxs' = Append(flushed_ctxs, ctx[n])
        /\ IF next[n] = Null
             THEN /\ GotoList(t, "cas")
                  /\ UNCHANGED <<node, pool>>
             ELSE /\ node' = [node EXCEPT ![t] = next[n]]
                  /\ pool' = pool \cup {n}
                  /\ UNCHANGED lpc
        /\ UNCHANGED <<head_, tail_, next, buffer, ctx, from, max_bytes, iov, nv, result,
                       order, wire>>

\* Mutant: the bytes already written stay in the buffer.
LeaveOffNoSkip(t) ==
    LET n == node[t]
    IN  /\ AtList(t, "rewind") /\ n # Null
        /\ buffer[n] > flushed[t]
        /\ head_' = n
        /\ flushed' = [flushed EXCEPT ![t] = 0]
        /\ GotoList(t, "flushed")
        /\ UNCHANGED <<tail_, next, buffer, ctx, pool, node, from, max_bytes, iov, nv, result,
                       historyVars>>

\* The loop ends at a node of which something is left.
LeaveOff(t) ==
    LET n == node[t]
    IN  /\ AtList(t, "rewind") /\ n # Null
        /\ buffer[n] > flushed[t]
        /\ buffer' = [buffer EXCEPT ![n] = @ - flushed[t]]
        /\ head_' = n
        /\ flushed' = [flushed EXCEPT ![t] = 0]
        /\ GotoList(t, "flushed")
        /\ UNCHANGED <<tail_, next, ctx, pool, node, from, max_bytes, iov, nv, result,
                       historyVars>>

\* Mutant: destroy the last node before its successor is known.
MarkEmptyEarly(t) ==
    /\ AtList(t, "cas")
    /\ pool' = pool \cup {node[t]}
    /\ IF tail_ = node[t]
         THEN /\ tail_' = Null
              /\ result' = [result EXCEPT ![t].emptied = TRUE]
              /\ GotoList(t, "flushed")
         ELSE GotoList(t, "spin") /\ UNCHANGED <<tail_, result>>
    /\ UNCHANGED <<head_, next, buffer, ctx, node, from, max_bytes, iov, nv, flushed,
                   historyVars>>

\* The list is empty if nobody has taken tail_ since; otherwise wait for its node.
MarkEmpty(t) ==
    /\ AtList(t, "cas")
    /\ IF tail_ = node[t]
         THEN /\ tail_' = Null
              /\ pool' = pool \cup {node[t]}
              /\ result' = [result EXCEPT ![t].emptied = TRUE]
              /\ GotoList(t, "flushed")
         ELSE GotoList(t, "spin") /\ UNCHANGED <<tail_, pool, result>>
    /\ UNCHANGED <<head_, next, buffer, ctx, node, from, max_bytes, iov, nv, flushed,
                   historyVars>>

\* The spin ends when the appender that took tail_ has hooked its node.
Spin(t) ==
    /\ AtList(t, "spin")
    /\ next[node[t]] # Null
    /\ head_' = next[node[t]]
    /\ pool' = pool \cup {node[t]}
    /\ GotoList(t, "flushed")
    /\ UNCHANGED <<tail_, next, buffer, ctx, localVars, historyVars>>

\* The caller has looked at the result; its locals are gone.
ReturnList(t) ==
    /\ lpc[t] \in {"appended", "flushed"}
    /\ GotoList(t, "idle")
    /\ node' = [node EXCEPT ![t] = Null] /\ from' = [from EXCEPT ![t] = Null]
    /\ max_bytes' = [max_bytes EXCEPT ![t] = 0]
    /\ iov' = [iov EXCEPT ![t] = <<>>] /\ nv' = [nv EXCEPT ![t] = 0]
    /\ flushed' = [flushed EXCEPT ![t] = 0]
    /\ result' = [result EXCEPT ![t] = NoResult]
    /\ UNCHANGED <<head_, tail_, nodeVars, historyVars>>

InFlushTo(t) == lpc[t] \in {"tail", "walk", "writev", "rewind", "cas", "spin"}

\* The contract of FlushTo: one caller at a time, and only after the Append
\* that found the list empty has returned to the caller it made responsible.
MayFlush ==
    /\ tail_ # Null
    /\ \A u \in Callers : ~InFlushTo(u) /\ (AtList(u, "link") => from[u] # Null)

FlushTo(t, max) == MayFlush /\ LoadHead(t, max)

FlushStep(t) ==
    \/ LoadTail(t) \/ Walk(t)
    \/ \E rc \in -2..Len(iov[t]) : WriteV(t, rc)
    \/ Rewind(t) \/ LeaveOff(t) \/ MarkEmpty(t) \/ Spin(t)

ListNext ==
    \E t \in Callers :
        \/ \E b \in Buffers : Exchange(t, b)
        \/ Link(t)
        \/ \E max \in Limits : FlushTo(t, max)
        \/ FlushStep(t)
        \/ ReturnList(t)

ListSpec == ListInit /\ [][ListNext]_listVars

-----------------------------------------------------------------------------
ListTypeOK ==
    /\ head_ \in Nodes \cup {Null} /\ tail_ \in Nodes \cup {Null}
    /\ next \in [Nodes -> Nodes \cup {Null}]
    /\ buffer \in [Nodes -> Nat]
    /\ ctx \in [Nodes -> Buffers \cup {Null}]
    /\ pool \subseteq Nodes
    /\ lpc \in [Callers -> {"idle", "link", "appended", "tail", "walk", "writev", "rewind",
                            "cas", "spin", "flushed"}]
    /\ node \in [Callers -> Nodes \cup {Null}]
    /\ from \in [Callers -> Nodes \cup {Null}]
    /\ max_bytes \in [Callers -> Nat]
    /\ iov \in [Callers -> Seq(Buffers \cup {Null})]
    /\ nv \in [Callers -> Nat]
    /\ flushed \in [Callers -> Nat]
    /\ result \in [Callers -> [rc : Int, emptied : BOOLEAN, short_write : BOOLEAN]]
    /\ order \in Seq([node : Nodes, ctx : Buffers])
    /\ flushed_ctxs \in Seq(Buffers \cup {Null})

(***************************************************************************)
(* No access of `Append` or `FlushTo` goes through a node that is back in  *)
(* the pool: neither the old tail whose `next` is set, nor the nodes the   *)
(* two loops of FlushTo visit, nor the one it spins on.                    *)
(***************************************************************************)
NoStaleNode ==
    \A t \in Callers :
        /\ AtList(t, "link") => node[t] \notin pool /\ from[t] \notin pool
        /\ lpc[t] \in {"walk", "rewind", "cas", "spin"} =>
              node[t] # Null /\ node[t] \notin pool

(***************************************************************************)
(* The FLARE_CHECKs of the two functions: the old tail has no successor    *)
(* yet, a list that is not empty has a head, and what was written is used  *)
(* up by the time the last node is taken off.                              *)
(***************************************************************************)
ListChecks ==
    \A t \in Callers :
        /\ AtList(t, "link") /\ from[t] # Null => next[from[t]] = Null
        /\ AtList(t, "walk") => from[t] # Null
        /\ AtList(t, "cas") => flushed[t] = 0

(***************************************************************************)
(* Buffers are reported as written in the order their Append took tail_,   *)
(* each once: FlushTo neither skips a node an appender is still hooking,   *)
(* nor reports one twice, whatever the partial writes.                     *)
(***************************************************************************)
WrittenInOrder ==
    /\ Len(flushed_ctxs) <= Len(order)
    /\ \A i \in 1..Len(flushed_ctxs) : flushed_ctxs[i] = order[i].ctx

(***************************************************************************)
(* The bytes the kernel took are those of the buffers in the order their   *)
(* Append took tail_, and a buffer reported as written was written whole   *)
(* and once: after a short write FlushTo resumes at the byte it left off.  *)
(***************************************************************************)
WireInOrder ==
    LET Place(b) == CHOOSE i \in 1..Len(order) : order[i].ctx = b
    IN  /\ \A i, j \in 1..Len(wire) : i < j => Place(wire[i]) <= Place(wire[j])
        /\ \A i \in 1..Len(flushed_ctxs) :
              Cardinality({j \in 1..Len(wire) : wire[j] = flushed_ctxs[i]})
                  = Size[flushed_ctxs[i]]
=============================================================================
