------------------------------- MODULE GatePool -------------------------------
(***************************************************************************)
(* flare/rpc/internal/stream_call_gate_pool.cc: the gates to one endpoint. *)
(* If the protocol has correlation ids, gates are shared by calls          *)
(* (SharedGatePool), otherwise a call has its gate to itself               *)
(* (ExclusiveGatePool).                                                    *)
(*                                                                         *)
(* The shared pool is a list that is copied when it changes; a reader keeps *)
(* the copy it has found (a hazard pointer), which may be out of date when *)
(* it picks a gate.  Of the time stamps of the entries only one fact is    *)
(* kept: whether the gate has been idle for so long that Purge takes it.   *)
(***************************************************************************)
EXTENDS CallGate

CONSTANT max_conns_

VARIABLES
    pool,      \* the entries: impl_->gates, or gates_ of the exclusive pool
    snapshot,  \* the copy a call has found
    current    \* the calls whose copy is the one impl_ points to

poolVars == <<pool, snapshot, current>>

PoolInit ==
    /\ pool = <<>> /\ current = {}
    /\ snapshot = [c \in Calls |-> <<>>]

Pooled == {pool[i].gate : i \in DOMAIN pool}
Entry(g) == [gate |-> g, idle |-> FALSE]
Replace(entries) == pool' = entries /\ current' = {}
Without(gs) == SelectSeq(pool, LAMBDA e : e.gate \notin gs)
Use(c, g) == gate' = [gate EXCEPT ![c] = g]

-----------------------------------------------------------------------------
(* GetOrCreate.                                                            *)

\* creator(), that is RpcChannel::CreateCallGate and StreamCallGate::Open: the
\* socket cannot be created or the connection is under way.
Open(g) ==
    /\ conn[g] = "none"
    /\ \/ /\ conn' = [conn EXCEPT ![g] = "open"]
          /\ UNCHANGED <<env, healthy>>
       \/ /\ Spend("failures")
          /\ conn' = [conn EXCEPT ![g] = "failed"]
          /\ healthy' = [healthy EXCEPT ![g] = FALSE]

Look(c) ==
    /\ cpc[c] = "idle" /\ c \in env.calls /\ multiplexable
    /\ snapshot' = [snapshot EXCEPT ![c] = pool]
    /\ current' = current \cup {c}
    /\ CallTo(c, IF pool = <<>> THEN "create" ELSE "reuse")
    /\ UNCHANGED <<env, gateVars, mapVars, timerVars, ctx_locked, pc, raiseVars, rest,
                   asked, handleVars, pool>>

\* ConsiderReuseGate.  Which gate it takes, and if any, depends on clock readings
\* and reference counts.  The time stamp is lost if the pool has been replaced.
ConsiderReuseGate(c) ==
    /\ cpc[c] = "reuse"
    /\ \/ \E i \in DOMAIN snapshot[c] :
            /\ Use(c, snapshot[c][i].gate)
            /\ pool' = IF c \in current THEN [pool EXCEPT ![i].idle = FALSE] ELSE pool
            /\ CallTo(c, "call")
       \/ CallTo(c, "create") /\ UNCHANGED <<gate, pool>>
    /\ snapshot' = [snapshot EXCEPT ![c] = <<>>]
    /\ current' = current \ {c}
    /\ UNCHANGED <<env, gateVars, mapVars, timerVars, ctx_locked, pc, raiseVars, rest,
                   asked, completions>>

\* What was seen before the lock was taken is not looked at again.
CreateUnchecked(c) ==
    /\ cpc[c] = "create"
    /\ \E g \in Gates : Open(g) /\ Use(c, g) /\ Replace(Append(pool, Entry(g)))
    /\ CallTo(c, "call")
    /\ UNCHANGED <<mapVars, timerVars, ctx_locked, pc, raiseVars, rest, asked,
                   completions, snapshot>>

\* With impl_mutation_lock_ held: somebody else may have created the last one.
Create(c) ==
    /\ cpc[c] = "create"
    /\ IF Len(pool) = max_conns_
       THEN \E g \in Pooled : Use(c, g) /\ UNCHANGED <<env, gateVars, pool, current>>
       ELSE \E g \in Gates : Open(g) /\ Use(c, g) /\ Replace(Append(pool, Entry(g)))
    /\ CallTo(c, "call")
    /\ UNCHANGED <<mapVars, timerVars, ctx_locked, pc, raiseVars, rest, asked,
                   completions, snapshot>>

\* ExclusiveGatePool::GetOrCreate.
Take(c) ==
    /\ cpc[c] = "idle" /\ c \in env.calls /\ ~multiplexable
    /\ IF pool = <<>>
       THEN \E g \in Gates : Open(g) /\ Use(c, g) /\ UNCHANGED pool
       ELSE Use(c, Last(pool).gate) /\ pool' = Front(pool) /\ UNCHANGED <<env, gateVars>>
    /\ CallTo(c, "call")
    /\ UNCHANGED <<mapVars, timerVars, ctx_locked, pc, raiseVars, rest, asked,
                   completions, snapshot, current>>

-----------------------------------------------------------------------------
(* Put, called when the handle is closed.                                  *)

Put(c) ==
    /\ pc[c] = "put"
    /\ IF ~healthy[gate[c]] /\ ~multiplexable
       THEN Retire(c, {gate[c]})
       ELSE /\ pc' = [pc EXCEPT ![c] = IF ~multiplexable THEN "push"
                                       ELSE IF healthy[gate[c]] THEN "done" ELSE "remove"]
            /\ UNCHANGED rest
    /\ UNCHANGED <<env, gateVars, mapVars, callVars, raiseVars, asked, handleVars, poolVars>>

\* SharedGatePool::Put: whoever takes the gate out of the pool stops it.
PutUnhealthy(c) ==
    /\ pc[c] = "remove"
    /\ Replace(Without({gate[c]}))
    /\ IF gate[c] \in Pooled THEN Retire(c, {gate[c]})
       ELSE pc' = [pc EXCEPT ![c] = "done"] /\ UNCHANGED rest
    /\ UNCHANGED <<env, gateVars, mapVars, callVars, raiseVars, asked, handleVars, snapshot>>

\* ExclusiveGatePool::Put.
Push(c) ==
    /\ pc[c] = "push"
    /\ pool' = Append(pool, Entry(gate[c]))
    /\ pc' = [pc EXCEPT ![c] = "done"]
    /\ UNCHANGED <<env, gateVars, mapVars, callVars, raiseVars, rest, asked, handleVars,
                   snapshot, current>>

-----------------------------------------------------------------------------
(* The cleanup timer, and the end of the program.                          *)

\* External: time passes, and nobody has used the gate.
Age(i) ==
    /\ ~pool[i].idle
    /\ Spend("purges")
    /\ pool' = [pool EXCEPT ![i].idle = TRUE]
    /\ UNCHANGED <<gateVars, mapVars, callVars, pc, raiseVars, rest, asked, handleVars,
                   snapshot, current>>

Idle == {e.gate : e \in {pool[i] : i \in {j \in DOMAIN pool : pool[j].idle}}}

Purge ==
    /\ pc[Purger] = "idle" /\ Idle # {}
    /\ Replace(Without(Idle))
    /\ Retire(Purger, Idle)
    /\ UNCHANGED <<env, gateVars, mapVars, callVars, raiseVars, asked, handleVars, snapshot>>

\* StreamCallGatePool::Stop, once nobody makes calls any more; those that use
\* gates of their own have completed.
StopPool ==
    /\ pc[Stopper] = "idle" /\ pool # <<>>
    /\ \A c \in env.calls : cpc[c] = "returned" /\ (~multiplexable => pc[c] = "done")
    /\ Spend("stops")
    /\ rest' = [rest EXCEPT ![Stopper].stop = Pooled]
    /\ pc' = [pc EXCEPT ![Stopper] = "next"]
    /\ UNCHANGED <<gateVars, mapVars, callVars, raiseVars, asked, handleVars, poolVars>>

\* StreamCallGatePool::Join, of what is in the pool by then.
JoinPool ==
    /\ pc[Stopper] = "next" /\ rest[Stopper].stop = {}
    /\ rest' = [rest EXCEPT ![Stopper].join = Pooled]
    /\ pc' = [pc EXCEPT ![Stopper] = "join"]
    /\ UNCHANGED <<env, gateVars, mapVars, callVars, raiseVars, asked, handleVars, poolVars>>

\* All gates are stopped and joined.
Retired(t) ==
    /\ pc[t] = Joining(t)
    /\ rest[t] = [stop |-> {}, join |-> {}]
    /\ pc' = [pc EXCEPT ![t] = IF t = Purger THEN "idle" ELSE "done"]
    /\ UNCHANGED <<env, gateVars, mapVars, callVars, raiseVars, rest, asked, handleVars, poolVars>>

-----------------------------------------------------------------------------

ClientNext ==
    \/ /\ \/ \E c \in Calls : FastCall(c) \/ Caller(c) \/ Completion(c) \/ Expire(c)
                              \/ OnTimeout(c) \/ CancelFastCall(c)
          \/ \E t \in Threads : Raising(t)
          \/ \E t \in Sweepers : Stop(t) \/ Join(t)
          \/ \E g \in Gates : OnDataArrival(g) \/ Lose(g) \/ OnError(g)
          \/ \E g \in Gates, i \in Cids : Stray(g, i) \/ Mistyped(g, i)
       /\ UNCHANGED poolVars
    \/ \E c \in Calls : ConsiderReuseGate(c) \/ Create(c) \/ Put(c) \/ PutUnhealthy(c) \/ Push(c)
    \/ \E i \in DOMAIN pool : Age(i)
    \/ \E t \in Sweepers : Retired(t)
    \/ Purge \/ JoinPool

===============================================================================
