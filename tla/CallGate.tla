------------------------------- MODULE CallGate -------------------------------
(***************************************************************************)
(* flare/rpc/internal/stream_call_gate.cc: the client's end of a           *)
(* connection, and the map from correlation ids to the contexts of the     *)
(* calls that are under way (sharded_call_map.h).                          *)
(*                                                                         *)
(* Whoever removes a context from the map (a response, the timeout, an     *)
(* error of the connection, Stop, or the caller itself) starts a fiber     *)
(* that completes the call.  That fiber is named after the call.  The      *)
(* connection's last callback, OnClose or OnError, is a thread named after *)
(* the gate.                                                               *)
(***************************************************************************)
EXTENDS Naturals, FiniteSets, SequencesExt

CONSTANTS Gates, Calls,
          Purger, Stopper,   \* the timer that purges the pool, the end of the program
          SingleId,          \* Message::kNonmultiplexableCorrelationId
          Shards,            \* the shards of the call map: a sequence of sets of ids
          None

Cids == Calls \cup {SingleId}
Keys == Gates \X Cids
Sweepers == {Purger, Stopper} \cup Calls
Threads == Sweepers \cup Gates

ASSUME GateAssumption == UNION Range(Shards) = Cids /\ None \notin Calls \cup Gates

VARIABLES
    env,               \* external: what is left of the scenario
    healthy, conn,     \* of each gate; conn is what is known of the connection
    correlation_map,   \* the context under each key
    timer, callbacks,  \* timeout_timer of each context; timeout callbacks that run
    ctx_locked,        \* contexts whose lock FastCall holds
    gate, cpc,         \* the gate of a call; where its caller is
    pc, at, left, cids, rest,   \* where each thread is, and its locals
    asked,             \* external: requests on the wire that the peer has not answered
    aborted,           \* a FLARE_CHECK has failed
    status,            \* what a call is completed with
    completions        \* how often it has been completed or given back

gateVars == <<healthy, conn>>
mapVars == <<correlation_map, status, aborted>>
timerVars == <<timer, callbacks>>
callVars == <<timerVars, ctx_locked, cpc>>
raiseVars == <<at, left, cids>>
handleVars == <<gate, completions>>
clientVars == <<env, gateVars, mapVars, callVars, raiseVars, handleVars, pc, rest, asked>>

multiplexable == env.multiplexable
Cid(c) == IF multiplexable THEN c ELSE SingleId
Key(c) == <<gate[c], Cid(c)>>

GateInit(scenario) ==
    /\ env = scenario
    /\ healthy = [g \in Gates |-> TRUE]
    /\ conn = [g \in Gates |-> "none"]
    /\ correlation_map = [k \in Keys |-> None]
    /\ timer = [c \in Calls |-> "none"] /\ callbacks = {}
    /\ ctx_locked = {}
    /\ gate = [c \in Calls |-> None]
    /\ cpc = [c \in Calls |-> "idle"]
    /\ pc = [t \in Threads |-> "idle"]
    /\ at = [t \in Threads |-> None]
    /\ left = [t \in Threads |-> <<>>]
    /\ cids = [t \in Threads |-> {}]
    /\ rest = [t \in Sweepers |-> [stop |-> {}, join |-> {}]]
    /\ status = [c \in Calls |-> "none"]
    /\ completions = [c \in Calls |-> 0]
    /\ asked = [g \in Gates |-> <<>>] /\ aborted = FALSE

CallTo(c, l) == cpc' = [cpc EXCEPT ![c] = l]
Spend(what) == env[what] > 0 /\ env' = [env EXCEPT ![what] = @ - 1]
Connected(g) == conn[g] \in {"open", "killed"}
Detached(g) == conn[g] \in {"none", "failed", "closed"}

-----------------------------------------------------------------------------
(* The map.                                                                *)

\* Remove, and start the fiber that completes the call, if there is one; next
\* is where all threads are otherwise.
Reclaim(key, why, next) ==
    LET c == correlation_map[key] IN
    IF c = None
    THEN pc' = next /\ UNCHANGED mapVars
    ELSE /\ correlation_map' = [correlation_map EXCEPT ![key] = None]
         /\ status' = [status EXCEPT ![c] = why]
         /\ pc' = [next EXCEPT ![c] = "lock"]
         /\ UNCHANGED aborted

-----------------------------------------------------------------------------
(* FastCall.                                                               *)

\* Create the timer and insert the context, whose lock is held.
FastCall(c) ==
    /\ cpc[c] = "call"
    /\ correlation_map' = [correlation_map EXCEPT ![Key(c)] = c]
    /\ timer' = [timer EXCEPT ![c] = IF c \in env.timed THEN "created" ELSE "none"]
    /\ ctx_locked' = ctx_locked \cup {c}
    /\ CallTo(c, IF c \in env.timed THEN "enable" ELSE "unlock")
    /\ UNCHANGED <<env, gateVars, status, aborted, callbacks, pc, raiseVars, rest, asked,
                   handleVars>>

\* The timer is created and never enabled.
EnableTimerNot(c) ==
    /\ cpc[c] = "enable"
    /\ CallTo(c, "unlock")
    /\ UNCHANGED <<env, gateVars, mapVars, timerVars, ctx_locked, pc, raiseVars, rest,
                   asked, handleVars>>

EnableTimer(c) ==
    /\ cpc[c] = "enable"
    /\ timer' = [timer EXCEPT ![c] = IF @ = "created" THEN "armed" ELSE @]
    /\ CallTo(c, "unlock")
    /\ UNCHANGED <<env, gateVars, mapVars, callbacks, ctx_locked, pc, raiseVars, rest,
                   asked, handleVars>>

Unlock(c) ==
    /\ cpc[c] = "unlock"
    /\ ctx_locked' = ctx_locked \ {c}
    /\ CallTo(c, "health")
    /\ UNCHANGED <<env, gateVars, mapVars, timerVars, pc, raiseVars, rest, asked,
                   handleVars>>

LoadHealthy(c) ==
    /\ cpc[c] = "health"
    /\ CallTo(c, IF healthy[gate[c]] THEN "write" ELSE "raise")
    /\ UNCHANGED <<env, gateVars, mapVars, timerVars, ctx_locked, pc, raiseVars, rest,
                   asked, handleVars>>

RaiseEarly(c) ==
    /\ cpc[c] = "raise"
    /\ Reclaim(Key(c), "IoError", pc)
    /\ CallTo(c, "returned")
    /\ UNCHANGED <<env, gateVars, timerVars, ctx_locked, raiseVars, rest, asked,
                   handleVars>>

WriteOut(c) ==
    /\ cpc[c] = "write"
    /\ asked' = [asked EXCEPT ![gate[c]] = IF Connected(gate[c]) THEN Append(@, c) ELSE @]
    /\ CallTo(c, "returned")
    /\ UNCHANGED <<env, gateVars, mapVars, timerVars, ctx_locked, pc, raiseVars, rest,
                   handleVars>>

\* The context is still found by those who come later.
CancelFastCallKeeps(c) ==
    /\ cpc[c] = "returned" /\ multiplexable
    /\ Spend("cancels")
    /\ correlation_map[Key(c)] = c
    /\ completions' = [completions EXCEPT ![c] = @ + 1]
    /\ status' = [status EXCEPT ![c] = "cancelled"]
    /\ pc' = [pc EXCEPT ![c] = "put"]
    /\ UNCHANGED <<gateVars, correlation_map, aborted, callVars, raiseVars, rest, asked, gate>>

\* CancelFastCall: the arguments go back to the caller.
CancelFastCall(c) ==
    /\ cpc[c] = "returned" /\ multiplexable
    /\ Spend("cancels")
    /\ correlation_map[Key(c)] = c
    /\ correlation_map' = [correlation_map EXCEPT ![Key(c)] = None]
    /\ completions' = [completions EXCEPT ![c] = @ + 1]
    /\ status' = [status EXCEPT ![c] = "cancelled"]
    /\ pc' = [pc EXCEPT ![c] = "put"]
    /\ UNCHANGED <<gateVars, aborted, callVars, raiseVars, rest, asked, gate>>

-----------------------------------------------------------------------------
(* Timeouts.                                                               *)

\* The time of an enabled timer comes, and its callback is on its way.
Expire(c) ==
    /\ timer[c] = "armed"
    /\ timer' = [timer EXCEPT ![c] = "expired"]
    /\ callbacks' = callbacks \cup {c}
    /\ UNCHANGED <<env, gateVars, mapVars, ctx_locked, cpc, pc, raiseVars, rest, asked,
                   handleVars>>

\* The timeout callback knows the key only, and KillTimer does not wait for it.
OnTimeout(c) ==
    /\ c \in callbacks
    /\ callbacks' = callbacks \ {c}
    /\ Reclaim(Key(c), "Timeout", pc)
    /\ UNCHANGED <<env, gateVars, timer, ctx_locked, cpc, raiseVars, rest, asked,
                   handleVars>>

-----------------------------------------------------------------------------
(* Callbacks of the connection.                                            *)

Message(g, cid) ==
    /\ Connected(g)
    /\ Reclaim(<<g, cid>>, "Success", pc)
    /\ UNCHANGED <<gateVars, callVars, raiseVars, rest, handleVars>>

\* A message arrives, which answers a request: in any order if the protocol
\* has correlation ids.
OnDataArrival(g) ==
    \E i \in DOMAIN asked[g] :
        /\ multiplexable \/ i = 1
        /\ Spend("replies")
        /\ asked' = [asked EXCEPT ![g] = RemoveAt(@, i)]
        /\ Message(g, Cid(asked[g][i]))

\* The response is marked as part of a stream.  The context has left the map by
\* then and goes back to its pool with the arguments of the call in it, which the
\* pool does not accept.
Mistyped(g, cid) ==
    /\ Connected(g)
    /\ Spend("mistyped")
    /\ aborted' = (correlation_map[<<g, cid>>] # None)
    /\ correlation_map' = [correlation_map EXCEPT ![<<g, cid>>] = None]
    /\ UNCHANGED <<gateVars, status, callVars, pc, raiseVars, rest, asked, handleVars>>

\* External: the peer sends a response nobody asked for, or sends one twice.
Stray(g, cid) ==
    /\ Spend("strays")
    /\ Message(g, cid)
    /\ UNCHANGED asked

\* External: the peer closes the connection, or it breaks, or a message is
\* malformed.
Lose(g) ==
    /\ conn[g] = "open"
    /\ Spend("losses")
    /\ conn' = [conn EXCEPT ![g] = "killed"]
    /\ UNCHANGED <<healthy, mapVars, callVars, pc, raiseVars, rest, asked, handleVars>>

StartRaising(t, g) ==
    /\ pc' = [pc EXCEPT ![t] = "collect"]
    /\ at' = [at EXCEPT ![t] = g]
    /\ left' = [left EXCEPT ![t] = Shards]
    /\ cids' = [cids EXCEPT ![t] = {}]

\* Nobody is told that the gate cannot be used any more.
OnErrorQuiet(g) ==
    /\ conn[g] = "killed"
    /\ conn' = [conn EXCEPT ![g] = "cleanup"]
    /\ StartRaising(g, g)
    /\ UNCHANGED <<env, healthy, mapVars, callVars, rest, asked, handleVars>>

\* OnClose and OnError: the last callback, and the only one of its connection.
OnError(g) ==
    /\ conn[g] = "killed"
    /\ conn' = [conn EXCEPT ![g] = "cleanup"]
    /\ healthy' = [healthy EXCEPT ![g] = FALSE]
    /\ StartRaising(g, g)
    /\ UNCHANGED <<env, mapVars, callVars, rest, asked, handleVars>>

-----------------------------------------------------------------------------
(* UnsafeRaiseErrorGlobally: collect the ids shard by shard, then raise.   *)

Collect(t) ==
    /\ pc[t] = "collect"
    /\ cids' = [cids EXCEPT ![t] =
                   @ \cup {i \in Head(left[t]) : correlation_map[<<at[t], i>>] # None}]
    /\ left' = [left EXCEPT ![t] = Tail(@)]
    /\ pc' = [pc EXCEPT ![t] = IF left'[t] = <<>> THEN "raise" ELSE @]
    /\ UNCHANGED <<env, gateVars, mapVars, callVars, at, rest, asked, handleVars>>

Raise(t) ==
    /\ pc[t] = "raise"
    /\ \E i \in cids[t] :
        /\ cids' = [cids EXCEPT ![t] = @ \ {i}]
        /\ Reclaim(<<at[t], i>>, "IoError", pc)
    /\ UNCHANGED <<env, gateVars, callVars, at, left, rest, asked, handleVars>>

\* All are raised, and Stop goes on to stop the connection.
Raised(t) ==
    /\ t \in Sweepers /\ pc[t] = "raise" /\ cids[t] = {}
    /\ conn' = [conn EXCEPT ![at[t]] = IF @ = "open" THEN "killed" ELSE @]
    /\ at' = [at EXCEPT ![t] = None]
    /\ pc' = [pc EXCEPT ![t] = "next"]
    /\ UNCHANGED <<env, healthy, mapVars, callVars, left, cids, rest, asked, handleVars>>

\* Those who wait for the connection of g to be cleaned up, and where they go on.
Waiters(g) == {t \in Sweepers : pc[t] = "wait" /\ at[t] = g}
Joining(t) == IF t = Stopper THEN "join" ELSE "next"

\* The callback of the connection returns and the cleanup is complete: notify_one
\* wakes one of the waiters.
Closed(g) ==
    /\ pc[g] = "raise" /\ cids[g] = {}
    /\ conn' = [conn EXCEPT ![g] = "closed"]
    /\ \/ /\ Waiters(g) = {}
          /\ pc' = [pc EXCEPT ![g] = "idle"] /\ at' = [at EXCEPT ![g] = None]
       \/ \E t \in Waiters(g) :
             /\ pc' = [pc EXCEPT ![g] = "idle", ![t] = Joining(t)]
             /\ at' = [at EXCEPT ![g] = None, ![t] = None]
    /\ UNCHANGED <<env, healthy, mapVars, callVars, left, cids, rest, asked, handleVars>>

-----------------------------------------------------------------------------
(* Stop and Join, of all gates that a thread takes out of service.         *)

Retire(t, gs) ==
    /\ rest' = [rest EXCEPT ![t] = [stop |-> gs, join |-> gs]]
    /\ pc' = [pc EXCEPT ![t] = "next"]

Stop(t) ==
    /\ pc[t] = "next"
    /\ \E g \in rest[t].stop :
        /\ StartRaising(t, g)
        /\ rest' = [rest EXCEPT ![t].stop = @ \ {g}]
    /\ UNCHANGED <<env, gateVars, mapVars, callVars, asked, handleVars>>

\* WaitForCleanup, under its lock: return, or wait to be notified and look again.
Join(t) ==
    /\ pc[t] \in {"next", "join"} /\ rest[t].stop = {}
    /\ \E g \in rest[t].join :
        IF Detached(g)
        THEN rest' = [rest EXCEPT ![t].join = @ \ {g}] /\ UNCHANGED <<pc, at>>
        ELSE /\ pc' = [pc EXCEPT ![t] = "wait"]
             /\ at' = [at EXCEPT ![t] = g]
             /\ UNCHANGED rest
    /\ UNCHANGED <<env, gateVars, mapVars, callVars, left, cids, asked, handleVars>>

-----------------------------------------------------------------------------
(* The fiber that completes a call.                                        *)

\* Wait until the context is initialized, and kill the timer.
KillTimer(c) ==
    /\ pc[c] = "lock" /\ c \notin ctx_locked
    /\ timer' = [timer EXCEPT ![c] = IF @ = "none" THEN @ ELSE "killed"]
    /\ pc' = [pc EXCEPT ![c] = "complete"]
    /\ UNCHANGED <<env, gateVars, mapVars, callbacks, ctx_locked, cpc, raiseVars, rest,
                   asked, handleVars>>

\* A call that failed leaves the gate in use.
CompleteKeeps(c) ==
    /\ pc[c] = "complete"
    /\ completions' = [completions EXCEPT ![c] = @ + 1]
    /\ \E parsed \in BOOLEAN :
        status' = [status EXCEPT ![c] = IF @ = "Success" /\ ~parsed THEN "ParseError" ELSE @]
    /\ pc' = [pc EXCEPT ![c] = "put"]
    /\ UNCHANGED <<env, gateVars, correlation_map, aborted, callVars, raiseVars, rest, asked,
                   gate>>

\* Parse the response, if there is one, and call the completion callback, which
\* is the channel's: a gate that cannot tell a late response from the next one
\* is not used again.
Complete(c) ==
    /\ pc[c] = "complete"
    /\ completions' = [completions EXCEPT ![c] = @ + 1]
    /\ \E parsed \in BOOLEAN :
        status' = [status EXCEPT ![c] = IF @ = "Success" /\ ~parsed THEN "ParseError" ELSE @]
    /\ healthy' = [healthy EXCEPT ![gate[c]] = @ /\ (multiplexable \/ status'[c] = "Success")]
    /\ pc' = [pc EXCEPT ![c] = "put"]
    /\ UNCHANGED <<env, conn, correlation_map, aborted, callVars, raiseVars, rest, asked, gate>>

\* The caller has the last look at a context it has put into the map.
Caller(c) ==
    EnableTimer(c) \/ Unlock(c) \/ LoadHealthy(c) \/ RaiseEarly(c) \/ WriteOut(c)
Completion(c) == KillTimer(c) \/ Complete(c)
Raising(t) == Collect(t) \/ Raise(t) \/ Raised(t) \/ (t \in Gates /\ Closed(t))

===============================================================================
