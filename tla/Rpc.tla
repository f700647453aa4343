--------------------------------- MODULE Rpc ---------------------------------
(***************************************************************************)
(* A program with a server and with calls to other servers.  A request may *)
(* be forwarded: its service makes a call and waits for its completion.    *)
(***************************************************************************)
EXTENDS GatePool, RpcServer

CONSTANTS Worlds,      \* scenarios of the client and of the server
          Forwarded    \* the call a request is forwarded with

ASSUME WorldAssumption ==
    /\ Forwarded \in [Requests -> Calls]
    /\ \A w \in Worlds :
        /\ w.client \in [multiplexable : BOOLEAN, calls : SUBSET Calls, timed : SUBSET Calls,
                         replies : Nat, strays : Nat, mistyped : Nat, cancels : Nat, failures : Nat,
                         losses : Nat, purges : Nat, stops : Nat]
        /\ w.server \in [relay : BOOLEAN, requests : SUBSET Requests, accepts : Nat,
                         losses : Nat, cleanups : Nat, shutdowns : Nat]

vars == <<clientVars, poolVars, serverVars>>

Init == \E w \in Worlds : GateInit(w.client) /\ PoolInit /\ ServerInit(w.server)

\* A call is made by the program's own code, or to serve a request.
Calling(c) ==
    /\ senv.relay => \E r \in Requests : Forwarded[r] = c /\ spc[r] = "serve"
    /\ Look(c) \/ Take(c)

Serving(r) ==
    /\ senv.relay => pc[Forwarded[r]] = "done"
    /\ ServiceFastCall(r)

\* flare::Start stops the pools when the program's own code has returned.
StopPools ==
    /\ senv.relay => Gone
    /\ StopPool

\* A failed FLARE_CHECK ends the program.
Next ==
    /\ ~aborted
    /\ \/ (ClientNext \/ StopPools \/ \E c \in Calls : Calling(c)) /\ UNCHANGED serverVars
       \/ (ServerNext \/ \E r \in Requests : Serving(r)) /\ UNCHANGED <<clientVars, poolVars>>

Spec == Init /\ [][Next]_vars
FairSpec == Spec /\ WF_vars(Next)

-----------------------------------------------------------------------------

TypeOK ==
    /\ healthy \in [Gates -> BOOLEAN]
    /\ conn \in [Gates -> {"none", "open", "failed", "killed", "cleanup", "closed"}]
    /\ correlation_map \in [Keys -> Calls \cup {None}]
    /\ aborted \in BOOLEAN
    /\ timer \in [Calls -> {"none", "created", "armed", "expired", "killed"}]
    /\ callbacks \subseteq Calls /\ ctx_locked \subseteq Calls
    /\ status \in [Calls -> {"none", "Success", "IoError", "Timeout", "ParseError", "cancelled"}]
    /\ gate \in [Calls -> Gates \cup {None}] /\ at \in [Threads -> Gates \cup {None}]
    /\ Pooled \subseteq Gates /\ Cardinality(Pooled) = Len(pool)
    /\ conns_ \subseteq Connections
    /\ {alive_conns_, ongoing_calls_, outstanding_jobs_} \subseteq Nat
    /\ ongoing_requests_ \in [Connections -> Nat]

(***************************************************************************)
(* The completion callback of a call runs at most once, and not at all if  *)
(* the call was cancelled, whoever of the response, the timeout, the       *)
(* connection's error, Stop and the caller itself come first.              *)
(***************************************************************************)
CompletedOnce == \A c \in Calls : completions[c] <= 1

(***************************************************************************)
(* FastCall's comment: no answer, however early, kills the timer before    *)
(* FastCall has enabled it.                                                *)
(***************************************************************************)
TimerNotFreed == \A c \in Calls : cpc[c] = "enable" => timer[c] = "created"

(***************************************************************************)
(* ShardedCallMap::Insert crashes on a duplicate key.  Without correlation *)
(* ids this rests on the pool: a gate comes back only when the context of  *)
(* its last call has left the map.                                         *)
(***************************************************************************)
UniqueIds == \A c \in Calls : cpc[c] = "call" => correlation_map[Key(c)] = None

(***************************************************************************)
(* After the connection's last callback has raised its errors, the only    *)
(* contexts in the map are those of callers that have not looked at        *)
(* healthy_ yet, and will find it false: no call is left behind.           *)
(***************************************************************************)
NoOrphan ==
    \A g \in Gates, i \in Cids :
        LET c == correlation_map[<<g, i>>] IN
        c # None /\ conn[g] = "closed" => cpc[c] \in {"enable", "unlock", "health", "raise"}

UsesGate(c, g) == gate[c] = g /\ (pc[c] # "done" \/ cpc[c] # "returned")
Retires(t, g) == g \in rest[t].join

(***************************************************************************)
(* A connection calls its gate by a plain pointer: as long as it may do so, *)
(* somebody has a reference to the gate, and whoever drops the last one    *)
(* has joined the connection.                                              *)
(***************************************************************************)
GateKept ==
    \A g \in Gates :
        conn[g] \in {"open", "killed", "cleanup"} =>
            g \in Pooled \/ (\E c \in Calls : UsesGate(c, g)) \/ \E t \in Sweepers : Retires(t, g)

(***************************************************************************)
(* A gate is taken out of service by one thread, although every user who   *)
(* finds it unhealthy, and Purge, may want to.                             *)
(***************************************************************************)
RetiredOnce ==
    \A g \in Gates, t, u \in Sweepers \ {Stopper} : Retires(t, g) /\ Retires(u, g) => t = u

(***************************************************************************)
(* FLARE_CHECK_LE(es.size(), max_conns_), although calls decide to create  *)
(* a gate before they have the lock.                                       *)
(***************************************************************************)
PoolBounded == multiplexable => Len(pool) <= max_conns_

(***************************************************************************)
(* The comment in RpcChannel's completion callback: without correlation    *)
(* ids, a call that timed out leaves no response behind that a later call  *)
(* on the connection could take for its own.                               *)
(***************************************************************************)
RightAnswer ==
    \A g \in Gates :
        ~multiplexable /\ Connected(g) /\ asked[g] # <<>> =>
            correlation_map[<<g, SingleId>>] \in {None, asked[g][1]}

Busy(r) == spc[r] \in {"serve", "owner", "self"}

(***************************************************************************)
(* No request and no callback is in a handler that a job has destroyed.    *)
(***************************************************************************)
HandlerAlive ==
    \A k \in Connections :
        handler[k] = "gone" => link[k] = "closed" /\ \A r \in Requests : on[r] = k => ~Busy(r)

\* A job, or a callback of the cleanup timer, still uses the server.
UsesServer(j) == job[j].at \notin {"idle", "destroy"}

(***************************************************************************)
(* When Server::Join returns, no job, callback of a connection or request  *)
(* is under way, and the counters are back to zero.  A callback of the     *)
(* cleanup timer that was under way when Stop killed the timer is the      *)
(* exception (Join gives it 100ms): it may still use the server, but has   *)
(* no connection in its hands.                                             *)
(***************************************************************************)
ServerAlive ==
    Gone => /\ \A k \in Connections : ~UsesServer(k)
            /\ job[Cleaner].at # "destroy" => job[Cleaner].conns = {}
            /\ \A k \in Connections : link[k] \in {"none", "dropped", "closed"} /\ io[k] = "idle"
            /\ \A r \in Requests : ~Busy(r)
            /\ conns_ = {} /\ alive_conns_ = 0 /\ ongoing_calls_ = 0
            /\ outstanding_jobs_ > 0 => UsesServer(Cleaner)

(***************************************************************************)
(* A connection that has left conns_ belongs to one job, whichever of its  *)
(* last callback, a service, the cleanup timer and Join took it.           *)
(***************************************************************************)
ClosedOnce ==
    \A k \in Connections, i, j \in Jobs :
        k \in job[i].conns => k \notin conns_ /\ (k \in job[j].conns => i = j)

(***************************************************************************)
(* Never more requests are being served, and never more connections are    *)
(* open, than the options allow, although each is counted before it is     *)
(* turned away.                                                            *)
(***************************************************************************)
LimitsKept ==
    /\ Cardinality({r \in Requests : spc[r] \in {"serve", "owner"}}) <= max_concurrent_requests
    /\ Cardinality({k \in Connections : link[k] \in {"open", "killed"}}) <= max_concurrent_connections

(***************************************************************************)
(* Several threads compete to complete a call, to retire a gate and to     *)
(* close a connection: one of them does.                                   *)
(***************************************************************************)
EndsOnce == CompletedOnce /\ RetiredOnce /\ ClosedOnce

(***************************************************************************)
(* A key names one call, and the answer on the wire is for that call.      *)
(***************************************************************************)
AnswersMatch == UniqueIds /\ RightAnswer

(***************************************************************************)
(* Nothing is destroyed while somebody still uses it: a call's timer, a    *)
(* gate, a connection's handler, the server (which only a late callback of *)
(* its cleanup timer may use after Join, see ServerAlive).                 *)
(***************************************************************************)
UsesLive == TimerNotFreed /\ GateKept /\ HandlerAlive /\ ServerAlive

(***************************************************************************)
(* The types, no counter below zero, and the limits of pool and server.    *)
(***************************************************************************)
CountsHold == TypeOK /\ PoolBounded /\ LimitsKept

(***************************************************************************)
(* What descriptor.cc says where a cleanup is complete, "Wake up any       *)
(* waiters": nobody is left waiting for a connection that was cleaned up.  *)
(* notify_one wakes one, but the end of the program, which joins the gates *)
(* of the shared pool, and a completion that gives back one of them, which *)
(* its error has made unhealthy, may both wait for the same connection.    *)
(***************************************************************************)
JoinersWoken == \A g \in Gates : conn[g] = "closed" => Waiters(g) = {}

(***************************************************************************)
(* Every call that is made is completed, unless it has no timeout and its  *)
(* connection stays open, or the pools are stopped while it is under way   *)
(* and it is left waiting for its gate (see JoinersWoken), or the program  *)
(* is aborted by a response of the wrong type.                             *)
(***************************************************************************)
CallsEnd ==
    \A c \in Calls :
        <>[](\/ cpc[c] \in {"idle", "create"}
             \/ pc[c] = "done" /\ cpc[c] = "returned"
             \/ c \notin env.timed /\ \E g \in Gates : gate[c] = g /\ conn[g] = "open"
             \/ pc[Stopper] # "idle" /\ \E g \in Gates : conn[g] = "closed" /\ c \in Waiters(g)
             \/ aborted)

(***************************************************************************)
(* Server::Join returns, also when requests wait for calls of their own.   *)
(***************************************************************************)
JoinReturns == <>[](job[Main].at = "idle" \/ Gone)
===============================================================================
