------------------------------ MODULE RpcServer -------------------------------
(***************************************************************************)
(* flare/rpc/server.cc and rpc/internal/normal_connection_handler.cc: a    *)
(* server, its connections and the requests that are not streams.          *)
(*                                                                         *)
(* A connection leaves conns_ when its last callback runs, when a service  *)
(* asks for it, when the cleanup timer finds it idle, or when the server   *)
(* ends; a job then waits until nobody uses it any more.  Jobs are named   *)
(* after the connection (OnConnectionClosed), Cleaner (the timer) and Main *)
(* (the thread that calls Server::Stop and Join).                          *)
(***************************************************************************)
EXTENDS Integers, FiniteSets

CONSTANTS Connections, Requests, Cleaner, Main, NoOne,
          max_concurrent_requests, max_concurrent_connections

Jobs == Connections \cup {Cleaner, Main}

VARIABLES
    senv,               \* external: what is left of the scenario
    link,               \* what is known of each connection
    handler,            \* its handler, which lives as long as the connection
    conns_, alive_conns_, ongoing_calls_, outstanding_jobs_,
    ongoing_requests_,  \* of each handler
    io, request,        \* where the I/O fiber of a connection is, and with which request
    spc, on,            \* where the fiber of a request is, and its connection
    job,                \* where a job is, with which connections
    timer_on            \* idle_conn_cleaner_ is set

connVars == <<link, handler, conns_, alive_conns_>>
requestVars == <<ongoing_calls_, ongoing_requests_, io, request, spc, on>>
jobVars == <<outstanding_jobs_, job, timer_on>>
serverVars == <<senv, connVars, requestVars, jobVars>>

NoJob == [at |-> "idle", conns |-> {}, left |-> {}]

ServerInit(scenario) ==
    /\ senv = scenario
    /\ link = [k \in Connections |-> "none"]
    /\ handler = [k \in Connections |-> "none"]
    /\ conns_ = {} /\ alive_conns_ = 0 /\ ongoing_calls_ = 0 /\ outstanding_jobs_ = 0
    /\ ongoing_requests_ = [k \in Connections |-> 0]
    /\ io = [k \in Connections |-> "idle"]
    /\ request = [k \in Connections |-> NoOne]
    /\ spc = [r \in Requests |-> "none"]
    /\ on = [r \in Requests |-> NoOne]
    /\ job = [j \in Jobs |-> NoJob]
    /\ timer_on = TRUE

SSpend(what) == senv[what] > 0 /\ senv' = [senv EXCEPT ![what] = @ - 1]
Enter(k, l) == io' = [io EXCEPT ![k] = l]
Proceed(r, l) == spc' = [spc EXCEPT ![r] = l]
Gone == job[Main].at = "gone"

-----------------------------------------------------------------------------
(* OnConnection, called by the acceptor for one connection after another.  *)

Accepting == {k \in Connections : link[k] \in {"accepted", "refused"}}

Accept(k) ==
    /\ link[k] = "none" /\ Accepting = {} /\ job[Main].at \in {"idle", "stopped"}
    /\ SSpend("accepts")
    /\ alive_conns_' = alive_conns_ + 1
    /\ link' = [link EXCEPT ![k] =
                   IF alive_conns_ >= max_concurrent_connections THEN "refused" ELSE "accepted"]
    /\ UNCHANGED <<handler, conns_, requestVars, jobVars>>

\* The connection is dropped and still counted.
RefuseCounted(k) ==
    /\ link[k] = "refused"
    /\ link' = [link EXCEPT ![k] = "dropped"]
    /\ UNCHANGED <<senv, handler, conns_, alive_conns_, requestVars, jobVars>>

Refuse(k) ==
    /\ link[k] = "refused"
    /\ alive_conns_' = alive_conns_ - 1
    /\ link' = [link EXCEPT ![k] = "dropped"]
    /\ UNCHANGED <<senv, handler, conns_, requestVars, jobVars>>

Register(k) ==
    /\ link[k] = "accepted"
    /\ link' = [link EXCEPT ![k] = "open"]
    /\ handler' = [handler EXCEPT ![k] = "live"]
    /\ conns_' = conns_ \cup {k}
    /\ UNCHANGED <<senv, alive_conns_, requestVars, jobVars>>

-----------------------------------------------------------------------------
(* Jobs.                                                                   *)

\* A job goes through its connections phase by phase.
Phase(l, ks) == [at |-> IF ks = {} THEN "alive" ELSE l, conns |-> ks, left |-> ks]
StartJob(j, ks) == job' = [job EXCEPT ![j] = Phase("stop", ks)]

\* OnConnectionClosed.
Close(k) ==
    IF k \in conns_
    THEN /\ conns_' = conns_ \ {k}
         /\ outstanding_jobs_' = outstanding_jobs_ + 1
         /\ StartJob(k, {k})
    ELSE UNCHANGED <<conns_, outstanding_jobs_, job>>

After(l) == CASE l = "stop" -> "join" [] l = "join" -> "handler" [] l = "handler" -> "alive"

\* What a phase does with the connection k: conn->Stop(), conn->Join(),
\* handler->Join().  Server::Join counts the connection off at once.
DoPhase(j, l, k) ==
    CASE l = "stop" -> /\ link' = [link EXCEPT ![k] = IF @ = "open" THEN "killed" ELSE @]
                       /\ UNCHANGED alive_conns_
      [] l = "join" -> link[k] = "closed" /\ UNCHANGED <<link, alive_conns_>>
      [] l = "handler" -> /\ ongoing_requests_[k] = 0
                          /\ alive_conns_' = IF j = Main THEN alive_conns_ - 1 ELSE alive_conns_
                          /\ UNCHANGED link

JobStep(j) ==
    LET l == job[j].at IN
    /\ l \in {"stop", "join", "handler"}
    /\ \E k \in job[j].left :
        /\ DoPhase(j, l, k)
        /\ job' = [job EXCEPT ![j] = IF @.left = {k} THEN Phase(After(l), @.conns)
                                     ELSE [@ EXCEPT !.left = @ \ {k}]]
    /\ UNCHANGED <<senv, handler, conns_, requestVars, outstanding_jobs_, timer_on>>

\* The end of a background job.
CountOff(j) ==
    /\ j # Main /\ job[j].at = "alive"
    /\ alive_conns_' = alive_conns_ - Cardinality(job[j].conns)
    /\ job' = [job EXCEPT ![j].at = "outstanding"]
    /\ UNCHANGED <<senv, link, handler, conns_, requestVars, outstanding_jobs_, timer_on>>

FinishJob(j) ==
    /\ j # Main /\ job[j].at = "outstanding"
    /\ outstanding_jobs_' = outstanding_jobs_ - 1
    /\ job' = [job EXCEPT ![j].at = "destroy"]
    /\ UNCHANGED <<senv, connVars, requestVars, timer_on>>

\* The connections are destroyed with the closure they were moved into.
Destroy(j) ==
    /\ job[j].at = "destroy"
    /\ handler' = [k \in Connections |-> IF k \in job[j].conns THEN "gone" ELSE handler[k]]
    /\ job' = [job EXCEPT ![j] = [NoJob EXCEPT !.at = IF j = Main THEN "gone" ELSE "idle"]]
    /\ UNCHANGED <<senv, link, conns_, alive_conns_, requestVars, outstanding_jobs_, timer_on>>

\* The timer calls OnConnectionCleanupTimer.
CleanupTimer ==
    /\ job[Cleaner].at = "idle" /\ timer_on
    /\ SSpend("cleanups")
    /\ job' = [job EXCEPT ![Cleaner].at = "clean"]
    /\ UNCHANGED <<connVars, requestVars, outstanding_jobs_, timer_on>>

\* It takes those connections that have been idle for too long, whichever these
\* are.
Clean ==
    /\ job[Cleaner].at = "clean"
    /\ \E ks \in SUBSET conns_ :
        /\ conns_' = conns_ \ ks
        /\ job' = [job EXCEPT ![Cleaner] = [at |-> "start", conns |-> ks, left |-> ks]]
    /\ UNCHANGED <<senv, link, handler, alive_conns_, requestVars, outstanding_jobs_, timer_on>>

StartBackgroundJob ==
    /\ job[Cleaner].at = "start"
    /\ outstanding_jobs_' = outstanding_jobs_ + 1
    /\ StartJob(Cleaner, job[Cleaner].conns)
    /\ UNCHANGED <<senv, connVars, requestVars, timer_on>>

-----------------------------------------------------------------------------
(* Callbacks of a connection.                                              *)

\* A request is cut off the buffer.
ProcessOnePacket(k) ==
    /\ link[k] \in {"open", "killed"} /\ io[k] = "idle"
    /\ \E r \in senv.requests :
        /\ spc[r] = "none"
        /\ Proceed(r, "received")
        /\ request' = [request EXCEPT ![k] = r]
        /\ on' = [on EXCEPT ![r] = k]
    /\ Enter(k, "admit")
    /\ UNCHANGED <<senv, connVars, ongoing_calls_, ongoing_requests_, jobVars>>

OnNewCall(k) ==
    /\ io[k] = "admit"
    /\ ongoing_calls_' = ongoing_calls_ + 1
    /\ Enter(k, IF ongoing_calls_ >= max_concurrent_requests THEN "overloaded" ELSE "count")
    /\ UNCHANGED <<senv, connVars, ongoing_requests_, request, spc, on, jobVars>>

Leave(k) == Enter(k, "idle") /\ request' = [request EXCEPT ![k] = NoOne]

ServiceOverloaded(k) ==
    /\ io[k] = "overloaded"
    /\ ongoing_calls_' = ongoing_calls_ - 1
    /\ Proceed(request[k], "done")
    /\ Leave(k)
    /\ UNCHANGED <<senv, connVars, ongoing_requests_, on, jobVars>>

StartFiber(k) ==
    /\ io[k] = "count"
    /\ ongoing_requests_' = [ongoing_requests_ EXCEPT ![k] = @ + 1]
    /\ Proceed(request[k], "serve")
    /\ Leave(k)
    /\ UNCHANGED <<senv, connVars, ongoing_calls_, on, jobVars>>

\* External: the connection is lost.
Disconnect(k) ==
    /\ link[k] = "open"
    /\ SSpend("losses")
    /\ link' = [link EXCEPT ![k] = "killed"]
    /\ UNCHANGED <<handler, conns_, alive_conns_, requestVars, jobVars>>

\* OnClose and OnError: the last callback, and the only one of its connection.
OnClose(k) ==
    /\ link[k] = "killed" /\ io[k] = "idle"
    /\ link' = [link EXCEPT ![k] = "cleanup"]
    /\ Close(k)
    /\ UNCHANGED <<senv, handler, alive_conns_, requestVars, timer_on>>

\* The cleanup is complete, and Join may return.
Detach(k) ==
    /\ link[k] = "cleanup"
    /\ link' = [link EXCEPT ![k] = "closed"]
    /\ UNCHANGED <<senv, handler, conns_, alive_conns_, requestVars, jobVars>>

-----------------------------------------------------------------------------
(* The fiber of a request.                                                 *)

\* ServiceFastCall: the request is rejected, malformed, unknown or processed; a
\* service may also ask for the connection to be closed (Completed).
ServiceFastCall(r) ==
    /\ spc[r] = "serve"
    /\ \/ Proceed(r, "owner") /\ UNCHANGED <<conns_, outstanding_jobs_, job>>
       \/ Proceed(r, "owner") /\ Close(on[r])
    /\ UNCHANGED <<senv, link, handler, alive_conns_, ongoing_calls_, ongoing_requests_, io,
                   request, on, timer_on>>

\* The handler counts the request off first.
OnCallCompletionReversed(r) ==
    /\ spc[r] \in {"owner", "self"}
    /\ IF spc[r] = "owner"
       THEN /\ ongoing_requests_' = [ongoing_requests_ EXCEPT ![on[r]] = @ - 1]
            /\ UNCHANGED ongoing_calls_
       ELSE ongoing_calls_' = ongoing_calls_ - 1 /\ UNCHANGED ongoing_requests_
    /\ Proceed(r, IF spc[r] = "owner" THEN "self" ELSE "done")
    /\ UNCHANGED <<senv, connVars, io, request, on, jobVars>>

\* OnCallCompletion: the server's counter first, then the handler's.
OnCallCompletion(r) ==
    /\ spc[r] \in {"owner", "self"}
    /\ IF spc[r] = "owner"
       THEN ongoing_calls_' = ongoing_calls_ - 1 /\ UNCHANGED ongoing_requests_
       ELSE /\ ongoing_requests_' = [ongoing_requests_ EXCEPT ![on[r]] = @ - 1]
            /\ UNCHANGED ongoing_calls_
    /\ Proceed(r, IF spc[r] = "owner" THEN "self" ELSE "done")
    /\ UNCHANGED <<senv, connVars, io, request, on, jobVars>>

-----------------------------------------------------------------------------
(* Stop and Join.                                                          *)

MainTo(l) == job' = [job EXCEPT ![Main].at = l]

StopServer ==
    /\ job[Main].at = "idle"
    /\ SSpend("shutdowns")
    /\ timer_on' = FALSE
    /\ MainTo("stopped")
    /\ UNCHANGED <<connVars, requestVars, outstanding_jobs_>>

\* acceptor_->Join() has returned; take all connections.
JoinServer ==
    /\ job[Main].at = "stopped" /\ Accepting = {}
    /\ StartJob(Main, conns_)
    /\ conns_' = {}
    /\ UNCHANGED <<senv, link, handler, alive_conns_, requestVars, outstanding_jobs_, timer_on>>

AwaitConnections ==
    /\ job[Main].at = "alive" /\ alive_conns_ = 0
    /\ MainTo("outstanding")
    /\ UNCHANGED <<senv, connVars, requestVars, outstanding_jobs_, timer_on>>

AwaitJobs ==
    /\ job[Main].at = "outstanding" /\ outstanding_jobs_ = 0
    /\ MainTo("sleep")
    /\ UNCHANGED <<senv, connVars, requestVars, outstanding_jobs_, timer_on>>

\* SleepFor(100ms): nothing makes sure that a callback of the cleanup timer that was
\* under way when the timer was killed is over by then.
Sleep ==
    /\ job[Main].at = "sleep"
    /\ MainTo("destroy")
    /\ UNCHANGED <<senv, connVars, requestVars, outstanding_jobs_, timer_on>>

-----------------------------------------------------------------------------

ServerNext ==
    \/ \E k \in Connections :
        \/ Accept(k) \/ Refuse(k) \/ Register(k)
        \/ ProcessOnePacket(k) \/ OnNewCall(k) \/ ServiceOverloaded(k) \/ StartFiber(k)
        \/ Disconnect(k) \/ OnClose(k) \/ Detach(k)
    \/ \E j \in Jobs : JobStep(j) \/ CountOff(j) \/ FinishJob(j) \/ Destroy(j)
    \/ \E r \in Requests : OnCallCompletion(r)
    \/ CleanupTimer \/ Clean \/ StartBackgroundJob
    \/ StopServer \/ JoinServer \/ AwaitConnections \/ AwaitJobs \/ Sleep

===============================================================================
