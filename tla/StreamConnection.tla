--------------------------- MODULE StreamConnection ---------------------------
(***************************************************************************)
(* flare/io/native/stream_connection.cc: a connection, which is a          *)
(* Descriptor whose callbacks read from and write to a stream, and which   *)
(* owns a WritingBufferList.  Users call StartHandshaking once, then       *)
(* Write, RestartRead and Stop from any thread.                            *)
(*                                                                         *)
(* What a callback or a user's call still has to do after its last look at *)
(* the connection (kill it, restart an event, return an action) is a       *)
(* sequence of operations, `todo`, executed one step each.                 *)
(***************************************************************************)
EXTENDS Descriptor, WritingBufferList

CONSTANTS Opener,       \* the user that calls StartHandshaking
          MaxPerCall,   \* Write's kMaximumBytesPerCall
          Infinity,     \* std::numeric_limits<std::size_t>::max()
          Scenarios     \* what may happen to a connection (bounds of a behaviour)

\* A scenario says how often data or room arrives, how often a rate limit or
\* the handler pauses the stream, what Handshake() returns to StartHandshaking,
\* OnReadable and OnWritable, whether it may succeed in OnWritable when no writer
\* is waiting for that (`eager`), how many calls of RestartRead the handler makes
\* beyond one for each SuppressRead, what GetQuota() returns, how the connection
\* may be lost, which buffers are written, whether Stop is called.
ASSUME ConnectionAssumption ==
    /\ Opener \in Users
    /\ {"Disconnect", "Error", "HandshakeFailed", "UserInitiated"} \subseteq Reasons
    /\ Callers = Users \cup ({"write"} \X Ids)
    /\ Scenarios \subseteq [arrivals : [Dirs -> Nat], pauses : Nat,
           handshakes : [{"user", "read", "write"} ->
                            SUBSET {"Success", "WannaRead", "WannaWrite", "Error"}],
           eager : BOOLEAN, restarts : Nat,
           quotas : SUBSET Nat, losses : SUBSET {"closed", "failed", "error"},
           buffers : SUBSET Buffers, stop : BOOLEAN]

VARIABLES
    ready,      \* external: data to read, room to write
    env,        \* external: what is left of the scenario
    done, need_restart_read, pending_restart_writes,   \* handshaking_state_
    locker,     \* who holds handshaking_state_.lock across two steps
    cpc,        \* where each thread is in the connection's code
    todo,       \* what it still does before it returns
    quota, rate_limited, ever_succeeded,               \* FlushWritingBuffer's locals
    opened,     \* StartHandshaking has returned
    owed        \* RestartRead calls the handler has yet to make

handshakeVars == <<done, need_restart_read, pending_restart_writes, locker>>
flushVars == <<quota, rate_limited, ever_succeeded>>
envVars == <<ready, env, opened, owed>>
connVars == <<envVars, handshakeVars, flushVars, cpc, todo>>
vars == <<descVars, listVars, connVars>>

ConnThreads == Users \cup Fibers

Init ==
    /\ DescInit /\ ListInit
    /\ ready = {"write"} /\ env \in Scenarios
    /\ done = FALSE /\ need_restart_read = TRUE /\ pending_restart_writes = FALSE
    /\ locker = None
    /\ cpc = [t \in ConnThreads |-> "idle"]
    /\ todo = [t \in ConnThreads |-> <<>>]
    /\ quota = [t \in Callers |-> 0]
    /\ rate_limited = [t \in Callers |-> FALSE]
    /\ ever_succeeded = [t \in Callers |-> FALSE]
    /\ opened = FALSE /\ owed = 0

In(t, l) == cpc[t] = l
Move(t, l) == cpc' = [cpc EXCEPT ![t] = l]
Finish(t, ops) ==
    /\ todo' = [todo EXCEPT ![t] = ops]
    /\ Move(t, IF ops = <<>> THEN "idle" ELSE "do")

\* The thread is in a callback of event e, or in a call of a user.
Callback(f, e) == f \in Fibers /\ f[1] = e
IsUser(t) == t \in Users
Pause == env.pauses > 0 /\ env' = [env EXCEPT !.pauses = @ - 1]
Idle(u) == In(u, "idle") /\ At(u, "out")

-----------------------------------------------------------------------------
(* External: the kernel.                                                   *)

\* Data or room arrives; epoll then reports all that is ready.
Arrive(d) ==
    /\ env.arrivals[d] > 0
    /\ env' = [env EXCEPT !.arrivals[d] = @ - 1]
    /\ ready' = ready \cup {d}
    /\ IF enabled /\ d \in mask THEN Edge(ready' \cap mask) ELSE UNCHANGED descVars
    /\ UNCHANGED <<listVars, handshakeVars, flushVars, cpc, todo, opened, owed>>

Fail ==
    /\ "error" \in env.losses
    /\ ~error_seen /\ "error" \notin edge
    /\ Edge({"error"})
    /\ UNCHANGED <<listVars, connVars>>

-----------------------------------------------------------------------------
(* DoHandshake.                                                            *)

Kills(reason) == <<"kill", reason>>
Restarts(d) == <<"restart", d>>
RestartsLater(d) == <<"later", d>>
Returns(action) == <<"return", action>>
Opens == <<"open", "">>

\* What the three callers do with a status other than Success.
OnHandshake(t, status) ==
    CASE IsUser(t) /\ status = "Error" -> <<Kills("HandshakeFailed"), Opens>>
      [] IsUser(t) /\ status = "WannaRead" -> <<Restarts("read"), Opens>>
      [] IsUser(t) /\ status = "WannaWrite" -> <<Restarts("write"), Opens>>
      [] ~IsUser(t) /\ status = "Error" -> <<Kills("Error"), Returns("Leaving")>>
      [] Callback(t, "read") /\ status = "WannaWrite" ->
             <<Restarts("write"), Returns("Suppress")>>
      [] Callback(t, "write") /\ status = "WannaRead" ->
             <<Restarts("read"), Returns("Suppress")>>
      [] OTHER -> <<Returns("Ready")>>

\* And with Success.
AfterHandshake(t) ==
    IF IsUser(t) THEN Finish(t, <<Opens>>)
    ELSE Move(t, IF Callback(t, "read") THEN "read" ELSE "flush") /\ UNCHANGED todo

\* What the stream's Handshake() may return to this caller.
Handshake(t) ==
    env.handshakes[IF IsUser(t) THEN "user" ELSE t[1]]
        \ (IF Callback(t, "write") /\ ~pending_restart_writes /\ ~env.eager
              THEN {"Success"} ELSE {})

\* What it leaves of what was ready.  It wants to write because there is no room
\* left, and to read because there was nothing left, or because it has only just
\* sent what is to be answered; the latter not in OnReadable, which is not called
\* before a handshake has sent what it wanted to.
Drained(t, status) ==
    CASE status = "WannaRead" -> {ready \ {"read"}} \cup (IF Callback(t, "read") THEN {} ELSE {ready})
      [] status = "WannaWrite" -> {ready \ {"write"}}
      [] OTHER -> {ready}

\* Mutant: a handshake that wants to read leaves the flag as it was.
DoHandshakeKeepsFlag(t) ==
    /\ In(t, "handshake") /\ locker = None
    /\ ~done
    /\ \E status \in Handshake(t) \ {"Success"} :
         /\ need_restart_read' = (need_restart_read \/ status = "WannaWrite")
         /\ ready' \in Drained(t, status)
         /\ Finish(t, OnHandshake(t, status))
    /\ UNCHANGED <<descVars, listVars, flushVars, env, done,
                   pending_restart_writes, locker, opened, owed>>

\* The handshake fails or has to wait for the stream.
DoHandshake(t) ==
    /\ In(t, "handshake") /\ locker = None
    /\ ~done
    /\ \E status \in Handshake(t) \ {"Success"} :
         /\ need_restart_read' = IF status = "Error" THEN need_restart_read
                                 ELSE status = "WannaWrite"
         /\ ready' \in Drained(t, status)
         /\ Finish(t, OnHandshake(t, status))
    /\ UNCHANGED <<descVars, listVars, flushVars, env, done,
                   pending_restart_writes, locker, opened, owed>>

\* Success: read, and writes that were put off, are restarted while `done` is
\* still false.
HandshakeDone(t) ==
    /\ In(t, "handshake") /\ locker = None
    /\ ~done
    /\ "Success" \in Handshake(t)
    /\ locker' = t
    /\ IF need_restart_read THEN RestartNow(t, "read") ELSE UNCHANGED descVars
    /\ Move(t, IF pending_restart_writes /\ Callback(t, "read")
                 THEN "restart_writes" ELSE "store_done")
    /\ UNCHANGED <<listVars, envVars, done, need_restart_read, pending_restart_writes,
                   flushVars, todo>>

RestartWrites(t) ==
    /\ In(t, "restart_writes")
    /\ RestartNow(t, "write")
    /\ Move(t, "store_done")
    /\ UNCHANGED <<listVars, envVars, handshakeVars, flushVars, todo>>

StoreDone(t) ==
    /\ In(t, "store_done")
    /\ done' = TRUE /\ locker' = None
    /\ AfterHandshake(t)
    /\ UNCHANGED <<descVars, listVars, envVars, need_restart_read, pending_restart_writes,
                   flushVars>>

\* Another thread finished the handshake meanwhile.
HandshakeWasDone(t) ==
    /\ In(t, "handshake") /\ locker = None
    /\ done
    /\ AfterHandshake(t)
    /\ UNCHANGED <<descVars, listVars, envVars, handshakeVars, flushVars>>

StartHandshaking ==
    /\ In(Opener, "idle") /\ ~opened
    /\ Move(Opener, "handshake")
    /\ UNCHANGED <<descVars, listVars, envVars, handshakeVars, flushVars, todo>>

-----------------------------------------------------------------------------
(* FlushWritingBuffer, called by Write and by OnWritable.                  *)

MaxBytes(t) == IF IsUser(t) THEN MaxPerCall ELSE Infinity
Least(m, n) == IF m < n THEN m ELSE n

\* What Write and OnWritable do with the status.
OnFlush(t, status) ==
    CASE IsUser(t) /\ status \in {"SystemBufferSaturated", "QuotaExceeded", "RateLimited"} ->
             <<Restarts("write")>>
      [] IsUser(t) /\ status = "Flushed" -> <<>>
      [] IsUser(t) /\ status \in {"PartialWrite", "Error"} -> <<Kills("Error")>>
      [] IsUser(t) /\ status = "NothingWritten" -> <<Kills("Disconnect")>>
      [] ~IsUser(t) /\ status = "SystemBufferSaturated" -> <<Returns("Ready")>>
      [] ~IsUser(t) /\ status = "RateLimited" ->
             <<RestartsLater("write"), Returns("Suppress")>>
      [] ~IsUser(t) /\ status = "Flushed" -> <<Returns("Suppress")>>
      [] ~IsUser(t) /\ status \in {"PartialWrite", "NothingWritten"} ->
             <<Kills("Disconnect"), Returns("Leaving")>>
      [] ~IsUser(t) /\ status = "Error" -> <<Kills("Error"), Returns("Leaving")>>

NoFlushLocals(t) ==
    /\ quota' = [quota EXCEPT ![t] = 0]
    /\ rate_limited' = [rate_limited EXCEPT ![t] = FALSE]
    /\ ever_succeeded' = [ever_succeeded EXCEPT ![t] = FALSE]

\* GetQuota.
BeginFlush(t) ==
    /\ In(t, "flush")
    /\ \E q \in env.quotas :
         LET bytes == Least(MaxBytes(t), q)
         IN  /\ IF bytes # MaxBytes(t) THEN Pause ELSE UNCHANGED env
             /\ IF bytes = 0
                  THEN Finish(t, OnFlush(t, "RateLimited")) /\ UNCHANGED flushVars
                  ELSE /\ quota' = [quota EXCEPT ![t] = bytes]
                       /\ rate_limited' = [rate_limited EXCEPT ![t] = bytes # MaxBytes(t)]
                       /\ Move(t, "flush_to")
                       /\ UNCHANGED <<ever_succeeded, todo>>
    /\ UNCHANGED <<descVars, listVars, ready, opened, owed, handshakeVars>>

CallFlushTo(t) ==
    /\ In(t, "flush_to") /\ lpc[t] = "idle"
    /\ LoadHead(t, quota[t])
    /\ UNCHANGED <<descVars, connVars>>

\* The kernel's answer depends on the room it has; it may be full afterwards.
CallWriteV(t) ==
    /\ \E rc \in -2..Len(iov[t]) :
         /\ WriteV(t, rc)
         /\ rc = 0 => "closed" \in env.losses
         /\ rc = -1 => "write" \notin ready
         /\ rc = -2 => "failed" \in env.losses
         /\ rc > 0 => "write" \in ready
         /\ \/ rc = Len(iov[t]) /\ UNCHANGED ready
            \/ rc > 0 /\ ready' = ready \ {"write"}
            \/ rc <= 0 /\ UNCHANGED ready
    /\ UNCHANGED <<descVars, handshakeVars, flushVars, cpc, todo, env, opened, owed>>

ListStep(t) ==
    /\ Link(t) \/ LoadTail(t) \/ Walk(t) \/ Rewind(t) \/ LeaveOff(t) \/ MarkEmpty(t) \/ Spin(t)
    /\ UNCHANGED <<descVars, connVars>>

\* FlushTo returned; the loop ends with a status or goes on.
FlushStatus(t) ==
    LET r == result[t]
    IN  CASE r.rc = 0 -> IF ever_succeeded[t] THEN "PartialWrite" ELSE "NothingWritten"
          [] r.rc = -1 -> "SystemBufferSaturated"
          [] r.rc = -2 -> IF ever_succeeded[t] THEN "Error" ELSE "NothingWritten"
          [] r.rc > 0 /\ r.emptied -> "Flushed"
          [] r.rc > 0 /\ ~r.emptied /\ r.short_write -> "SystemBufferSaturated"
          [] OTHER -> IF r.rc < quota[t] THEN "again"
                      ELSE IF rate_limited[t] THEN "RateLimited" ELSE "QuotaExceeded"

FlushReturned(t) ==
    /\ In(t, "flush_to") /\ lpc[t] = "flushed"
    /\ ReturnList(t)
    /\ IF FlushStatus(t) = "again"
         THEN /\ quota' = [quota EXCEPT ![t] = @ - result[t].rc]
              /\ ever_succeeded' = [ever_succeeded EXCEPT ![t] = TRUE]
              /\ UNCHANGED <<rate_limited, cpc, todo>>
         ELSE Finish(t, OnFlush(t, FlushStatus(t))) /\ NoFlushLocals(t)
    /\ UNCHANGED <<descVars, envVars, handshakeVars>>

-----------------------------------------------------------------------------
(* Write, RestartRead and Stop, called by users.                           *)

Written == {order[i].ctx : i \in 1..Len(order)}

\* Write begins with Append; its first step takes tail_.
Write(u, b) ==
    /\ Idle(u) /\ opened
    /\ b \in env.buffers \ Written
    /\ Exchange(u, b)
    /\ Move(u, "write")
    /\ UNCHANGED <<descVars, envVars, handshakeVars, flushVars, todo>>

\* Only the writer that found the list empty goes on.
Appended(u) ==
    /\ In(u, "write") /\ lpc[u] = "appended"
    /\ ReturnList(u)
    /\ Move(u, IF result[u].emptied THEN "look_done" ELSE "idle")
    /\ UNCHANGED <<descVars, envVars, handshakeVars, flushVars, todo>>

LookDone(u) ==
    /\ In(u, "look_done")
    /\ Move(u, IF done THEN "flush" ELSE "leave_mark")
    /\ UNCHANGED <<descVars, listVars, envVars, handshakeVars, flushVars, todo>>

\* Mutant: `done` is not looked at again under the lock.
LeaveMarkUnchecked(u) ==
    /\ In(u, "leave_mark") /\ locker = None
    /\ pending_restart_writes' = TRUE
    /\ Move(u, "idle")
    /\ UNCHANGED <<descVars, listVars, envVars, done, need_restart_read, locker, flushVars,
                   todo>>

\* Before the handshake is done, leave it to the handshake to restart writes.
LeaveMark(u) ==
    /\ In(u, "leave_mark") /\ locker = None
    /\ pending_restart_writes' = (pending_restart_writes \/ ~done)
    /\ Move(u, IF done THEN "flush" ELSE "idle")
    /\ UNCHANGED <<descVars, listVars, envVars, done, need_restart_read, locker, flushVars,
                   todo>>

RestartRead(u) ==
    /\ Idle(u) /\ owed > 0
    /\ owed' = owed - 1
    /\ RestartNow(u, "read")
    /\ UNCHANGED <<listVars, ready, env, opened, handshakeVars, flushVars, cpc, todo>>

Stop(u) ==
    /\ Idle(u) /\ opened
    /\ env.stop /\ env' = [env EXCEPT !.stop = FALSE]
    /\ Kill(u, "UserInitiated")
    /\ UNCHANGED <<listVars, ready, opened, owed, handshakeVars, flushVars, cpc, todo>>

-----------------------------------------------------------------------------
(* The callbacks.                                                          *)

Enter(f) ==
    /\ At(f, "call") /\ In(f, "idle") /\ f[1] \in Dirs
    /\ Move(f, IF ~done THEN "handshake" ELSE IF f[1] = "read" THEN "read" ELSE "flush")
    /\ UNCHANGED <<descVars, listVars, envVars, handshakeVars, flushVars, todo>>

OnError(f) ==
    /\ At(f, "call") /\ In(f, "idle") /\ f[1] = "error"
    /\ Finish(f, <<Kills("Error"), Returns("Ready")>>)
    /\ UNCHANGED <<descVars, listVars, envVars, handshakeVars, flushVars>>

\* OnReadable after the handshake, with OnDataArrival: the stream is drained;
\* the handler suppresses read, having been given all there was or less, and its
\* buffer may have filled up and been emptied more than once before that; the
\* connection is lost; or the quota is used up.
OnReadable(f) ==
    /\ In(f, "read")
    /\ \/ /\ ready' = ready \ {"read"} /\ UNCHANGED <<env, owed>>
          /\ Finish(f, <<Returns("Ready")>>)
       \/ /\ "read" \in ready
          /\ ready' \in {ready, ready \ {"read"}}
          /\ env.pauses > 0
          /\ \E more \in 0..env.restarts :
                /\ owed' = owed + 1 + more
                /\ env' = [env EXCEPT !.pauses = @ - 1, !.restarts = @ - more]
          /\ Finish(f, <<Returns("Suppress")>>)
       \/ /\ "closed" \in env.losses /\ UNCHANGED <<ready, env, owed>>
          /\ Finish(f, <<Kills("Disconnect"), Returns("Leaving")>>)
       \/ /\ "failed" \in env.losses /\ UNCHANGED <<ready, env, owed>>
          /\ Finish(f, <<Kills("Error"), Returns("Leaving")>>)
       \/ /\ Pause /\ UNCHANGED <<ready, owed>>
          /\ Finish(f, <<RestartsLater("read"), Returns("Suppress")>>)
    /\ UNCHANGED <<descVars, listVars, opened, handshakeVars, flushVars>>

-----------------------------------------------------------------------------
(* The operations left to do, in order; Kill waits for its task to be posted. *)

TakesNext(t, op) ==
    /\ In(t, "do") /\ pc[t] \in {"call", "out"}
    /\ Head(todo[t])[1] = op
    /\ Finish(t, Tail(todo[t]))

DoKill(t) ==
    /\ TakesNext(t, "kill")
    /\ Kill(t, Head(todo[t])[2])
    /\ UNCHANGED <<listVars, envVars, handshakeVars, flushVars>>

DoRestart(t) ==
    /\ TakesNext(t, "restart")
    /\ RestartNow(t, Head(todo[t])[2])
    /\ UNCHANGED <<listVars, envVars, handshakeVars, flushVars>>

DoRestartLater(t) ==
    /\ TakesNext(t, "later")
    /\ RestartLater(t, Head(todo[t])[2])
    /\ UNCHANGED <<listVars, envVars, handshakeVars, flushVars>>

DoReturn(t) ==
    /\ TakesNext(t, "return")
    /\ CASE Head(todo[t])[2] = "Ready" -> ReturnReady(t)
         [] Head(todo[t])[2] = "Leaving" -> ReturnLeaving(t)
         [] Head(todo[t])[2] = "Suppress" -> ReturnSuppress(t)
    /\ UNCHANGED <<listVars, envVars, handshakeVars, flushVars>>

DoOpen(t) ==
    /\ TakesNext(t, "open")
    /\ opened' = TRUE
    /\ UNCHANGED <<descVars, listVars, ready, env, owed, handshakeVars, flushVars>>

Post(t) == PostDisable(t) /\ UNCHANGED <<listVars, connVars>>

-----------------------------------------------------------------------------
\* The descriptor's own steps.
LoopStep ==
    /\ \/ \E e \in Events : Poll(e)
       \/ RunUserTasks \/ RunDisable \/ RunClear
       \/ RunSuppress(ready) \/ RunRestart(ready)
       \/ RunCleanup \/ CompleteCleanup
       \/ Check(Loop)
    /\ UNCHANGED <<listVars, connVars>>

FiberStep(f) == (Start(f) \/ Check(f)) /\ UNCHANGED <<listVars, connVars>>

Timer == (\E d \in Dirs : TimerFires(d)) /\ UNCHANGED <<listVars, connVars>>

Handshaking(t) ==
    DoHandshake(t) \/ HandshakeDone(t) \/ RestartWrites(t) \/ StoreDone(t)
        \/ HandshakeWasDone(t)

Flushing(t) ==
    BeginFlush(t) \/ CallFlushTo(t) \/ CallWriteV(t) \/ ListStep(t) \/ FlushReturned(t)

Do(t) == DoKill(t) \/ DoRestart(t) \/ DoRestartLater(t) \/ DoReturn(t) \/ DoOpen(t) \/ Post(t)

UserStep(u) ==
    \/ \E b \in Buffers : Write(u, b)
    \/ Appended(u) \/ LookDone(u) \/ LeaveMark(u) \/ RestartRead(u) \/ Stop(u)

Kernel == (\E d \in Dirs : Arrive(d)) \/ Fail

Next ==
    \/ Kernel \/ Timer \/ LoopStep \/ StartHandshaking
    \/ \E t \in ConnThreads : Handshaking(t) \/ Do(t)
    \/ \E t \in Callers : Flushing(t)
    \/ \E u \in Users : UserStep(u)
    \/ \E f \in Fibers : FiberStep(f) \/ Enter(f) \/ OnError(f) \/ OnReadable(f)

Spec == Init /\ [][Next]_vars

\* The scheduler of the runtime runs some fiber that can run: the one of the
\* event loop, one that handles an event, or one a user is in.
ThreadRuns(t) ==
    \/ Handshaking(t) \/ Do(t)
    \/ t \in Callers /\ Flushing(t)
    \/ t \in Users /\ (Appended(t) \/ LookDone(t) \/ LeaveMark(t))
    \/ t \in Fibers /\ (FiberStep(t) \/ Enter(t) \/ OnError(t) \/ OnReadable(t))
Fairness == WF_vars(LoopStep \/ \E t \in ConnThreads : ThreadRuns(t))
FairSpec == Spec /\ Fairness

-----------------------------------------------------------------------------
\* The types of the list's, the descriptor's and the connection's variables.
TypeOK ==
    /\ ListTypeOK /\ DescTypeOK
    /\ ready \subseteq Dirs
    /\ done \in BOOLEAN /\ need_restart_read \in BOOLEAN /\ pending_restart_writes \in BOOLEAN
    /\ locker \in ConnThreads \cup {None}
    /\ cpc \in [ConnThreads -> {"idle", "handshake", "restart_writes", "store_done", "read",
                                "flush", "flush_to", "write", "look_done", "leave_mark", "do"}]
    /\ todo \in [ConnThreads -> Seq(STRING \X STRING)]
    /\ quota \in [Callers -> Nat]
    /\ rate_limited \in [Callers -> BOOLEAN] /\ ever_succeeded \in [Callers -> BOOLEAN]
    /\ opened \in BOOLEAN /\ owed \in Nat

Has(t, op) == \E i \in 1..Len(todo[t]) : todo[t][i] = op

\* Not killed, and nobody is about to kill it.
Alive ==
    /\ cleanup_reason = None
    /\ \A t \in ConnThreads : \A i \in 1..Len(todo[t]) : todo[t][i][1] # "kill"

(***************************************************************************)
(* FlushTo is called by one thread at a time, and never while the Append   *)
(* that found the list empty is still to store head_: Write flushes only   *)
(* if its Append returned true, OnWritable only after that writer gave up  *)
(* by restarting the write event or leaving its mark.  This takes a stream *)
(* whose handshake does not succeed in OnWritable before a writer has left *)
(* its mark: OnWritable goes on to flush after a Success.                  *)
(***************************************************************************)
FlushContract ==
    \A t \in Callers : In(t, "flush_to") /\ lpc[t] = "idle" => MayFlush

(***************************************************************************)
(* The FLARE_CHECKs of the connection and of its descriptor: one writer    *)
(* leaves a mark, a handshake that asked for writing is not finished by    *)
(* OnReadable, Leaving is returned only by a connection that was killed,   *)
(* and the restart count of the write event stays at 0 or 1 before a       *)
(* restart and after a suppression.                                        *)
(***************************************************************************)
ConnectionChecks ==
    /\ \A t \in ConnThreads :
          /\ In(t, "leave_mark") /\ locker = None /\ ~done => ~pending_restart_writes
          /\ In(t, "handshake") /\ locker = None /\ ~done /\ Callback(t, "read")
                => ~need_restart_read
          /\ In(t, "do") /\ Head(todo[t]) = Returns("Leaving")
                => cleanup_reason # None
    /\ enabled /\ Running("restart") /\ Head(cbs).ev = "write" => restart["write"] \in {0, 1}
    /\ enabled /\ At(Loop, "rearm") /\ Head(cbs).ev = "write" => restart["write"] \in {1, 2}

(***************************************************************************)
(* What writing_buffer_list.h asks of the callers of FlushTo, for every    *)
(* handshake: "only one thread is allowed to call this method at the same  *)
(* time".  A handshake that succeeds in OnWritable breaks it: OnWritable   *)
(* goes on to flush, and so does a writer that has appended to the empty   *)
(* list and sees `done`.                                                   *)
(***************************************************************************)
OneFlusher ==
    \A t, u \in Callers : InFlushTo(t) /\ InFlushTo(u) => t = u

(***************************************************************************)
(* The types, the restart counts that agree with the poller's mask, and    *)
(* the FLARE_CHECKs of the list, the descriptor and the connection, for a  *)
(* stream that meets the condition of FlushContract.                       *)
(***************************************************************************)
ChecksHold == TypeOK /\ RestartCounts /\ ListChecks /\ ConnectionChecks

(***************************************************************************)
(* What has to be done by one fiber at a time is: the handler of an event, *)
(* which runs in a fiber of its own, and FlushTo, which writers, the       *)
(* handler of the write event and the handshake may all call (the latter   *)
(* on the condition of FlushContract).                                     *)
(***************************************************************************)
OneAtATime == OneHandler /\ FlushContract

(***************************************************************************)
(* The bytes reach the socket in the order in which Append took them, none *)
(* twice and none left out, and buffers are reported as written in that    *)
(* order and only when their bytes are out.                                *)
(***************************************************************************)
InOrder == WireInOrder /\ WrittenInOrder

\* How often a task, posted or still to be posted, restarts or suppresses d.
Count(do, d) ==
    Cardinality({i \in 1..Len(tasks) : tasks[i] = Task(do, d)})
        + Cardinality({i \in 1..Len(cbs) : cbs[i] = Task(do, d)})
Restarting(d) ==
    Count("restart", d) + timers[d]
        + Cardinality({t \in ConnThreads : Has(t, Restarts(d)) \/ Has(t, RestartsLater(d))})
Suppressing(d) ==
    Count("suppress", d)
        + Cardinality({f \in Fibers : f[1] = d /\ Has(f, Returns("Suppress"))})

(***************************************************************************)
(* No buffer is forgotten.  While the list is not empty and the connection *)
(* lives, somebody is to flush it: a writer on its way, the handshake for  *)
(* a writer that left its mark, the write handler, or the poller, armed or *)
(* to be armed once all Restart and Suppress tasks under way are run.      *)
(***************************************************************************)
SomeoneFlushes ==
    tail_ # Null /\ Alive =>
        \/ \E u \in Users :
              \/ lpc[u] = "link" /\ from[u] = Null
              \/ lpc[u] = "appended" /\ result[u].emptied
              \/ cpc[u] \in {"look_done", "leave_mark", "flush", "flush_to"}
        \/ pending_restart_writes /\ ~done
        \/ \E f \in Fibers : Callback(f, "write") /\ cpc[f] \in {"flush", "flush_to"}
        \/ restart["write"] + Restarting("write") > Suppressing("write")

(***************************************************************************)
(* No event is lost.  While no error was reported (which drops the events  *)
(* that came with it), the poller is armed for d and there is data to read *)
(* (room to write), the poller is about to report it, or a handler has yet *)
(* to look, or will be run again: for an event counted while it was        *)
(* running, or after its Suppress has been undone by a Restart.            *)
(***************************************************************************)
NoLostEvent ==
    \A d \in Dirs :
        Alive /\ ~error_seen /\ d \in mask /\ d \in ready =>
            \/ d \in edge
            \/ ToClear(d) \/ At(Loop, "pending") \/ At(Loop, "rearm")
            \/ \E f \in Fibers :
                  /\ Callback(f, d) /\ Handling(f)
                  /\ Has(f, Returns("Ready")) => events[d] > 1

(***************************************************************************)
(* A killed connection is cleaned up: OnCleanup is called and WaitForCleanup *)
(* returns, whoever killed it and whatever the handlers were doing.        *)
(***************************************************************************)
KilledIsCleanedUp == cleanup_reason # None ~> cleanup_completed
=============================================================================
