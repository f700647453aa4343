------------------------------ MODULE Descriptor ------------------------------
(***************************************************************************)
(* flare/io/descriptor.cc and flare/io/event_loop.cc: a descriptor attached *)
(* to an event loop, from AttachDescriptor to OnCleanup.                   *)
(*                                                                         *)
(* The event loop is one thread.  It polls, fires what it polled, then     *)
(* runs the tasks that were posted to it.  A fired event is handled by a   *)
(* fiber, which calls the OnXxx callback of the descriptor.  Fibers, users *)
(* and timers run concurrently with the loop and with each other; they     *)
(* touch the descriptor only through atomics and posted tasks.  Every      *)
(* action is one access to a variable two threads share; what only the     *)
(* loop touches (enabled, mask, restart counts) is merged into it.         *)
(*                                                                         *)
(* What a callback does is left open: a thread inside one may kill the     *)
(* descriptor, restart events, and return any action.                      *)
(***************************************************************************)
EXTENDS Integers, Sequences, FiniteSets

CONSTANTS Users,     \* threads and fibers outside of the descriptor's callbacks
          Ids,       \* names for the fibers an event is handled by
          Loop,      \* the fiber that runs EventLoop::Run
          Reasons,   \* the CleanupReasons other than None
          None

ASSUME DescriptorAssumption ==
    /\ None \notin Reasons
    /\ Loop \notin Users
    /\ \A e \in {"read", "write", "error"}, i \in Ids : <<e, i>> \notin Users \cup {Loop}

Dirs == {"read", "write"}
Events == Dirs \cup {"error"}
Fibers == Events \X Ids
DescThreads == {Loop} \cup Users \cup Fibers

VARIABLES
    events,             \* read_events_, write_events_, error_events
    error_seen,
    restart,            \* restart_read_count_, restart_write_count_
    mask,               \* event_mask
    enabled,            \* Enabled()
    edge,               \* external: events the poller has for the next Wait
    cleanup_reason, cleanup_pending, cleanup_queued, cleanup_completed,
    attached,           \* the event loop holds its reference
    tasks, cbs,         \* tasks_, and the batch RunUserTasks took
    timers,             \* timers that will restart an event
    pc,                 \* where each thread is
    ret                 \* where it goes after QueueCleanupCallbackCheck or Kill

cleanupVars == <<cleanup_reason, cleanup_pending, cleanup_queued, cleanup_completed, attached>>
armVars == <<restart, mask, enabled, edge>>
taskVars == <<tasks, cbs>>
descVars == <<events, error_seen, armVars, cleanupVars, taskVars, timers, pc, ret>>

Task(do, e) == [do |-> do, ev |-> e]
AddTask(task) == tasks' = Append(tasks, task)

\* The constructor, with no event enabled, and AttachDescriptor.
DescInit ==
    /\ events = [e \in Events |-> 0]
    /\ error_seen = FALSE
    /\ restart = [d \in Dirs |-> 0]
    /\ mask = {} /\ enabled = TRUE /\ edge = {}
    /\ cleanup_reason = None
    /\ cleanup_pending = FALSE /\ cleanup_queued = FALSE /\ cleanup_completed = FALSE
    /\ attached = TRUE
    /\ tasks = <<>> /\ cbs = <<>>
    /\ timers = [d \in Dirs |-> 0]
    /\ pc = [t \in DescThreads |-> IF t = Loop THEN "wait"
                                   ELSE IF t \in Users THEN "out" ELSE "none"]
    /\ ret = [t \in DescThreads |-> "none"]

At(t, l) == pc[t] = l
Goto(t, l) == pc' = [pc EXCEPT ![t] = l]
Call(t, l, back) == Goto(t, l) /\ ret' = [ret EXCEPT ![t] = back]

-----------------------------------------------------------------------------
(* FireEvents.                                                             *)

\* Mutant: an event that comes while a fiber is running is taken for granted.
FireEventOnce(e) ==
    /\ events' = [events EXCEPT ![e] = 1]
    /\ error_seen' = (error_seen \/ e = "error")

\* fetch_add on the counter; the first event starts a fiber.
FireEvent(e) ==
    /\ events' = [events EXCEPT ![e] = @ + 1]
    /\ error_seen' = (error_seen \/ e = "error")

\* The fiber FireEvent starts, if it starts one.
Starts(e) == IF events[e] = 0 THEN {<<e, i>> : i \in Ids} ELSE {}
FirePc(e, next) ==
    \/ Starts(e) = {} /\ Goto(Loop, next)
    \/ \E f \in Starts(e) : At(f, "none")
          /\ pc' = [pc EXCEPT ![f] = "start", ![Loop] = next]

\* WaitAndRunEvents.  An error comes first, and what was polled with it is
\* dropped; the second error is ignored.
Poll(e) ==
    /\ At(Loop, "wait")
    /\ e \in edge
    /\ "error" \in edge => e = "error"
    /\ edge' = IF e = "error" THEN {} ELSE edge \ {e}
    /\ IF e = "error" /\ error_seen
         THEN UNCHANGED <<events, error_seen, pc>>
         ELSE FireEvent(e) /\ FirePc(e, "wait")
    /\ UNCHANGED <<restart, mask, enabled, cleanupVars, taskVars, timers, ret>>

\* External: events the poller is armed for happen; it always is for errors.
Edge(es) ==
    /\ enabled
    /\ es \subseteq mask \cup {"error"}
    /\ edge' = edge \cup es
    /\ UNCHANGED <<events, error_seen, restart, mask, enabled, cleanupVars, taskVars,
                   timers, pc, ret>>

-----------------------------------------------------------------------------
(* The fiber of an event.                                                  *)

\* It takes its reference to the descriptor and enters the callback.
Start(f) ==
    /\ At(f, "start")
    /\ Goto(f, "call")
    /\ UNCHANGED <<events, error_seen, armVars, cleanupVars, taskVars, timers, ret>>

\* Mutant: only Leaving and Suppress are followed by the check.
ReturnReadyNoCheck(f) ==
    /\ At(f, "call")
    /\ events' = [events EXCEPT ![f[1]] = @ - 1]
    /\ IF events[f[1]] # 1 /\ f[1] # "error" THEN UNCHANGED pc ELSE Goto(f, "none")
    /\ UNCHANGED <<error_seen, armVars, cleanupVars, taskVars, timers, ret>>

\* The callback returned Ready (or was OnError): fetch_sub, and another round
\* unless this was the last event.
ReturnReady(f) ==
    /\ At(f, "call")
    /\ events' = [events EXCEPT ![f[1]] = @ - 1]
    /\ IF events[f[1]] # 1 /\ f[1] # "error"
         THEN UNCHANGED <<pc, ret>>
         ELSE Call(f, "pending", "none")
    /\ UNCHANGED <<error_seen, armVars, cleanupVars, taskVars, timers>>

\* It returned Leaving or Suppress: the loop is to reset the counter.
ReturnLeaving(f) ==
    /\ At(f, "call") /\ f[1] \in Dirs
    /\ cleanup_reason # None
    /\ AddTask(Task("clear", f[1]))
    /\ Call(f, "pending", "none")
    /\ UNCHANGED <<events, error_seen, armVars, cleanupVars, cbs, timers>>

\* Mutant: the fiber gives its event back as well.
ReturnSuppressAndSub(f) ==
    /\ At(f, "call") /\ f[1] \in Dirs
    /\ events' = [events EXCEPT ![f[1]] = @ - 1]
    /\ AddTask(Task("suppress", f[1]))
    /\ Call(f, "pending", "none")
    /\ UNCHANGED <<error_seen, armVars, cleanupVars, cbs, timers>>

ReturnSuppress(f) ==
    /\ At(f, "call") /\ f[1] \in Dirs
    /\ AddTask(Task("suppress", f[1]))
    /\ Call(f, "pending", "none")
    /\ UNCHANGED <<events, error_seen, armVars, cleanupVars, cbs, timers>>

-----------------------------------------------------------------------------
(* What users, callbacks and timers do.                                    *)

\* Kill: the first reason wins; the winner then posts the task.
Kill(t, reason) ==
    /\ pc[t] \in {"call", "out"}
    /\ IF cleanup_reason = None
         THEN cleanup_reason' = reason /\ Call(t, "post", pc[t])
         ELSE UNCHANGED <<cleanup_reason, pc, ret>>
    /\ UNCHANGED <<events, error_seen, armVars, cleanup_pending, cleanup_queued,
                   cleanup_completed, attached, taskVars, timers>>

PostDisable(t) ==
    /\ At(t, "post")
    /\ AddTask(Task("disable", "none"))
    /\ Goto(t, ret[t])
    /\ UNCHANGED <<events, error_seen, armVars, cleanupVars, cbs, timers, ret>>

RestartNow(t, d) ==
    /\ pc[t] \in {"call", "out"}
    /\ AddTask(Task("restart", d))
    /\ UNCHANGED <<events, error_seen, armVars, cleanupVars, cbs, timers, pc, ret>>

RestartLater(t, d) ==
    /\ pc[t] \in {"call", "out"}
    /\ timers' = [timers EXCEPT ![d] = @ + 1]
    /\ UNCHANGED <<events, error_seen, armVars, cleanupVars, taskVars, pc, ret>>

TimerFires(d) ==
    /\ timers[d] > 0
    /\ timers' = [timers EXCEPT ![d] = @ - 1]
    /\ AddTask(Task("restart", d))
    /\ UNCHANGED <<events, error_seen, armVars, cleanupVars, cbs, pc, ret>>

-----------------------------------------------------------------------------
(* QueueCleanupCallbackCheck, called by the fibers and by the loop's tasks. *)

CheckPending(t) ==
    /\ At(t, "pending")
    /\ Goto(t, IF cleanup_pending THEN "read" ELSE ret[t])
    /\ UNCHANGED <<events, error_seen, armVars, cleanupVars, taskVars, timers, ret>>

\* Mutant: the counter of errors is not looked at.
AfterCheckNoError == [read |-> "write", write |-> "queue", error |-> "queue"]

\* The counter that is looked at next.
AfterCheck == [read |-> "write", write |-> "error", error |-> "queue"]

CheckCounter(t) ==
    /\ pc[t] \in Events
    /\ Goto(t, IF events[pc[t]] = 0 THEN AfterCheck[pc[t]] ELSE ret[t])
    /\ UNCHANGED <<events, error_seen, armVars, cleanupVars, taskVars, timers, ret>>

QueueCleanup(t) ==
    /\ At(t, "queue")
    /\ cleanup_queued' = TRUE
    /\ IF cleanup_queued THEN UNCHANGED tasks ELSE AddTask(Task("cleanup", "none"))
    /\ Goto(t, ret[t])
    /\ UNCHANGED <<events, error_seen, armVars, cleanup_reason, cleanup_pending,
                   cleanup_completed, attached, cbs, timers, ret>>

-----------------------------------------------------------------------------
(* RunUserTasks.  The task at the head of cbs is the next one, or the one  *)
(* that is being run; it is taken off in the last step that looks at it.   *)

RunUserTasks ==
    /\ At(Loop, "wait")
    /\ tasks # <<>>
    /\ cbs' = tasks /\ tasks' = <<>>
    /\ Goto(Loop, "task")
    /\ UNCHANGED <<events, error_seen, armVars, cleanupVars, timers, ret>>

Running(do) == At(Loop, "task") /\ cbs # <<>> /\ Head(cbs).do = do

PopTask ==
    /\ cbs' = Tail(cbs)
    /\ UNCHANGED tasks
AfterTask == IF Len(cbs) = 1 THEN "wait" ELSE "task"

\* Kill's task.
RunDisable ==
    /\ Running("disable")
    /\ enabled' = FALSE /\ edge' = {}
    /\ cleanup_pending' = TRUE
    /\ PopTask /\ Call(Loop, "pending", AfterTask)
    /\ UNCHANGED <<events, error_seen, restart, mask, cleanup_reason, cleanup_queued,
                   cleanup_completed, attached, timers>>

\* The tasks of Leaving and, up to its check, of Suppress.
RunClear ==
    /\ Running("clear") \/ Running("suppress")
    /\ events' = [events EXCEPT ![Head(cbs).ev] = 0]
    /\ IF Running("clear")
         THEN PopTask /\ Call(Loop, "pending", AfterTask)
         ELSE UNCHANGED taskVars /\ Call(Loop, "pending", "rearm")
    /\ UNCHANGED <<error_seen, armVars, cleanupVars, timers>>

\* RearmDescriptor: the poller looks again at what it is armed for and has
\* the events of `ready` at once.
Rearm(ready) == edge' = (edge \cap {"error"}) \cup (mask' \cap ready)

\* The rest of Suppress: a restart that came first makes up for the event the
\* poller will not report again.
RunSuppress(ready) ==
    LET d == Head(cbs).ev
    IN  /\ At(Loop, "rearm")
        /\ PopTask
        /\ IF ~enabled
             THEN Goto(Loop, AfterTask) /\ UNCHANGED <<events, error_seen, armVars>>
             ELSE /\ restart' = [restart EXCEPT ![d] = @ - 1]
                  /\ IF restart[d] = 1
                       THEN /\ mask' = mask \ {d} /\ Rearm(ready)
                            /\ Goto(Loop, AfterTask)
                            /\ UNCHANGED <<events, error_seen>>
                       ELSE /\ FireEvent(d) /\ FirePc(d, AfterTask)
                            /\ UNCHANGED <<mask, edge>>
                  /\ UNCHANGED enabled
        /\ UNCHANGED <<cleanupVars, timers, ret>>

\* RestartReadNow, RestartWriteNow.
RunRestart(ready) ==
    LET d == Head(cbs).ev
    IN  /\ Running("restart")
        /\ PopTask /\ Goto(Loop, AfterTask)
        /\ IF enabled
             THEN /\ restart' = [restart EXCEPT ![d] = @ + 1]
                  /\ IF restart[d] = 0
                       THEN mask' = mask \cup {d} /\ Rearm(ready)
                       ELSE UNCHANGED <<mask, edge>>
             ELSE UNCHANGED <<restart, mask, edge>>
        /\ UNCHANGED <<events, error_seen, enabled, cleanupVars, timers, ret>>

\* DetachDescriptor and OnCleanup, then WaitForCleanup is let go.
RunCleanup ==
    /\ Running("cleanup")
    /\ attached' = FALSE
    /\ Goto(Loop, "cleanup")
    /\ UNCHANGED <<events, error_seen, armVars, cleanup_reason, cleanup_pending,
                   cleanup_queued, cleanup_completed, taskVars, timers, ret>>

CompleteCleanup ==
    /\ At(Loop, "cleanup")
    /\ cleanup_completed' = TRUE
    /\ PopTask /\ Goto(Loop, AfterTask)
    /\ UNCHANGED <<events, error_seen, armVars, cleanup_reason, cleanup_pending,
                   cleanup_queued, attached, timers, ret>>

-----------------------------------------------------------------------------
Return(f) == ReturnReady(f) \/ ReturnLeaving(f) \/ ReturnSuppress(f)

Check(t) == CheckPending(t) \/ CheckCounter(t) \/ QueueCleanup(t)

LoopRuns ==
    \/ RunUserTasks \/ RunDisable \/ RunClear
    \/ \E ready \in SUBSET Dirs : RunSuppress(ready) \/ RunRestart(ready)
    \/ RunCleanup \/ CompleteCleanup

DescNext ==
    \/ \E e \in Events : Poll(e)
    \/ \E es \in SUBSET Events : Edge(es)
    \/ \E f \in Fibers : Start(f) \/ Return(f)
    \/ \E t \in DescThreads :
          \/ \E reason \in Reasons : Kill(t, reason)
          \/ \E d \in Dirs : RestartNow(t, d) \/ RestartLater(t, d)
          \/ PostDisable(t) \/ Check(t)
    \/ \E d \in Dirs : TimerFires(d)
    \/ LoopRuns

DescSpec == DescInit /\ [][DescNext]_descVars

-----------------------------------------------------------------------------
Tasks == [do : {"disable", "clear", "suppress", "restart", "cleanup"},
          ev : Dirs \cup {"none"}]

DescTypeOK ==
    /\ events \in [Events -> Int]
    /\ error_seen \in BOOLEAN
    /\ restart \in [Dirs -> Int]
    /\ mask \subseteq Dirs
    /\ enabled \in BOOLEAN
    /\ edge \subseteq Events
    /\ cleanup_reason \in Reasons \cup {None}
    /\ cleanup_pending \in BOOLEAN /\ cleanup_queued \in BOOLEAN
    /\ cleanup_completed \in BOOLEAN /\ attached \in BOOLEAN
    /\ tasks \in Seq(Tasks) /\ cbs \in Seq(Tasks)
    /\ timers \in [Dirs -> Nat]
    /\ pc \in [DescThreads -> {"none", "out", "start", "call", "post", "pending", "read",
                               "write", "error", "queue", "wait", "task", "rearm", "cleanup"}]
    /\ ret \in [DescThreads -> {"none", "out", "call", "wait", "task", "rearm"}]

\* A fiber that handles an event: from its start to the fetch_sub that ends
\* its loop, or to the post of the task that will clear the counter.
Handling(f) == pc[f] \in {"start", "call", "post"}

\* A task that is to clear the counter of d: it has been posted, and has not
\* stored the zero yet.
Clears(task, d) == task.do \in {"clear", "suppress"} /\ task.ev = d
ToClear(d) ==
    \/ \E i \in 1..Len(tasks) : Clears(tasks[i], d)
    \/ \E i \in 1..Len(cbs) : Clears(cbs[i], d) /\ (i = 1 => At(Loop, "task") \/ ret[Loop] # "rearm")

(***************************************************************************)
(* OnReadable and OnWritable are never run by two fibers at once, nor is   *)
(* one of them started while a task that will reset its counter is still   *)
(* to come: FireReadEvent starts a fiber only when the counter was zero,   *)
(* and the counter is not zero before the fiber has left or its Leaving or *)
(* Suppress has been dealt with by the loop.                               *)
(***************************************************************************)
OneHandler ==
    \A f \in Fibers :
        Handling(f) =>
            /\ events[f[1]] > 0
            /\ ~ToClear(f[1])
            /\ \A g \in Fibers : Handling(g) /\ g[1] = f[1] => g = f

(***************************************************************************)
(* OnCleanup comes last and once.  When its task is run, and ever after,   *)
(* the counters are zero (the FLARE_CHECKs of the task), no fiber is in a  *)
(* callback or has yet to take its reference, the poller does not know the *)
(* descriptor, and no task that uses it without a reference is left.       *)
(***************************************************************************)
CleanupIsLast ==
    Running("cleanup") \/ ~attached =>
        /\ ~enabled /\ edge = {}
        /\ \A e \in Events : events[e] = 0
        /\ \A f \in Fibers : ~Handling(f)
        /\ \A i \in 1..Len(tasks) : tasks[i].do \notin {"clear", "cleanup"}
        /\ \A i \in 2..Len(cbs) : cbs[i].do \notin {"clear", "cleanup"}
        /\ Running("cleanup") => attached

(***************************************************************************)
(* The FLARE_CHECKs on the restart counts: a Suppress never takes the      *)
(* count below zero, and the poller is armed for an event exactly when its *)
(* count is not zero, in whatever order Suppress and Restart tasks arrive. *)
(***************************************************************************)
RestartCounts ==
    enabled => /\ \A d \in Dirs : d \in mask <=> restart[d] > 0
               /\ At(Loop, "rearm") => restart[Head(cbs).ev] > 0
=============================================================================
