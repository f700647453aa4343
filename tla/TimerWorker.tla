---------------------------- MODULE TimerWorker -----------------------------
(***************************************************************************)
(* The timers of a scheduling group (fiber/detail/timer_worker.cc).  Every  *)
(* thread of the group adds timers to a queue of its own; the timer worker, *)
(* a thread too, collects the queues into a heap, fires what has expired    *)
(* and sleeps until the next timer expires.  Whoever adds a timer that is   *)
(* due earlier wakes it up.                                                 *)
(*                                                                         *)
(* The threads are 0..GroupSize, the last one is the timer worker, which    *)
(* adds timers as well when it runs a callback.  A step lies between two    *)
(* accesses to shared memory; what a lock protects is one step, except      *)
(* under lock_, whose purpose is to keep the test of the worker and its     *)
(* going to sleep together.  The heap is a set: the worker only looks at    *)
(* and removes a smallest element.                                          *)
(*                                                                         *)
(* The module also has the fibers that a periodic timer starts, and         *)
(* `UserCallback::Run` of fiber/timer.cc, which keeps their calls apart.    *)
(***************************************************************************)
EXTENDS Integers, FiniteSets

CONSTANTS GroupSize,  \* the number of workers of the group
          Timers,     \* the timers that are ever created
          Periodic,   \* those that are periodic
          Interval,   \* Entry::interval
          Slack,      \* how old a periodic timer may be (10 s in the code)
          MaxTime,    \* where the clock of the model stops
          Never,      \* duration::max()
          None        \* no timer

ASSUME GroupAssumption == GroupSize \in Nat
ASSUME TimeAssumption ==
    /\ Interval \in Nat \ {0} /\ Slack \in Nat /\ MaxTime \in Nat
    /\ Never \in Nat /\ MaxTime + Interval < Never
ASSUME TimersAssumption == Periodic \subseteq Timers /\ None \notin Timers

VARIABLES
    now,               \* the steady clock
    expires_at,        \* Entry::expires_at
    cancelled,         \* Entry::cancelled
    cb,                \* whether Entry::cb holds the user's callback
    handle,            \* the id: "new" until the timer is created, "held" while the
                       \* user may kill it
    queue,             \* ThreadLocalQueue::timers
    earliest,          \* ThreadLocalQueue::earliest
    timers_,           \* the heap
    next_expires_at_,
    stopped_,
    lock_,             \* whether the worker holds lock_
    notified,          \* whether cv_ was notified while the worker slept
    apc,               \* what each thread does in WakeWorkerIfNeeded
    target,            \* its argument
    r,                 \* its local variable
    wpc,               \* what the worker does in WorkerProc
    reaped,            \* the next queue to reap
    fire_now,          \* `now` of FireTimers
    top,               \* the entry that FireTimers looks at
    expected,          \* the time that the worker wants to sleep until
    fired,             \* how often a timer's callback was called
    started,           \* fibers of a periodic timer that have not begun to run
    remaining,         \* UserCallback::remaining
    running,           \* fibers that call the user's callback
    calls              \* how often they have called it

entryVars == <<expires_at, cancelled, cb, handle>>
queueVars == <<queue, earliest>>
sleepVars == <<stopped_, lock_, notified, expected>>
wakeVars == <<apc, target, r>>
fireVars == <<reaped, fire_now, top>>
runVars == <<started, remaining, running, calls>>
vars == <<now, entryVars, queueVars, timers_, next_expires_at_, sleepVars, wakeVars,
          wpc, fireVars, fired, runVars>>

Threads == 0..GroupSize
Worker == GroupSize

Init ==
    /\ now = 0
    /\ expires_at = [t \in Timers |-> 0]
    /\ cancelled = [t \in Timers |-> FALSE]
    /\ cb = [t \in Timers |-> FALSE]
    /\ handle = [t \in Timers |-> "new"]
    /\ queue = [p \in Threads |-> {}]
    /\ earliest = [p \in Threads |-> Never]
    /\ timers_ = {}
    /\ next_expires_at_ = Never
    /\ stopped_ = FALSE
    /\ lock_ = FALSE
    /\ notified = FALSE
    /\ apc = [p \in Threads |-> "idle"]
    /\ target = [p \in Threads |-> 0]
    /\ r = [p \in Threads |-> 0]
    /\ wpc = "loop"
    /\ reaped = 0
    /\ fire_now = 0
    /\ top = None
    /\ expected = 0
    /\ fired = [t \in Timers |-> 0]
    /\ started = [t \in Timers |-> 0]
    /\ remaining = [t \in Timers |-> 0]
    /\ running = [t \in Timers |-> 0]
    /\ calls = [t \in Timers |-> 0]

-----------------------------------------------------------------------------
(* Adding and killing timers.                                               *)

\* CreateTimer: a periodic timer must not lie too far in the past.
CreateTimer(t, e) == IF t \in Periodic /\ now > e + Slack THEN now ELSE e

\* AddTimer: into the thread's queue; the worker has to know about it only if it
\* is the earliest there.
AddTimer(p, t, e) ==
    /\ queue' = [queue EXCEPT ![p] = @ \cup {t}]
    /\ IF earliest[p] > e
       THEN /\ earliest' = [earliest EXCEPT ![p] = e]
            /\ target' = [target EXCEPT ![p] = e]
            /\ apc' = [apc EXCEPT ![p] = "load"]
       ELSE UNCHANGED <<earliest, target, apc>>

\* CreateTimer and EnableTimer, by a fiber on p or by a callback on the worker.
EnableTimer(p, t) ==
    /\ handle[t] = "new"
    /\ apc[p] = "idle" /\ (p = Worker => wpc = "callback")
    /\ \E at \in 0..MaxTime :
          LET e == CreateTimer(t, at)
          IN  expires_at' = [expires_at EXCEPT ![t] = e] /\ AddTimer(p, t, e)
    /\ cb' = [cb EXCEPT ![t] = TRUE]
    /\ handle' = [handle EXCEPT ![t] = "held"]
    /\ UNCHANGED <<now, cancelled, timers_, next_expires_at_, sleepVars, r, wpc,
                   fireVars, fired, runVars>>

\* RemoveTimer: it may come at any time, also while the callback runs.
RemoveTimer(t) ==
    /\ handle[t] = "held"
    /\ handle' = [handle EXCEPT ![t] = "dropped"]
    /\ cancelled' = [cancelled EXCEPT ![t] = TRUE]
    /\ cb' = [cb EXCEPT ![t] = FALSE]
    /\ UNCHANGED <<now, expires_at, queueVars, timers_, next_expires_at_, sleepVars,
                   wakeVars, wpc, fireVars, fired, runVars>>

\* DetachTimer: the timer cannot be killed any more.
DetachTimer(t) ==
    /\ handle[t] = "held"
    /\ handle' = [handle EXCEPT ![t] = "dropped"]
    /\ UNCHANGED <<now, expires_at, cancelled, cb, queueVars, timers_,
                   next_expires_at_, sleepVars, wakeVars, wpc, fireVars, fired, runVars>>

-----------------------------------------------------------------------------
(* WakeWorkerIfNeeded.  Local variables are 0 when they are out of scope.   *)

Return(p) ==
    /\ apc' = [apc EXCEPT ![p] = "idle"]
    /\ target' = [target EXCEPT ![p] = 0]
    /\ r' = [r EXCEPT ![p] = 0]

\* Return if the worker wakes up early enough, otherwise try to move it.
Compare(p) ==
    IF next_expires_at_ <= target[p] THEN Return(p)
    ELSE /\ apc' = [apc EXCEPT ![p] = "cas"]
         /\ r' = [r EXCEPT ![p] = next_expires_at_]
         /\ UNCHANGED target

WakeLoad(p) ==
    /\ apc[p] = "load"
    /\ Compare(p)
    /\ UNCHANGED <<now, entryVars, queueVars, timers_, next_expires_at_, sleepVars,
                   wpc, fireVars, fired, runVars>>

\* Exchange and notify without lock_.
WakeCasUnlocked(p) ==
    /\ apc[p] = "cas"
    /\ IF next_expires_at_ = r[p]
       THEN /\ next_expires_at_' = target[p]
            /\ notified' = (notified \/ wpc = "asleep")
            /\ Return(p)
       ELSE Compare(p) /\ UNCHANGED <<next_expires_at_, notified>>
    /\ UNCHANGED <<now, entryVars, queueVars, timers_, stopped_, lock_, expected, wpc,
                   fireVars, fired, runVars>>

\* The compare-exchange and the notification, under lock_.
WakeCas(p) ==
    /\ apc[p] = "cas" /\ ~lock_
    /\ IF next_expires_at_ = r[p]
       THEN /\ next_expires_at_' = target[p]
            /\ notified' = (notified \/ wpc = "asleep")
            /\ Return(p)
       ELSE Compare(p) /\ UNCHANGED <<next_expires_at_, notified>>
    /\ UNCHANGED <<now, entryVars, queueVars, timers_, stopped_, lock_, expected, wpc,
                   fireVars, fired, runVars>>

-----------------------------------------------------------------------------
(* WorkerProc.  The worker's own calls of WakeWorkerIfNeeded must have      *)
(* returned before it goes on.                                              *)

At(label) == wpc = label /\ apc[Worker] = "idle"

\* The top of the loop: stop, or reset next_expires_at_.
Loop ==
    /\ At("loop")
    /\ IF stopped_
       THEN wpc' = "left" /\ UNCHANGED next_expires_at_
       ELSE wpc' = "reap" /\ next_expires_at_' = Never
    /\ UNCHANGED <<now, entryVars, queueVars, timers_, sleepVars, wakeVars, fireVars,
                   fired, runVars>>

\* ReapThreadLocalQueues, one queue at a time.
ReapThreadLocalQueues ==
    /\ At("reap")
    /\ timers_' = timers_ \cup {t \in queue[reaped] : ~cancelled[t]}
    /\ queue' = [queue EXCEPT ![reaped] = {}]
    /\ earliest' = [earliest EXCEPT ![reaped] = Never]
    /\ IF reaped = GroupSize THEN wpc' = "fire" /\ reaped' = 0
       ELSE reaped' = reaped + 1 /\ UNCHANGED wpc
    /\ UNCHANGED <<now, entryVars, next_expires_at_, sleepVars, wakeVars, fire_now, top,
                   fired, runVars>>

\* FireTimers reads the clock once.
FireTimers ==
    /\ At("fire")
    /\ fire_now' = now
    /\ wpc' = "top"
    /\ UNCHANGED <<now, entryVars, queueVars, timers_, next_expires_at_, sleepVars,
                   wakeVars, reaped, top, fired, runVars>>

IsTop(t) == t \in timers_ /\ \A u \in timers_ : expires_at[t] <= expires_at[u]

\* Fire without looking at the time.
DueAlways(t) == TRUE

Due(t) == expires_at[t] <= fire_now

FireEnds == wpc' = "rearm" /\ top' = None /\ fire_now' = 0 /\ UNCHANGED timers_

\* Stop at a timer that was killed.
SkipCancelledEnds(t) == FireEnds

SkipCancelled(t) == timers_' = timers_ \ {t} /\ UNCHANGED <<wpc, top, fire_now>>

\* FireTimers looks at the top of the heap; it is done when the heap is empty or
\* its top has not expired.
FireTop ==
    /\ At("top")
    /\ \/ timers_ = {} /\ FireEnds
       \/ \E t \in Timers :
             /\ IsTop(t)
             /\ CASE cancelled[t] -> SkipCancelled(t)
                  [] ~cancelled[t] /\ ~Due(t) -> FireEnds
                  [] OTHER -> wpc' = "take" /\ top' = t /\ UNCHANGED <<timers_, fire_now>>
    /\ UNCHANGED <<now, entryVars, queueVars, next_expires_at_, sleepVars, wakeVars,
                   reaped, fired, runVars>>

\* Call the callback without looking whether it is there.
FireTakeUnchecked ==
    /\ At("take")
    /\ cb' = [cb EXCEPT ![top] = FALSE]
    /\ wpc' = "call"
    /\ UNCHANGED <<now, expires_at, cancelled, handle, queueVars, timers_,
                   next_expires_at_, sleepVars, wakeVars, fireVars, fired, runVars>>

\* It moves the callback out of the entry; RemoveTimer may have been faster.
FireTake ==
    /\ At("take")
    /\ cb' = [cb EXCEPT ![top] = FALSE]
    /\ IF cb[top] THEN wpc' = "call" /\ UNCHANGED timers_
       ELSE wpc' = "top" /\ timers_' = timers_ \ {top}
    /\ UNCHANGED <<now, expires_at, cancelled, handle, queueVars, next_expires_at_,
                   sleepVars, wakeVars, fireVars, fired, runVars>>

\* It calls the callback; that of a periodic timer starts a fiber.
FireCall ==
    /\ At("call")
    /\ fired' = [fired EXCEPT ![top] = @ + 1]
    /\ started' = IF top \in Periodic THEN [started EXCEPT ![top] = @ + 1] ELSE started
    /\ wpc' = "callback"
    /\ UNCHANGED <<now, entryVars, queueVars, timers_, next_expires_at_, sleepVars,
                   wakeVars, fireVars, remaining, running, calls>>

\* Arm a periodic timer again whether or not it was killed in the meantime.
FireAgainAlways ==
    /\ At("callback")
    /\ wpc' = "top"
    /\ IF top \in Periodic
       THEN /\ expires_at' = [expires_at EXCEPT ![top] = @ + Interval]
            /\ cb' = [cb EXCEPT ![top] = TRUE]
            /\ UNCHANGED timers_
       ELSE timers_' = timers_ \ {top} /\ UNCHANGED <<expires_at, cb>>
    /\ UNCHANGED <<now, cancelled, handle, queueVars, next_expires_at_, sleepVars,
                   wakeVars, fireVars, fired, runVars>>

\* The callback has returned: a periodic timer goes back into the heap.
FireAgain ==
    /\ At("callback")
    /\ wpc' = "top"
    /\ IF top \in Periodic /\ ~cancelled[top]
       THEN /\ expires_at' = [expires_at EXCEPT ![top] = @ + Interval]
            /\ cb' = [cb EXCEPT ![top] = TRUE]
            /\ UNCHANGED timers_
       ELSE timers_' = timers_ \ {top} /\ UNCHANGED <<expires_at, cb>>
    /\ UNCHANGED <<now, cancelled, handle, queueVars, next_expires_at_, sleepVars,
                   wakeVars, fireVars, fired, runVars>>

\* Sleep no longer than to the top of the heap.
Rearm ==
    /\ At("rearm")
    /\ wpc' = "lock"
    /\ \/ timers_ = {} /\ UNCHANGED <<apc, target>>
       \/ \E t \in Timers :
             /\ IsTop(t)
             /\ apc' = [apc EXCEPT ![Worker] = "load"]
             /\ target' = [target EXCEPT ![Worker] = expires_at[t]]
    /\ UNCHANGED <<now, entryVars, queueVars, timers_, next_expires_at_, sleepVars, r,
                   fireVars, fired, runVars>>

\* Take lock_ and read when to wake up.
Lock ==
    /\ At("lock") /\ ~lock_
    /\ lock_' = TRUE
    /\ expected' = next_expires_at_
    /\ wpc' = "test"
    /\ UNCHANGED <<now, entryVars, queueVars, timers_, next_expires_at_, stopped_,
                   notified, wakeVars, fireVars, fired, runVars>>

\* wait_until tests its predicate, and then blocks, which releases lock_.
Test ==
    /\ At("test")
    /\ IF next_expires_at_ # expected \/ stopped_
       THEN wpc' = "loop" /\ lock_' = FALSE /\ expected' = 0
       ELSE wpc' = "block" /\ UNCHANGED <<lock_, expected>>
    /\ UNCHANGED <<now, entryVars, queueVars, timers_, next_expires_at_, stopped_,
                   notified, wakeVars, fireVars, fired, runVars>>

Block ==
    /\ At("block")
    /\ wpc' = "asleep"
    /\ lock_' = FALSE
    /\ notified' = FALSE
    /\ UNCHANGED <<now, entryVars, queueVars, timers_, next_expires_at_, stopped_,
                   expected, wakeVars, fireVars, fired, runVars>>

\* A notified worker takes lock_ and tests again; after the timeout it goes on.
Wake ==
    /\ At("asleep") /\ ~lock_
    /\ \/ notified /\ wpc' = "test" /\ lock_' = TRUE /\ UNCHANGED expected
       \/ now >= expected /\ wpc' = "loop" /\ expected' = 0 /\ UNCHANGED lock_
    /\ notified' = FALSE
    /\ UNCHANGED <<now, entryVars, queueVars, timers_, next_expires_at_, stopped_,
                   wakeVars, fireVars, fired, runVars>>

\* cv_ wakes up for no reason and the predicate holds (otherwise it blocks again and
\* nothing has changed), or the 10000 s of GetSleepTimeout are over, which is longer
\* than any thread needs in WakeWorkerIfNeeded.
SpuriousWake ==
    /\ At("asleep") /\ ~lock_
    /\ \/ next_expires_at_ # expected \/ stopped_
       \/ expected = Never /\ \A p \in Threads : apc[p] = "idle"
    /\ wpc' = "loop"
    /\ expected' = 0
    /\ notified' = FALSE
    /\ UNCHANGED <<now, entryVars, queueVars, timers_, next_expires_at_, stopped_, lock_,
                   wakeVars, fireVars, fired, runVars>>

Stop ==
    /\ ~stopped_ /\ ~lock_
    /\ stopped_' = TRUE
    /\ notified' = (notified \/ wpc = "asleep")
    /\ UNCHANGED <<now, entryVars, queueVars, timers_, next_expires_at_, lock_, expected,
                   wakeVars, wpc, fireVars, fired, runVars>>

-----------------------------------------------------------------------------
(* UserCallback::Run, in the fibers that a periodic timer starts.           *)

\* Every fiber calls the user's callback itself.
RunEnterAlways(t) ==
    /\ started[t] > 0
    /\ started' = [started EXCEPT ![t] = @ - 1]
    /\ remaining' = [remaining EXCEPT ![t] = @ + 1]
    /\ running' = [running EXCEPT ![t] = @ + 1]
    /\ UNCHANGED <<now, entryVars, queueVars, timers_, next_expires_at_, sleepVars,
                   wakeVars, wpc, fireVars, fired, calls>>

\* The first fiber calls the user's callback, later ones leave that to it.
RunEnter(t) ==
    /\ started[t] > 0
    /\ started' = [started EXCEPT ![t] = @ - 1]
    /\ remaining' = [remaining EXCEPT ![t] = @ + 1]
    /\ running' = [running EXCEPT ![t] = IF remaining[t] = 0 THEN @ + 1 ELSE @]
    /\ UNCHANGED <<now, entryVars, queueVars, timers_, next_expires_at_, sleepVars,
                   wakeVars, wpc, fireVars, fired, calls>>

\* The callback returns; the fiber goes on for those who have come meanwhile.
RunReturn(t) ==
    /\ running[t] > 0
    /\ calls' = [calls EXCEPT ![t] = @ + 1]
    /\ remaining' = [remaining EXCEPT ![t] = @ - 1]
    /\ running' = [running EXCEPT ![t] = IF remaining[t] # 1 THEN @ ELSE @ - 1]
    /\ UNCHANGED <<now, entryVars, queueVars, timers_, next_expires_at_, sleepVars,
                   wakeVars, wpc, fireVars, fired, started>>

-----------------------------------------------------------------------------
Tick ==
    /\ now < MaxTime
    /\ now' = now + 1
    /\ UNCHANGED <<entryVars, queueVars, timers_, next_expires_at_, sleepVars, wakeVars,
                   wpc, fireVars, fired, runVars>>

WakeStep(p) == WakeLoad(p) \/ WakeCas(p)

WorkerProc ==
    \/ Loop \/ ReapThreadLocalQueues
    \/ FireTimers \/ FireTop \/ FireTake \/ FireCall \/ FireAgain
    \/ Rearm \/ Lock \/ Test \/ Block \/ Wake

UserStep ==
    \/ \E p \in Threads, t \in Timers : EnableTimer(p, t)
    \/ \E t \in Timers : RemoveTimer(t) \/ DetachTimer(t)

Run(t) == RunEnter(t) \/ RunReturn(t)

Next ==
    \/ UserStep
    \/ \E p \in Threads : WakeStep(p)
    \/ WorkerProc \/ SpuriousWake \/ Stop
    \/ \E t \in Periodic : Run(t)
    \/ Tick

Spec == Init /\ [][Next]_vars

\* The threads and fibers run on and time passes; nobody is obliged to add, kill or
\* detach a timer, or to stop.
FairSpec ==
    /\ Spec
    /\ \A p \in Threads : WF_vars(WakeStep(p))
    /\ WF_vars(WorkerProc)
    /\ \A t \in Periodic : WF_vars(Run(t))
    /\ WF_vars(Tick)

-----------------------------------------------------------------------------
Times == 0..Never

\* The type of the variables.
TypeOK ==
    /\ now \in Nat /\ fire_now \in Nat /\ now <= MaxTime /\ fire_now <= now
    /\ expires_at \in [Timers -> 0..(Never - 1)]
    /\ cancelled \in [Timers -> BOOLEAN]
    /\ cb \in [Timers -> BOOLEAN]
    /\ handle \in [Timers -> {"new", "held", "dropped"}]
    /\ queue \in [Threads -> SUBSET Timers]
    /\ earliest \in [Threads -> Times]
    /\ timers_ \subseteq Timers
    /\ next_expires_at_ \in Times
    /\ stopped_ \in BOOLEAN /\ lock_ \in BOOLEAN /\ notified \in BOOLEAN
    /\ apc \in [Threads -> {"idle", "load", "cas"}]
    /\ target \in [Threads -> Times]
    /\ r \in [Threads -> Times]
    /\ wpc \in {"loop", "left", "reap", "fire", "top", "take", "call", "callback",
                "rearm", "lock", "test", "block", "asleep"}
    /\ reaped \in Nat
    /\ top \in Timers \cup {None}
    /\ expected \in Times
    /\ fired \in [Timers -> Nat]
    /\ started \in [Timers -> Nat] /\ remaining \in [Timers -> Nat]
    /\ running \in [Timers -> Nat] /\ calls \in [Timers -> Nat]

\* Some thread is in WakeWorkerIfNeeded on behalf of a time that is not after e.
OnItsWay(e) == \E p \in Threads : apc[p] # "idle" /\ target[p] <= e

\* WorkerProc: when the worker sleeps and no notification is under way to it, it
\* will wake up for every timer there is: each expires when its sleep ends or
\* later, or whoever added it (or one before it) is about to tell the worker. It
\* does not sleep through Stop either.
NoMissedTimer ==
    wpc = "asleep" /\ ~notified =>
        /\ ~stopped_
        /\ \A t \in timers_ \cup UNION {queue[p] : p \in Threads} :
              expected <= expires_at[t] \/ OnItsWay(expires_at[t])

\* RemoveTimer: once it has returned, the worker does not take the callback out of
\* the timer any more, also not that of a periodic timer that was being called.
NotTakenAfterRemove ==
    [][\A t \in Timers : cancelled[t] /\ ~(wpc = "call" /\ top = t) =>
          ~(wpc' = "call" /\ top' = t)]_vars

\* RemoveTimer destroys the user's callback, and a periodic timer that is killed while
\* its callback runs does not get it back.
CallbackReleased == \A t \in Timers : cancelled[t] => ~cb[t]

\* FireTimers never calls a callback early, and calls that of a one-shot timer at
\* most once.
FiredOnTime ==
    /\ wpc = "call" => expires_at[top] <= now /\ (top \notin Periodic => fired[top] = 0)
    /\ \A t \in Timers \ Periodic : fired[t] <= 1

\* UserCallback::Run: the calls of the user's callback do not overlap, and each time
\* the timer fires there is a call, made or still to be made by a fiber that runs.
CallsKeepUp ==
    \A t \in Periodic :
        /\ running[t] = IF remaining[t] = 0 THEN 0 ELSE 1
        /\ started[t] + remaining[t] + calls[t] = fired[t]

\* Every timer fires, unless it is killed or the worker is stopped.
AllFire == \A t \in Timers : handle[t] # "new" ~> (fired[t] > 0 \/ cancelled[t] \/ stopped_)
=============================================================================
