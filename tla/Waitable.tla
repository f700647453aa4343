------------------------------ MODULE Waitable ------------------------------
(***************************************************************************)
(* How fibers block and wake each other (fiber/detail/waitable.cc): the     *)
(* wait chains of `Waitable`, and `Mutex`, `ConditionVariable` (with the    *)
(* timeout of `AsyncWaker`) and `Event` built on them, down to the hand-over *)
(* with `SchedulingGroup::Halt` and `SchedulingGroup::ReadyFiber`.          *)
(*                                                                         *)
(* Every object of the model owns one mutex and one more wait chain, that   *)
(* of its condition variable or of its event.  A step is what one fiber     *)
(* does between two accesses to memory that others may touch: all of        *)
(* `Waitable` runs under `lock_`, so each of its operations is one step.    *)
(* The fibers run on as many workers as they need.                          *)
(*                                                                         *)
(* There is no Next here: a module of clients says when the operations are  *)
(* called, by setting pc to "lock", "unlock", "wait", "notify_one",         *)
(* "notify_all", "event_wait" or "event_set" and ret to the label at which  *)
(* the caller goes on.                                                      *)
(***************************************************************************)
EXTENDS Naturals, Sequences, FiniteSets

CONSTANTS Fibers,   \* the fibers (and threads that only set events)
          Objects,  \* what they synchronise on
          None      \* no fiber

ASSUME NoneAssumption == None \notin Fibers

VARIABLES
    pc,              \* the step each fiber is at
    ret,             \* where the operation it is in returns to
    obj,             \* the object it operates on
    state,           \* FiberEntity::state
    scheduler_lock,  \* FiberEntity::scheduler_lock, held by the fiber itself
    count,           \* Mutex::count_
    slow_path_lock,  \* Mutex::slow_path_lock_, its holder
    lock_waiters,    \* Mutex::impl_.waiters_
    lock_satisfied,  \* WaitBlock::satisfied, of the block in LockSlow
    waiters,         \* waiters_ of the condition variable or event
    satisfied,       \* WaitBlock::satisfied, of the block in wait_until or Wait
    persistent,      \* Waitable::persistent_awakened_ of the event
    targets,         \* the fibers a waker took off a chain and has to ready
    timed,           \* whether the fiber's wait has a timeout
    expired,         \* whether the clock has passed that timeout
    wait_no,         \* the number of the fiber's latest wait with a timeout
    timer,           \* whether the timer of that wait is still armed
    callbacks,       \* timer callbacks moved out of their timers
    awake            \* the waits whose WaitCb::awake is set

mutexVars == <<count, slow_path_lock, lock_waiters, lock_satisfied>>
chainVars == <<waiters, satisfied, persistent>>
timerVars == <<timed, expired, wait_no, timer, callbacks, awake>>

Goto(f, label) == pc' = [pc EXCEPT ![f] = label]

-----------------------------------------------------------------------------
(* Wait chains: a chain is a sequence of fibers, standing for the blocks on *)
(* their stacks, and `sat` tells which blocks are satisfied.                *)

Unsatisfied(chain, sat) == {i \in 1..Len(chain) : ~sat[chain[i]]}

First(S) == CHOOSE i \in S : \A j \in S : i <= j

\* WakeOne: the waiter it returns, and the chain it leaves.
WakeOne(chain, sat) ==
    IF Unsatisfied(chain, sat) = {} THEN None ELSE chain[First(Unsatisfied(chain, sat))]

AfterWakeOne(chain, sat) ==
    IF Unsatisfied(chain, sat) = {} THEN <<>>
    ELSE SubSeq(chain, First(Unsatisfied(chain, sat)) + 1, Len(chain))

TryRemoveWaiter(chain, f) == SelectSeq(chain, LAMBDA g : g # f)

-----------------------------------------------------------------------------
(* Halt and ReadyFiber.                                                     *)

\* The fiber switches to the master fiber, which unlocks scheduler_lock.
Halt(f) ==
    /\ \/ pc[f] = "lock_halt" /\ Goto(f, "lock_awake")
       \/ pc[f] = "wait_halt" /\ Goto(f, "wait_awake")
       \/ pc[f] = "event_halt" /\ Goto(f, "event_awake")
    /\ state' = [state EXCEPT ![f] = "waiting"]
    /\ scheduler_lock' = [scheduler_lock EXCEPT ![f] = FALSE]
    /\ UNCHANGED <<ret, obj, targets, mutexVars, chainVars, timerVars>>

\* Without the lock, a waker can ready a fiber that has not stopped yet.
ReadyFiberNoLock(w) == state' = [state EXCEPT ![w] = "ready"]

\* The waker locks scheduler_lock, so it waits for Halt to finish.
ReadyFiber(w) ==
    /\ ~scheduler_lock[w]
    /\ state' = [state EXCEPT ![w] = "ready"]

\* A worker acquires the fiber from the run queue and resumes it.
Resume(f) ==
    /\ state[f] = "ready" /\ ~scheduler_lock[f]
    /\ state' = [state EXCEPT ![f] = "running"]
    /\ \/ pc[f] = "wait_awake" /\ Goto(f, "wait_remove")
       \/ pc[f] \in {"lock_awake", "event_awake"} /\ Goto(f, ret[f])
    /\ UNCHANGED <<ret, obj, scheduler_lock, targets, mutexVars, chainVars, timerVars>>

\* Schedule the fibers taken off a chain, one by one.
Schedule(f) ==
    /\ pc[f] = "schedule"
    /\ ReadyFiber(Head(targets[f]))
    /\ targets' = [targets EXCEPT ![f] = Tail(@)]
    /\ IF Len(targets[f]) = 1 THEN Goto(f, ret[f]) ELSE UNCHANGED pc
    /\ UNCHANGED <<ret, obj, scheduler_lock, mutexVars, chainVars, timerVars>>

-----------------------------------------------------------------------------
(* Mutex.                                                                   *)

\* try_lock, which lock calls first, and LockSlow once more.
TryLock(f) ==
    /\ pc[f] \in {"lock", "lock_slow"}
    /\ IF count[obj[f]] = 0
       THEN count' = [count EXCEPT ![obj[f]] = 1] /\ Goto(f, ret[f])
       ELSE /\ Goto(f, IF pc[f] = "lock" THEN "lock_slow" ELSE "lock_announce")
            /\ UNCHANGED count
    /\ UNCHANGED <<ret, obj, state, scheduler_lock, slow_path_lock, lock_waiters,
                   lock_satisfied, targets, chainVars, timerVars>>

\* Announce without slow_path_lock_.
LockAnnounceUnlocked(f) ==
    /\ pc[f] = "lock_announce"
    /\ count' = [count EXCEPT ![obj[f]] = @ + 1]
    /\ Goto(f, IF count[obj[f]] = 0 THEN ret[f] ELSE "lock_enqueue")
    /\ UNCHANGED <<ret, obj, state, scheduler_lock, slow_path_lock, lock_waiters,
                   lock_satisfied, targets, chainVars, timerVars>>

\* LockSlow takes slow_path_lock_ and tells the owner that it waits.
LockAnnounce(f) ==
    /\ pc[f] = "lock_announce" /\ slow_path_lock[obj[f]] = None
    /\ count' = [count EXCEPT ![obj[f]] = @ + 1]
    /\ IF count[obj[f]] = 0
       THEN Goto(f, ret[f]) /\ UNCHANGED slow_path_lock
       ELSE /\ slow_path_lock' = [slow_path_lock EXCEPT ![obj[f]] = f]
            /\ Goto(f, "lock_enqueue")
    /\ UNCHANGED <<ret, obj, state, scheduler_lock, lock_waiters, lock_satisfied,
                   targets, chainVars, timerVars>>

\* LockSlow joins the chain, holding scheduler_lock from here to Halt.
LockEnqueue(f) ==
    /\ pc[f] = "lock_enqueue" /\ ~scheduler_lock[f]
    /\ scheduler_lock' = [scheduler_lock EXCEPT ![f] = TRUE]
    /\ lock_waiters' = [lock_waiters EXCEPT ![obj[f]] = Append(@, f)]
    /\ lock_satisfied' = [lock_satisfied EXCEPT ![f] = FALSE]
    /\ slow_path_lock' = [slow_path_lock EXCEPT ![obj[f]] = None]
    /\ Goto(f, "lock_halt")
    /\ UNCHANGED <<ret, obj, state, count, targets, chainVars, timerVars>>

Unlock(f) ==
    /\ pc[f] = "unlock"
    /\ count' = [count EXCEPT ![obj[f]] = @ - 1]
    /\ Goto(f, IF count[obj[f]] = 1 THEN ret[f] ELSE "unlock_wake")
    /\ UNCHANGED <<ret, obj, state, scheduler_lock, slow_path_lock, lock_waiters,
                   lock_satisfied, targets, chainVars, timerVars>>

\* The slow path of unlock: the mutex passes to the first waiter.
UnlockWake(f) ==
    LET o == obj[f]
        w == WakeOne(lock_waiters[o], lock_satisfied)
    IN  /\ pc[f] = "unlock_wake" /\ slow_path_lock[o] = None
        /\ w # None   \* FLARE_CHECK(fiber)
        /\ lock_waiters' = [lock_waiters EXCEPT
                              ![o] = AfterWakeOne(lock_waiters[o], lock_satisfied)]
        /\ lock_satisfied' = [lock_satisfied EXCEPT ![w] = TRUE]
        /\ targets' = [targets EXCEPT ![f] = <<w>>]
        /\ Goto(f, "schedule")
        /\ UNCHANGED <<ret, obj, state, scheduler_lock, count, slow_path_lock,
                       chainVars, timerVars>>

-----------------------------------------------------------------------------
(* ConditionVariable.                                                       *)

\* Join the chain of the condition variable, and set the timer.
AddWaiter(f) ==
    /\ scheduler_lock' = [scheduler_lock EXCEPT ![f] = TRUE]
    /\ waiters' = [waiters EXCEPT ![obj[f]] = Append(@, f)]
    /\ satisfied' = [satisfied EXCEPT ![f] = FALSE]

\* wait_until, up to the call that releases the user's lock.
Wait(f) ==
    /\ pc[f] = "wait" /\ ~scheduler_lock[f]
    /\ AddWaiter(f)
    /\ wait_no' = [wait_no EXCEPT ![f] = IF timed[f] THEN @ + 1 ELSE @]
    /\ timer' = [timer EXCEPT ![f] = timed[f]]
    /\ ret' = [ret EXCEPT ![f] = "wait_halt"]
    /\ Goto(f, "unlock")
    /\ UNCHANGED <<obj, state, targets, mutexVars, persistent, timed, expired,
                   callbacks, awake>>

\* Lock the mutex again and return to the test of the predicate.
Relock(f) ==
    /\ ret' = [ret EXCEPT ![f] = "retest"]
    /\ Goto(f, "lock")

\* wait_until, after Halt: leave the chain, if a notifier has not removed us.
WaitRemove(f) ==
    /\ pc[f] = "wait_remove"
    /\ waiters' = [waiters EXCEPT ![obj[f]] = TryRemoveWaiter(@, f)]
    /\ IF timed[f] THEN Goto(f, "wait_cancel") /\ UNCHANGED ret ELSE Relock(f)
    /\ UNCHANGED <<obj, state, scheduler_lock, targets, mutexVars, satisfied,
                   persistent, timerVars>>

\* Cleanup: RemoveTimer, which does not wait for a callback that is running.
WaitCancel(f) ==
    /\ pc[f] = "wait_cancel"
    /\ timer' = [timer EXCEPT ![f] = FALSE]
    /\ Goto(f, "wait_cleanup")
    /\ UNCHANGED <<ret, obj, state, scheduler_lock, targets, mutexVars, chainVars,
                   timed, expired, wait_no, callbacks, awake>>

\* Cleanup: set `awake`, under the lock that a callback holds while it wakes us.
WaitCleanup(f) ==
    /\ pc[f] = "wait_cleanup"
    /\ ~\E c \in callbacks : c.fiber = f /\ c.wait = wait_no[f] /\ c.at = "ready"
    /\ awake' = awake \cup {<<f, wait_no[f]>>}
    /\ Relock(f)
    /\ UNCHANGED <<obj, state, scheduler_lock, targets, mutexVars, chainVars, timed,
                   expired, wait_no, timer, callbacks>>

\* notify_one, and the loop of notify_all that empties the chain first.
Notify(f) ==
    LET o == obj[f]
        w == WakeOne(waiters[o], satisfied)
        found == IF w = None THEN targets[f] ELSE Append(targets[f], w)
    IN  /\ pc[f] \in {"notify_one", "notify_all"}
        /\ waiters' = [waiters EXCEPT ![o] = AfterWakeOne(waiters[o], satisfied)]
        /\ satisfied' = IF w = None THEN satisfied ELSE [satisfied EXCEPT ![w] = TRUE]
        /\ targets' = [targets EXCEPT ![f] = found]
        /\ IF w # None /\ pc[f] = "notify_all" THEN UNCHANGED pc
           ELSE Goto(f, IF found = <<>> THEN ret[f] ELSE "schedule")
        /\ UNCHANGED <<ret, obj, state, scheduler_lock, mutexVars, persistent, timerVars>>

-----------------------------------------------------------------------------
(* AsyncWaker's timer and its callback.                                     *)

\* Time passes the timeout of the wait that f is in or is about to begin.
ClockPasses(f) ==
    /\ timed[f] /\ ~expired[f]
    /\ expired' = [expired EXCEPT ![f] = TRUE]
    /\ UNCHANGED <<pc, ret, obj, state, scheduler_lock, targets, mutexVars, chainVars,
                   timed, wait_no, timer, callbacks, awake>>

\* The timer worker moves the callback out of the timer.
FireTimer(f) ==
    /\ timer[f] /\ expired[f]
    /\ timer' = [timer EXCEPT ![f] = FALSE]
    /\ callbacks' = callbacks \cup {[fiber |-> f, wait |-> wait_no[f], at |-> "test"]}
    /\ UNCHANGED <<pc, ret, obj, state, scheduler_lock, targets, mutexVars, chainVars,
                   timed, expired, wait_no, awake>>

\* Trust the block without looking at `awake`.
CallbackTestSatisfied(c) ==
    /\ c.at = "test"
    /\ IF satisfied[c.fiber]
       THEN callbacks' = callbacks \ {c} /\ UNCHANGED satisfied
       ELSE /\ callbacks' = (callbacks \ {c}) \cup {[c EXCEPT !.at = "ready"]}
            /\ satisfied' = [satisfied EXCEPT ![c.fiber] = TRUE]
    /\ UNCHANGED <<pc, ret, obj, state, scheduler_lock, targets, mutexVars, waiters,
                   persistent, timed, expired, wait_no, timer, awake>>

\* The callback locks WaitCb::lock and competes for the wake-up.
CallbackTest(c) ==
    /\ c.at = "test"
    /\ IF <<c.fiber, c.wait>> \in awake \/ satisfied[c.fiber]
       THEN callbacks' = callbacks \ {c} /\ UNCHANGED satisfied
       ELSE /\ callbacks' = (callbacks \ {c}) \cup {[c EXCEPT !.at = "ready"]}
            /\ satisfied' = [satisfied EXCEPT ![c.fiber] = TRUE]
    /\ UNCHANGED <<pc, ret, obj, state, scheduler_lock, targets, mutexVars, waiters,
                   persistent, timed, expired, wait_no, timer, awake>>

\* It has won: it readies the fiber and unlocks WaitCb::lock.
CallbackReady(c) ==
    /\ c.at = "ready"
    /\ ReadyFiber(c.fiber)
    /\ callbacks' = callbacks \ {c}
    /\ UNCHANGED <<pc, ret, obj, scheduler_lock, targets, mutexVars, chainVars, timed,
                   expired, wait_no, timer, awake>>

-----------------------------------------------------------------------------
(* Event.                                                                   *)

EventWait(f) ==
    /\ pc[f] = "event_wait" /\ ~scheduler_lock[f]
    /\ IF persistent[obj[f]]
       THEN Goto(f, ret[f]) /\ UNCHANGED <<scheduler_lock, waiters, satisfied>>
       ELSE Goto(f, "event_halt") /\ AddWaiter(f)
    /\ UNCHANGED <<ret, obj, state, targets, mutexVars, persistent, timerVars>>

\* Ready the waiters one by one while the chain is still being emptied.
EventSetOneByOne(f) ==
    LET o == obj[f]
        w == WakeOne(waiters[o], satisfied)
    IN  /\ pc[f] = "event_set"
        /\ persistent' = [persistent EXCEPT ![o] = TRUE]
        /\ waiters' = [waiters EXCEPT ![o] = AfterWakeOne(waiters[o], satisfied)]
        /\ IF w = None
           THEN Goto(f, ret[f]) /\ UNCHANGED <<satisfied, state>>
           ELSE /\ satisfied' = [satisfied EXCEPT ![w] = TRUE]
                /\ ReadyFiber(w)
                /\ UNCHANGED pc
        /\ UNCHANGED <<ret, obj, scheduler_lock, targets, mutexVars, timerVars>>

\* Set: SetPersistentAwakened takes all the waiters before any is readied.
EventSet(f) ==
    LET o == obj[f]
        live == SelectSeq(waiters[o], LAMBDA g : ~satisfied[g])
    IN  /\ pc[f] = "event_set"
        /\ persistent' = [persistent EXCEPT ![o] = TRUE]
        /\ waiters' = [waiters EXCEPT ![o] = <<>>]
        /\ satisfied' = [g \in Fibers |-> satisfied[g] \/ \E i \in DOMAIN live : live[i] = g]
        /\ targets' = [targets EXCEPT ![f] = live]
        /\ Goto(f, IF live = <<>> THEN ret[f] ELSE "schedule")
        /\ UNCHANGED <<ret, obj, state, scheduler_lock, mutexVars, timerVars>>

WaitableStep(f) ==
    \/ Halt(f) \/ Resume(f) \/ Schedule(f)
    \/ TryLock(f) \/ LockAnnounce(f) \/ LockEnqueue(f) \/ Unlock(f) \/ UnlockWake(f)
    \/ Wait(f) \/ WaitRemove(f) \/ WaitCancel(f) \/ WaitCleanup(f) \/ Notify(f)
    \/ EventWait(f) \/ EventSet(f)

TimerStep ==
    \/ \E f \in Fibers : ClockPasses(f) \/ FireTimer(f)
    \/ \E c \in callbacks : CallbackTest(c) \/ CallbackReady(c)
=============================================================================
