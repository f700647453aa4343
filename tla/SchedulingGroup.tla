--------------------------- MODULE SchedulingGroup ---------------------------
(***************************************************************************)
(* flare/fiber/detail/scheduling_group.{h,cc} and fiber_worker.cc: a group *)
(* of pthread workers that share a run queue, spin for a while when it is  *)
(* empty and then sleep, and whoever makes a fiber ready wakes one of them.*)
(*                                                                         *)
(* The run queue is the abstract queue of RunQueueSpec, which RunQueue     *)
(* implements. Every access to the two worker masks, to a wake-up counter, *)
(* to pending_spinner_wakeup_ and to stopped_ is a step of its own.        *)
(***************************************************************************)
EXTENDS Integers, Sequences, FiniteSets

CONSTANTS
    GroupSize,      \* group_size_
    Starters,       \* threads outside the group that start or ready fibers
    Fibers,         \* fibers, each started once
    Local,          \* fibers with scheduling_group_local set
    Foreign,        \* fibers that wait in another group's queue
    Capacity,       \* flare_fiber_run_queue_size
    Worlds,         \* the scenarios: see the variable world
    None,           \* nullptr
    ShuttingDown    \* kSchedulingGroupShuttingDown

Workers == 0..(GroupSize - 1)
Threads == Workers \cup Starters

ASSUME GroupAssumption ==
    /\ GroupSize \in 1..31     \* WakeUpWorkers shifts an int: `1 << i`
    /\ Starters \cap Workers = {}
    /\ Local \subseteq Fibers /\ Fibers \cap Foreign = {}
    /\ \A w \in Worlds :
        /\ w.starters \subseteq Starters /\ w.foreign \subseteq Foreign /\ w.yields \in Nat
        /\ {w.thieves, w.stops, w.buffered} \subseteq BOOLEAN
        /\ \A b \in w.starts : b \in Seq(Fibers) /\ b # <<>>
        /\ \A b \in w.starts : Len(b) > 1 => b \in Seq(Fibers \ Local)
    /\ Capacity \in Nat \ {0}
    /\ None \notin Fibers \cup Foreign /\ ShuttingDown \notin Fibers \cup Foreign
    /\ None # ShuttingDown

VARIABLES
    world,          \* what may happen: who starts which sequences of fibers together,
                    \* the foreign fibers, how often fibers yield altogether, and whether
                    \* there are thieves, Stop is called and plain stores are delayed
    cells,          \* run_queue_: see RunQueueSpec
    hand,           \* the fiber a worker has acquired
    spinning,       \* spinning_workers_
    sleeping,       \* sleeping_workers_
    wakeup_count,   \* wait_slots_[i].wakeup_count_
    pending,        \* pending_spinner_wakeup_
    stopped,        \* stopped_
    stop_index,     \* the loop counter of Stop
    pc,             \* where each thread is
    ret,            \* where it goes on after waking a worker up
    popped,         \* workers whose Pop in AcquireFiber has returned nullptr
    pushing,        \* the fibers a thread has yet to publish
    buffer,         \* its published fibers that others do not see yet
    claim,          \* the workers it has picked, or claimed and yet to wake
    seen,           \* sleeping_mask_was in WakeUpWorkers
    want,           \* n in WakeUpWorkers
    fresh,          \* fibers (of this and of other groups) not started yet
    done,           \* fibers that have terminated
    yields          \* how often fibers have yielded

queue == <<cells, hand>>
masks == <<spinning, sleeping, wakeup_count, pending>>
stop == <<stopped, stop_index>>
push == <<pushing, buffer, fresh>>
wake == <<claim, seen, want>>
vars == <<world, queue, masks, stop, push, wake, pc, ret, popped, done, yields>>

Starts == world.starts

RunQueue == INSTANCE RunQueueSpec WITH
    Threads <- Workers, Entities <- Fibers \cup Foreign,
    Batches <- UNION {w.starts : w \in Worlds}

kMaximumSpinners == 2
PersistentWakeups == 1073741824     \* 0x4000'0000
SizeMax == 2147483647               \* stands for the size_t `n` after `while (n--)`

Lowest(mask) == CHOOSE w \in mask : \A v \in mask : w <= v

Init ==
    /\ world \in Worlds
    /\ RunQueue!Init
    /\ spinning = {} /\ sleeping = {}
    /\ wakeup_count = [w \in Workers |-> 1]
    /\ pending = FALSE
    /\ stopped = FALSE /\ stop_index = 0
    /\ pc = [t \in Threads |-> IF t \in Workers THEN "acquire" ELSE "idle"]
    /\ ret = [t \in Threads |-> "idle"]
    /\ popped = {}
    /\ pushing = [t \in Threads |-> <<>>]
    /\ buffer = [t \in Threads |-> <<>>]
    /\ claim = [t \in Threads |-> {}]
    /\ seen = [t \in Threads |-> {}]
    /\ want = [t \in Threads |-> 0]
    /\ fresh = Fibers \cup world.foreign
    /\ done = {}
    /\ yields = 0

Goto(t, l) == pc' = [pc EXCEPT ![t] = l]

\* A read-modify-write instruction waits for the thread's own stores.
Drained(t) == buffer[t] = <<>>

-----------------------------------------------------------------------------
\* Making fibers ready: StartFiber, StartFibers, ReadyFiber (as Yield calls it)

\* StartFiber, or ReadyFiber for a fiber that was waiting.
StartFiber(t, f) ==
    /\ pc[t] = "idle"
    /\ ~stopped
    /\ <<f>> \in Starts /\ f \in fresh
    /\ fresh' = fresh \ {f}
    /\ pushing' = [pushing EXCEPT ![t] = <<f>>]
    /\ ret' = [ret EXCEPT ![t] = "idle"]
    /\ Goto(t, "push")
    /\ UNCHANGED <<queue, masks, stop, wake, popped, buffer, done, yields>>

StartFibers(t, b) ==
    /\ pc[t] = "idle"
    /\ ~stopped
    /\ Len(b) > 1
    /\ \A i \in 1..Len(b) : b[i] \in fresh
    /\ fresh' = fresh \ {b[i] : i \in 1..Len(b)}
    /\ pushing' = [pushing EXCEPT ![t] = b]
    /\ want' = [want EXCEPT ![t] = Len(b)]
    /\ ret' = [ret EXCEPT ![t] = "idle"]
    /\ Goto(t, "push")
    /\ UNCHANGED <<queue, masks, stop, claim, seen, popped, buffer, done, yields>>

\* The fiber that worker w runs yields: its master fiber puts it back.
Yield(w) ==
    /\ pc[w] = "run" /\ hand[w] # ShuttingDown
    /\ ~stopped
    /\ yields < world.yields
    /\ yields' = yields + 1
    /\ pushing' = [pushing EXCEPT ![w] = <<hand[w]>>]
    /\ hand' = [hand EXCEPT ![w] = None]
    /\ ret' = [ret EXCEPT ![w] = "acquire"]
    /\ Goto(w, "push")
    /\ UNCHANGED <<cells, masks, stop, wake, popped, buffer, fresh, done>>

\* run_queue_.Push / BatchPush claims its nodes; on overrun the caller sleeps
\* and tries again.
Claim(t) ==
    /\ pc[t] = "push"
    /\ Drained(t)
    /\ RunQueue!Reserve(pushing[t])
    /\ Goto(t, "publish")
    /\ UNCHANGED <<masks, stop, push, wake, ret, popped, done, yields>>

MakeVisible(f) ==
    \E k \in 1..Len(cells) : cells[k].entity = f /\ RunQueue!MakeReady(k)

\* n.seq.store(..., release) of the next fiber. A release store is not
\* ordered before the relaxed loads of the masks that follow it.
Publish(t) ==
    /\ pc[t] = "publish"
    /\ pushing' = [pushing EXCEPT ![t] = Tail(pushing[t])]
    /\ \/ /\ Drained(t)
          /\ MakeVisible(Head(pushing[t]))
          /\ UNCHANGED buffer
       \/ /\ world.buffered
          /\ buffer' = [buffer EXCEPT ![t] = Append(buffer[t], Head(pushing[t]))]
          /\ UNCHANGED queue
    /\ IF Len(pushing[t]) > 1 THEN UNCHANGED pc
       ELSE Goto(t, IF want[t] = 0 THEN "wake_spin" ELSE "wake_batch")
    /\ UNCHANGED <<masks, stop, wake, ret, popped, fresh, done, yields>>

\* The memory system makes a buffered store visible.
Flush(t) ==
    /\ buffer[t] # <<>>
    /\ MakeVisible(Head(buffer[t]))
    /\ buffer' = [buffer EXCEPT ![t] = Tail(buffer[t])]
    /\ UNCHANGED <<masks, stop, wake, pc, ret, popped, pushing, fresh, done, yields>>

-----------------------------------------------------------------------------
\* WakeUpOneWorker, WakeUpOneSpinningWorker, WakeUpOneDeepSleepingWorker

WokenUp(t) ==
    /\ Goto(t, ret[t])
    /\ ret' = [ret EXCEPT ![t] = "idle"]
    /\ claim' = [claim EXCEPT ![t] = {}]

\* The load of spinning_workers_, and the choice of the lowest bit.
LoadSpinning(t) ==
    /\ pc[t] = "wake_spin"
    /\ \/ /\ spinning = {}
          /\ Goto(t, "wake_sleep")
          /\ UNCHANGED claim
       \/ /\ spinning # {}
          /\ claim' = [claim EXCEPT ![t] = {Lowest(spinning)}]
          /\ Goto(t, "claim_spin")
    /\ UNCHANGED <<queue, masks, stop, push, seen, want, ret, popped, done, yields>>

\* spinning_workers_.fetch_and(~claiming_mask)
ClaimSpinner(t) ==
    /\ pc[t] = "claim_spin"
    /\ Drained(t)
    /\ spinning' = spinning \ claim[t]
    /\ \/ /\ claim[t] \subseteq spinning
          /\ WokenUp(t)
       \/ /\ ~(claim[t] \subseteq spinning)
          /\ claim' = [claim EXCEPT ![t] = {}]
          /\ Goto(t, "wake_spin")
          /\ UNCHANGED ret
    /\ UNCHANGED <<queue, sleeping, wakeup_count, pending, stop, push, seen, want,
                   popped, done, yields>>

LoadSleeping(t) ==
    /\ pc[t] = "wake_sleep"
    /\ \/ /\ sleeping = {}
          /\ WokenUp(t)
       \/ /\ sleeping # {}
          /\ claim' = [claim EXCEPT ![t] = {Lowest(sleeping)}]
          /\ Goto(t, "claim_sleep")
          /\ UNCHANGED ret
    /\ UNCHANGED <<queue, masks, stop, push, seen, want, popped, done, yields>>

\* sleeping_workers_.fetch_and(~claiming_mask)
ClaimSleeper(t) ==
    /\ pc[t] = "claim_sleep"
    /\ Drained(t)
    /\ sleeping' = sleeping \ claim[t]
    /\ \/ /\ claim[t] \subseteq sleeping
          /\ Goto(t, "notify")
          /\ UNCHANGED claim
       \/ /\ ~(claim[t] \subseteq sleeping)
          /\ Goto(t, "wake_sleep")
          /\ claim' = [claim EXCEPT ![t] = {}]
    /\ UNCHANGED <<queue, spinning, wakeup_count, pending, stop, push, seen, want,
                   ret, popped, done, yields>>

\* WaitSlot::Wake on the next worker that was claimed.
Notify(t) ==
    /\ pc[t] = "notify"
    /\ LET w == Lowest(claim[t])
       IN  /\ wakeup_count' = [wakeup_count EXCEPT ![w] = @ + 1]
           /\ \/ /\ claim[t] = {w}
                 /\ WokenUp(t)
              \/ /\ claim[t] # {w}
                 /\ claim' = [claim EXCEPT ![t] = @ \ {w}]
                 /\ UNCHANGED <<pc, ret>>
    /\ UNCHANGED <<queue, spinning, sleeping, pending, stop, push, seen, want,
                   popped, done, yields>>

-----------------------------------------------------------------------------
\* WakeUpWorkers(n), n >= 2

\* spinning_workers_.exchange(0)
ExchangeSpinning(t) ==
    /\ pc[t] = "wake_batch"
    /\ Drained(t)
    /\ LET n == want[t] - Cardinality(spinning)
       IN  /\ want' = [want EXCEPT ![t] = IF n >= 1 THEN n ELSE 0]
           /\ Goto(t, IF n >= GroupSize THEN "wake_all"
                      ELSE IF n >= 1 THEN "wake_some" ELSE ret[t])
    /\ spinning' = {}
    /\ UNCHANGED <<queue, sleeping, wakeup_count, pending, stop, push, claim, seen,
                   ret, popped, done, yields>>

\* The end of WakeUpWorkers: the claimed workers, if any, are woken.
WakeClaimed(t, ws) ==
    /\ claim' = [claim EXCEPT ![t] = ws]
    /\ want' = [want EXCEPT ![t] = 0]
    /\ seen' = [seen EXCEPT ![t] = {}]
    /\ Goto(t, IF ws = {} THEN ret[t] ELSE "notify")

\* n >= group_size_: sleeping_workers_.exchange(0)
WakeAll(t) ==
    /\ pc[t] = "wake_all"
    /\ WakeClaimed(t, sleeping)
    /\ sleeping' = {}
    /\ UNCHANGED <<queue, spinning, wakeup_count, pending, stop, push, ret, popped,
                   done, yields>>

\* mask_to &= ~(1 << __builtin_ffsll(mask_to)), n times. The built-in counts
\* bits from one, so it is the bit above the lowest one that is cleared.
ClearLowest[mask \in SUBSET Workers, n \in Nat] ==
    IF n = 0 THEN mask
    ELSE ClearLowest[IF mask = {} THEN mask ELSE mask \ {Lowest(mask) + 1}, n - 1]

\* sleeping_mask_was = sleeping_workers_.load(), and mask_to
LoadSleepers(t) ==
    /\ pc[t] = "wake_some"
    /\ \/ /\ sleeping = {}
          /\ WakeClaimed(t, {})
       \/ /\ sleeping # {} /\ Cardinality(sleeping) <= want[t]
          /\ seen' = [seen EXCEPT ![t] = sleeping]
          /\ claim' = [claim EXCEPT ![t] = sleeping]
          /\ Goto(t, "claim_some")
          /\ UNCHANGED want
       \/ /\ Cardinality(sleeping) > want[t]
          /\ seen' = [seen EXCEPT ![t] = sleeping]
          /\ claim' = [claim EXCEPT ![t] = sleeping \ ClearLowest[sleeping, want[t]]]
          /\ want' = [want EXCEPT ![t] = SizeMax]
          /\ Goto(t, "claim_some")
    /\ UNCHANGED <<queue, masks, stop, push, ret, popped, done, yields>>

\* sleeping_workers_.compare_exchange_weak(sleeping_mask_was, mask_to)
ClaimSleepers(t) ==
    /\ pc[t] = "claim_some"
    /\ \/ /\ sleeping = seen[t]
          /\ sleeping' = seen[t] \ claim[t]
          /\ WakeClaimed(t, claim[t])
       \/ /\ Goto(t, "wake_some")
          /\ seen' = [seen EXCEPT ![t] = {}]
          /\ claim' = [claim EXCEPT ![t] = {}]
          /\ UNCHANGED <<sleeping, want>>
    /\ UNCHANGED <<queue, spinning, wakeup_count, pending, stop, push, ret, popped,
                   done, yields>>

-----------------------------------------------------------------------------
\* AcquireFiber

\* run_queue_.Pop() at label l; a worker sees its own buffered store, and the
\* compare-and-swap of Pop makes it visible to the others.
HeadReady == cells # <<>> /\ cells[1].ready

OwnStoreFirst(w) ==
    /\ cells # <<>> /\ ~cells[1].ready
    /\ \E i \in 1..Len(buffer[w]) : buffer[w][i] = cells[1].entity

\* AcquireFiber called at label l: the fiber, or nullptr and then, one load
\* later, kSchedulingGroupShuttingDown if the group has been stopped. That load
\* is a step of its own only where Stop is called at all.
AcquireFiber(w, l, found, empty) ==
    /\ pc[w] = l
    /\ \/ /\ w \notin popped
          /\ Drained(w) /\ RunQueue!Take(w)
          /\ Goto(w, found)
          /\ UNCHANGED popped
       \/ /\ w \notin popped
          /\ ~HeadReady /\ ~OwnStoreFirst(w)
          /\ \/ world.stops /\ popped' = popped \cup {w} /\ UNCHANGED pc
             \/ ~world.stops /\ Goto(w, empty) /\ UNCHANGED popped
          /\ UNCHANGED queue
       \/ /\ w \in popped
          /\ popped' = popped \ {w}
          /\ hand' = [hand EXCEPT ![w] = IF stopped THEN ShuttingDown ELSE None]
          /\ Goto(w, IF stopped THEN found ELSE empty)
          /\ UNCHANGED cells
    /\ UNCHANGED <<masks, stop, push, wake, ret, done, yields>>

-----------------------------------------------------------------------------
\* FiberWorker::WorkerProc and SpinningAcquireFiber

Acquire(w) == AcquireFiber(w, "acquire", "run", "spin_enter")

\* The compare-and-swap loop on spinning_workers_.
SpinEnter(w) ==
    /\ pc[w] = "spin_enter"
    /\ \/ /\ Cardinality(spinning) < kMaximumSpinners
          /\ Drained(w)
          /\ spinning' = spinning \cup {w}
          /\ Goto(w, "spin_acquire")
       \/ /\ Cardinality(spinning) >= kMaximumSpinners
          /\ Goto(w, "steal")
          /\ UNCHANGED spinning
    /\ UNCHANGED <<queue, sleeping, wakeup_count, pending, stop, push, wake, ret,
                   popped, done, yields>>

SpinAcquire(w) == AcquireFiber(w, "spin_acquire", "spin_clear", "spin_pending")

\* The wake-up that another spinner has left to us, if any. The loop around it
\* may have time for another round.
SpinPending(w) ==
    /\ pc[w] = "spin_pending"
    /\ \/ /\ pending
          /\ pending' = FALSE
          /\ \E l \in {"spin_pending", "spin_test"} : ret' = [ret EXCEPT ![w] = l]
          /\ Goto(w, "wake_sleep")
       \/ /\ ~pending
          /\ Goto(w, "spin_test")
          /\ UNCHANGED <<pending, ret>>
    /\ UNCHANGED <<queue, spinning, sleeping, wakeup_count, stop, push, wake, popped,
                   done, yields>>

\* while (start < end && (spinning_workers_.load() & mask))
SpinTest(w) ==
    /\ pc[w] = "spin_test"
    /\ \/ w \in spinning /\ Goto(w, "spin_acquire")
       \/ Goto(w, "spin_clear")
    /\ UNCHANGED <<queue, masks, stop, push, wake, ret, popped, done, yields>>

\* The deferred spinning_workers_.fetch_and(~mask)
SpinClear(w) ==
    /\ pc[w] = "spin_clear"
    /\ spinning' = spinning \ {w}
    /\ Goto(w, IF hand[w] # None THEN "spin_report" ELSE "spin_final")
    /\ UNCHANGED <<queue, sleeping, wakeup_count, pending, stop, push, wake, ret,
                   popped, done, yields>>

SpinFinal(w) == AcquireFiber(w, "spin_final", "spin_report", "steal")

\* A spinner that has found a fiber leaves it to another one to wake a worker, if there
\* are not enough spinners.
SpinReport(w) ==
    /\ pc[w] = "spin_report"
    /\ Goto(w, IF Cardinality(spinning) < kMaximumSpinners THEN "spin_leave" ELSE "run")
    /\ UNCHANGED <<queue, masks, stop, push, wake, ret, popped, done, yields>>

SpinLeave(w) ==
    /\ pc[w] = "spin_leave"
    /\ pending' = TRUE
    /\ Goto(w, "run")
    /\ UNCHANGED <<queue, spinning, sleeping, wakeup_count, stop, push, wake, ret,
                   popped, done, yields>>

\* StealFiber: a victim's queue yields a fiber, or none is due or has any.
StealFiber(w) ==
    /\ pc[w] = "steal"
    /\ \/ /\ \E f \in fresh \cap Foreign :
                /\ fresh' = fresh \ {f}
                /\ hand' = [hand EXCEPT ![w] = f]
          /\ Goto(w, "run")
       \/ /\ Goto(w, "sleep_set")
          /\ UNCHANGED <<fresh, hand>>
    /\ UNCHANGED <<cells, masks, stop, pushing, buffer, wake, ret, popped, done, yields>>

-----------------------------------------------------------------------------
\* WaitForFiber

SleepSet(w) ==
    /\ pc[w] = "sleep_set"
    /\ Drained(w)
    /\ sleeping' = sleeping \cup {w}
    /\ Goto(w, "sleep_acquire")
    /\ UNCHANGED <<queue, spinning, wakeup_count, pending, stop, push, wake, ret,
                   popped, done, yields>>

\* Mutant: the queue is not tested again once the sleeping bit is set.
SleepNoAcquire(w) ==
    /\ pc[w] = "sleep_acquire"
    /\ Goto(w, "sleep_wait")
    /\ UNCHANGED <<queue, masks, stop, push, wake, ret, popped, done, yields>>

SleepAcquire(w) == AcquireFiber(w, "sleep_acquire", "sleep_unset", "sleep_wait")

\* fetch_and(~mask): a worker that has been claimed meanwhile wakes another
\* one for its waker. The deferred fetch_and that follows clears nothing.
SleepUnset(w) ==
    /\ pc[w] = "sleep_unset"
    /\ sleeping' = sleeping \ {w}
    /\ \/ /\ w \in sleeping
          /\ Goto(w, "run")
          /\ UNCHANGED ret
       \/ /\ w \notin sleeping
          /\ ret' = [ret EXCEPT ![w] = "run"]
          /\ Goto(w, "wake_spin")
    /\ UNCHANGED <<queue, spinning, wakeup_count, pending, stop, push, wake, popped,
                   done, yields>>

\* Mutant: the counter is reset, so wake-ups made before the wait are lost.
WaitReset(w) ==
    /\ pc[w] = "sleep_wait"
    /\ wakeup_count' = [wakeup_count EXCEPT ![w] = 0]
    /\ Goto(w, "blocked")
    /\ UNCHANGED <<queue, spinning, sleeping, pending, stop, push, wake, ret, popped,
                   done, yields>>

\* WaitSlot::Wait: fetch_sub, and block if that leaves nothing.
Wait(w) ==
    /\ pc[w] = "sleep_wait"
    /\ wakeup_count' = [wakeup_count EXCEPT ![w] = @ - 1]
    /\ Goto(w, IF wakeup_count[w] = 1 THEN "blocked" ELSE "sleep_retry")
    /\ UNCHANGED <<queue, spinning, sleeping, pending, stop, push, wake, ret, popped,
                   done, yields>>

\* wakeup_count_.wait(0) returns.
Unblock(w) ==
    /\ pc[w] = "blocked"
    /\ wakeup_count[w] # 0
    /\ Goto(w, "sleep_retry")
    /\ UNCHANGED <<queue, masks, stop, push, wake, ret, popped, done, yields>>

SleepRetry(w) == AcquireFiber(w, "sleep_retry", "sleep_clear", "sleep_clear")

\* Mutant: the bit is left to the waker to clear.
SleepKeepBit(w) ==
    /\ pc[w] = "sleep_clear"
    /\ Goto(w, IF hand[w] # None THEN "run" ELSE "sleep_set")
    /\ UNCHANGED <<queue, masks, stop, push, wake, ret, popped, done, yields>>

\* The deferred sleeping_workers_.fetch_and(~mask), then return or once more.
SleepClear(w) ==
    /\ pc[w] = "sleep_clear"
    /\ sleeping' = sleeping \ {w}
    /\ Goto(w, IF hand[w] # None THEN "run" ELSE "sleep_set")
    /\ UNCHANGED <<queue, spinning, wakeup_count, pending, stop, push, wake, ret,
                   popped, done, yields>>

-----------------------------------------------------------------------------
\* What runs on a worker, thieves, and Stop

\* fiber->Resume() returns because the fiber has terminated.
Finish(w) ==
    /\ pc[w] = "run" /\ hand[w] # ShuttingDown
    /\ done' = done \cup {hand[w]}
    /\ hand' = [hand EXCEPT ![w] = None]
    /\ Goto(w, "acquire")
    /\ UNCHANGED <<cells, masks, stop, push, wake, ret, popped, yields>>

LeaveGroup(w) ==
    /\ pc[w] = "run" /\ hand[w] = ShuttingDown
    /\ Goto(w, "left")
    /\ UNCHANGED <<queue, masks, stop, push, wake, ret, popped, done, yields>>

\* RemoteAcquireFiber: a worker of another group takes a fiber and runs it.
RemoteAcquireFiber ==
    /\ world.thieves /\ HeadReady /\ cells[1].entity \notin Local
    /\ cells' = Tail(cells)
    /\ done' = done \cup {cells[1].entity}
    /\ UNCHANGED <<hand, masks, stop, push, wake, pc, ret, popped, yields>>

\* Stop is called once nobody makes fibers ready any more.
Stop ==
    /\ world.stops /\ ~stopped
    /\ \A t \in Starters : pc[t] = "idle"
    /\ \A w \in Workers : pc[w] \notin {"push", "publish"}
    /\ stopped' = TRUE
    /\ UNCHANGED <<queue, masks, stop_index, push, wake, pc, ret, popped, done, yields>>

\* Mutant: the loop ends one worker early.
PersistentWakeShort ==
    /\ stopped /\ stop_index < GroupSize - 1
    /\ wakeup_count' = [wakeup_count EXCEPT ![stop_index] = PersistentWakeups]
    /\ stop_index' = stop_index + 1
    /\ UNCHANGED <<queue, spinning, sleeping, pending, stopped, push, wake, pc, ret,
                   popped, done, yields>>

PersistentWake ==
    /\ stopped /\ stop_index < GroupSize
    /\ wakeup_count' = [wakeup_count EXCEPT ![stop_index] = PersistentWakeups]
    /\ stop_index' = stop_index + 1
    /\ UNCHANGED <<queue, spinning, sleeping, pending, stopped, push, wake, pc, ret,
                   popped, done, yields>>

-----------------------------------------------------------------------------
\* Pushing and waking, by any thread
PushAndWake(t) ==
    \/ Claim(t) \/ Publish(t) \/ LoadSpinning(t) \/ ClaimSpinner(t)
    \/ LoadSleeping(t) \/ ClaimSleeper(t) \/ Notify(t)
    \/ ExchangeSpinning(t) \/ WakeAll(t) \/ LoadSleepers(t) \/ ClaimSleepers(t)

WorkerStep(w) ==
    \/ Acquire(w) \/ SpinEnter(w) \/ SpinAcquire(w) \/ SpinPending(w)
    \/ SpinTest(w) \/ SpinClear(w) \/ SpinFinal(w) \/ SpinReport(w) \/ SpinLeave(w)
    \/ StealFiber(w) \/ SleepSet(w) \/ SleepAcquire(w) \/ SleepUnset(w)
    \/ Wait(w) \/ Unblock(w) \/ SleepRetry(w) \/ SleepClear(w)
    \/ Finish(w) \/ Yield(w) \/ LeaveGroup(w)

ThreadStep(t) == PushAndWake(t) \/ (t \in Workers /\ WorkerStep(t))

StarterStep(t) ==
    \/ \E f \in Fibers : StartFiber(t, f)
    \/ \E b \in Starts : StartFibers(t, b)

\* The group may rest: nothing is queued and every worker sleeps, or all have left.
Resting ==
    /\ cells = <<>> \/ \A w \in Workers : pc[w] = "left"
    /\ \A w \in Workers : pc[w] \in {"blocked", "left"}
    /\ \A t \in Starters : pc[t] = "idle"
    /\ UNCHANGED vars

Step ==
    \/ \E t \in Threads : ThreadStep(t) \/ Flush(t)
    \/ \E t \in world.starters : StarterStep(t)
    \/ RemoteAcquireFiber \/ Stop \/ PersistentWake
    \/ Resting

Next == Step /\ UNCHANGED world

Spec == Init /\ [][Next]_vars

\* Threads that can go on do; a fiber terminates or yields, it does not hold
\* its worker for ever; stores become visible; Stop finishes its loop.
Fairness ==
    /\ \A t \in Threads : WF_vars(ThreadStep(t) /\ UNCHANGED world)
    /\ \A t \in Threads : WF_vars(Flush(t) /\ UNCHANGED world)
    /\ WF_vars(PersistentWake /\ UNCHANGED world)

FairSpec == Spec /\ Fairness

-----------------------------------------------------------------------------
\* Properties

Labels == {"idle", "push", "publish", "wake_spin", "claim_spin", "wake_sleep",
           "claim_sleep", "notify", "wake_batch", "wake_all", "wake_some",
           "claim_some", "acquire", "spin_enter", "spin_acquire", "spin_pending",
           "spin_test", "spin_clear", "spin_final", "spin_report", "spin_leave", "steal",
           "sleep_set", "sleep_acquire", "sleep_unset", "sleep_wait", "blocked",
           "sleep_retry", "sleep_clear", "run", "left"}

TypeOK ==
    /\ cells \in Seq([entity : Fibers \cup Foreign, ready : BOOLEAN])
    /\ hand \in [Workers -> Fibers \cup Foreign \cup {None, ShuttingDown}]
    /\ spinning \in SUBSET Workers /\ sleeping \in SUBSET Workers
    /\ wakeup_count \in [Workers -> Int]
    /\ pending \in BOOLEAN /\ stopped \in BOOLEAN /\ stop_index \in 0..GroupSize
    /\ pc \in [Threads -> Labels] /\ ret \in [Threads -> Labels]
    /\ popped \in SUBSET Workers
    /\ pushing \in [Threads -> Seq(Fibers \cup Foreign)]
    /\ buffer \in [Threads -> Seq(Fibers \cup Foreign)]
    /\ claim \in [Threads -> SUBSET Workers]
    /\ seen \in [Threads -> SUBSET Workers]
    /\ want \in [Threads -> Nat]
    /\ fresh \in SUBSET (Fibers \cup Foreign) /\ done \in SUBSET (Fibers \cup Foreign)
    /\ yields \in Nat

\* Worker w has found the queue empty after it set its sleeping bit, and only
\* a wake-up makes it look again.
Asleep(w) == pc[w] \in {"sleep_wait", "blocked"}

\* The wake-up has arrived: WaitSlot::Wait will not block, or not any longer.
WakeupPending(w) ==
    \/ pc[w] = "sleep_wait" /\ wakeup_count[w] # 1
    \/ pc[w] = "blocked" /\ wakeup_count[w] # 0

BeingWoken(w) == \E t \in Threads : pc[t] = "notify" /\ w \in claim[t]

\* A thread that may still wake somebody up.
Waking(t) ==
    \/ pc[t] \in {"publish", "wake_spin", "claim_spin", "wake_sleep", "claim_sleep",
                  "notify", "wake_batch", "wake_all", "wake_some", "claim_some"}
    \/ buffer[t] # <<>>

\* "otherwise if a new fiber is put into the ready queue concurrently, and
\* whoever makes the fiber ready checked the sleeping mask before we updated
\* it, we'll lose the fiber": a queued fiber never waits for a group whose
\* workers all sleep and whom nobody is going to wake.
NoLostFiber ==
    cells # <<>> =>
        \/ \E w \in Workers : ~Asleep(w) /\ pc[w] # "left"
        \/ \E w \in Workers : Asleep(w) /\ WakeupPending(w)
        \/ \E t \in Threads : Waking(t)

\* No fiber is lost as long as the store that publishes it is visible before the masks
\* are loaded.
NoFiberLostInOrder == ~world.buffered => NoLostFiber

\* "`WaitSlot` class it self guaranteed no wake-up loss": a sleeping worker
\* whose bit somebody has cleared is woken, so no worker sleeps unseen.
ClaimedIsWoken ==
    \A w \in Workers : Asleep(w) /\ w \notin sleeping =>
        WakeupPending(w) \/ BeingWoken(w)

\* The spinning mask names workers that do look at the queue before they
\* sleep, and at most kMaximumSpinners of them (FLARE_CHECK_LE(woke, n)).
SpinnersLook ==
    /\ Cardinality(spinning) <= kMaximumSpinners
    /\ \A w \in spinning :
         \/ pc[w] \in {"spin_acquire", "spin_pending", "spin_test", "spin_clear"}
         \/ /\ pc[w] \in {"wake_sleep", "claim_sleep", "notify"}
            /\ ret[w] \in {"spin_pending", "spin_test"}

\* The types, the spinners, and the assertions of the code: FLARE_CHECK_GE and
\* FLARE_CHECK_GT of WaitSlot, FLARE_CHECK_EQ of WaitForFiber (the sleeping bit
\* was clear) and the one of WorkerProc that WaitForFiber does not return nullptr.
ChecksHold ==
    /\ TypeOK
    /\ SpinnersLook
    /\ \A w \in Workers :
          /\ wakeup_count[w] >= 0
          /\ pc[w] = "sleep_retry" => wakeup_count[w] > 0
          /\ pc[w] = "sleep_set" => w \notin sleeping
          /\ pc[w] = "run" => hand[w] # None

\* "Wake up workers with lowest indices": WakeUpWorkers(n) claims the n lowest
\* sleeping workers, or all of them if there are no more than n.
BatchWakesLowest ==
    [][\A t \in Threads : pc[t] = "wake_some" /\ pc'[t] = "claim_some" =>
        /\ Cardinality(claim'[t]) = IF Cardinality(sleeping) <= want[t]
                                    THEN Cardinality(sleeping) ELSE want[t]
        /\ \A v \in claim'[t], w \in sleeping \ claim'[t] : v < w]_vars

\* Once Stop has been called every worker leaves the group.
EveryWorkerLeaves == stopped ~> \A w \in Workers : pc[w] = "left"
=============================================================================
