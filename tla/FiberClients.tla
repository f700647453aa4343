---------------------------- MODULE FiberClients ----------------------------
(***************************************************************************)
(* The synchronisation objects that fibers use, as programs over the        *)
(* operations of Waitable: Latch, CountingSemaphore, Barrier, ExitBarrier   *)
(* (which implements Fiber::join), WorkQueue, OneshotTimedEvent,            *)
(* SharedMutex and the FastLatch of the rpc library.                        *)
(*                                                                         *)
(* Each operation but those of the event has the same shape: lock the mutex *)
(* of the object, wait on its condition variable until a predicate holds or *)
(* the timeout is over, change the object, notify, unlock.  An operator for *)
(* each class says what the parts are.  SharedMutex and FastLatch have an    *)
(* atomic counter that tells them whether they need any of this.  A fiber    *)
(* runs a program: a sequence of operations, each with its object, the count *)
(* n that it is called with, and a mark if the fiber owns the object and     *)
(* destroys it when the operation has returned.                              *)
(***************************************************************************)
EXTENDS Waitable, Integers

CONSTANTS Programs,  \* the programs that the fibers may run, a set of functions
          Initial,   \* the initial value of each object
          WriterLock,  \* for each SharedMutex, the object of its writer_lock_
          kMaxReaders  \* SharedMutex::kMaxReaders

ASSUME QuotaAssumption == kMaxReaders \in Nat \ {0, 1}

VARIABLES
    prog,      \* what is left of each fiber's program
    value,     \* count_ of a Latch, Barrier or ExitBarrier, current_ of a
               \* semaphore, the length of jobs_ of a WorkQueue,
               \* exited_readers_ of a SharedMutex, wake_up_ of a FastLatch
    expected,  \* Barrier::expected_
    phase,     \* Barrier::current_
    token,     \* the arrival token that a fiber got from a barrier, or
               \* pending_readers of a writer
    stopped,   \* WorkQueue::stopped_
    quota,     \* SharedMutex::reader_quota_ or FastLatch::left_
    granted,   \* SharedMutex::newly_granted_readers_
    guard,     \* OneshotTimedEvent::Impl::event_set_guard
    alive      \* whether the object has not been destroyed

objectVars == <<value, expected, phase, token, stopped, quota, granted>>
clientVars == <<prog, objectVars, guard, alive>>
vars == <<pc, ret, obj, state, scheduler_lock, targets, mutexVars, chainVars,
          timerVars, clientVars>>

Op(f) == Head(prog[f]).op

\* The operations that wait with a timeout.
TimedOps == {"latch_wait_for", "try_acquire_for"}

\* The operations that look at an atomic counter before they lock anything.
QuotaOps == {"lock_shared", "try_lock_shared", "unlock_shared", "fast_wait",
             "fast_count_down"}

-----------------------------------------------------------------------------
(* What an operation waits for (pred), the value it leaves, what it calls    *)
(* with the lock held (locked) and after it has unlocked (unlocked), and     *)
(* whether it starts over (again).                                           *)

Latch(op, o, n) ==
    LET last == op = "count_down" /\ value[o] = n
    IN  [pred |-> op \in {"count_down", "latch_try_wait"} \/ value[o] = 0,
         value |-> IF op = "count_down" THEN value[o] - n ELSE value[o],
         locked |-> "none", unlocked |-> IF last THEN "notify_all" ELSE "none",
         again |-> FALSE]

Semaphore(op, o, n) ==
    [pred |-> op \in {"release", "try_acquire"} \/ value[o] # 0,
     value |-> CASE op = "release" -> value[o] + n
                 [] op = "try_acquire" /\ value[o] = 0 -> 0
                 [] OTHER -> value[o] - 1,
     locked |-> CASE op # "release" -> "none"
                  [] n = 1 -> "notify_one"
                  [] OTHER -> "notify_all",
     unlocked |-> "none",
     again |-> FALSE]

\* The count of the next phase does not include the fiber that completed this one.
BarrierShort(op, o, n, f) ==
    LET arrives == op \in {"arrive", "arrive_and_drop"}
        last == arrives /\ value[o] = n
    IN  [pred |-> arrives \/ phase[o] # token[f],
         value |-> IF last THEN expected[o] - 1
                   ELSE IF arrives THEN value[o] - n ELSE value[o],
         locked |-> IF last THEN "notify_all" ELSE "none", unlocked |-> "none",
         again |-> FALSE]

\* The last fiber to arrive starts the next phase.
Barrier(op, o, n, f) ==
    LET arrives == op \in {"arrive", "arrive_and_drop"}
        last == arrives /\ value[o] = n
    IN  [pred |-> arrives \/ phase[o] # token[f],
         value |-> IF last THEN IF op = "arrive" THEN expected[o] ELSE expected[o] - 1
                   ELSE IF arrives THEN value[o] - n ELSE value[o],
         locked |-> IF last THEN "notify_all" ELSE "none", unlocked |-> "none",
         again |-> FALSE]

\* "exit" is UnsafeCountDown, which FiberProc calls with the lock it has grabbed.
ExitBarrier(op, o) ==
    LET last == op = "exit" /\ value[o] = 1
    IN  [pred |-> op = "exit" \/ value[o] = 0,
         value |-> IF op = "exit" THEN value[o] - 1 ELSE value[o],
         locked |-> IF last THEN "notify_all" ELSE "none", unlocked |-> "none",
         again |-> FALSE]

\* "work" is one round of WorkerProc, which moves all the jobs out.
WorkQueue(op, o) ==
    [pred |-> op # "work" \/ stopped[o] \/ value[o] # 0,
     value |-> CASE op = "push" -> value[o] + 1
                 [] op = "work" -> 0
                 [] OTHER -> value[o],
     locked |-> IF op = "work" THEN "none" ELSE "notify_one", unlocked |-> "none",
     again |-> op = "work" /\ value[o] # 0]

\* The writer leaves as soon as the first reader has.
SharedMutexFirst(op, o, f) ==
    [pred |-> CASE op = "rw_lock" -> value[o] # 0
                [] op = "lock_shared" -> granted[o] # 0
                [] OTHER -> TRUE,
     value |-> CASE op = "rw_lock" -> 0
                 [] op = "unlock_shared" -> value[o] + 1
                 [] OTHER -> value[o],
     locked |-> CASE op = "unlock_shared" -> "notify_all"
                  [] op = "rw_unlock" -> IF quota[o] # 0 THEN "notify_all" ELSE "leave"
                  [] OTHER -> "none",
     unlocked |-> "none",
     again |-> FALSE]

\* The parts under wakeup_lock_: lock waits until all the readers it has met are
\* gone, lock_shared (WaitForRead) until a writer has let it in, unlock_shared
\* (WakeupWriter) reports to the writer, and unlock wakes those who wait to read.
SharedMutex(op, o, f) ==
    [pred |-> CASE op = "rw_lock" -> value[o] = token[f]
                [] op = "lock_shared" -> granted[o] # 0
                [] OTHER -> TRUE,
     value |-> CASE op = "rw_lock" -> 0
                 [] op = "unlock_shared" -> value[o] + 1
                 [] OTHER -> value[o],
     locked |-> CASE op = "unlock_shared" -> "notify_all"
                  [] op = "rw_unlock" -> IF quota[o] # 0 THEN "notify_all" ELSE "leave"
                  [] OTHER -> "none",
     unlocked |-> "none",
     again |-> FALSE]

\* WaitSlow and NotifySlow.
FastLatch(op, o) ==
    [pred |-> op = "fast_count_down" \/ value[o] = 1,
     value |-> 1,
     locked |-> IF op = "fast_count_down" THEN "notify_one" ELSE "none",
     unlocked |-> "none",
     again |-> FALSE]

Body(f) ==
    LET op == Op(f)
        o == obj[f]
        n == Head(prog[f]).n
    IN  CASE op \in {"count_down", "latch_try_wait", "latch_wait", "latch_wait_for"} ->
               Latch(op, o, n)
          [] op \in {"acquire", "try_acquire", "try_acquire_for", "release"} ->
               Semaphore(op, o, n)
          [] op \in {"arrive", "arrive_and_drop", "phase_wait"} -> Barrier(op, o, n, f)
          [] op \in {"exit", "join"} -> ExitBarrier(op, o)
          [] op \in {"push", "stop", "work"} -> WorkQueue(op, o)
          [] op \in {"rw_lock", "rw_unlock", "lock_shared", "unlock_shared"} ->
               SharedMutex(op, o, f)
          [] op \in {"fast_wait", "fast_count_down"} -> FastLatch(op, o)

Init ==
    /\ prog \in Programs
    /\ pc = [f \in Fibers |-> IF prog[f] = <<>> THEN "finished" ELSE "start"]
    /\ ret = [f \in Fibers |-> "none"]
    /\ obj = [f \in Fibers |-> None]
    /\ state = [f \in Fibers |-> "running"]
    /\ scheduler_lock = [f \in Fibers |-> FALSE]
    /\ count = [o \in Objects |-> 0]
    /\ slow_path_lock = [o \in Objects |-> None]
    /\ lock_waiters = [o \in Objects |-> <<>>]
    /\ lock_satisfied = [f \in Fibers |-> FALSE]
    /\ waiters = [o \in Objects |-> <<>>]
    /\ satisfied = [f \in Fibers |-> FALSE]
    /\ persistent = [o \in Objects |-> FALSE]
    /\ targets = [f \in Fibers |-> <<>>]
    /\ timed = [f \in Fibers |-> FALSE]
    /\ expired = [f \in Fibers |-> FALSE]
    /\ wait_no = [f \in Fibers |-> 0]
    /\ timer = [f \in Fibers |-> FALSE]
    /\ callbacks = {}
    /\ awake = {}
    /\ value = Initial
    /\ expected = Initial
    /\ phase = [o \in Objects |-> 0]
    /\ token = [f \in Fibers |-> 0]
    /\ stopped = [o \in Objects |-> FALSE]
    /\ quota = [o \in Objects |-> IF o \in DOMAIN WriterLock THEN kMaxReaders ELSE 2]
    /\ granted = [o \in Objects |-> 0]
    /\ guard = [o \in Objects |-> FALSE]
    /\ alive = [o \in Objects |-> TRUE]

unchangedByClients ==
    <<state, scheduler_lock, targets, mutexVars, chainVars, wait_no, timer, callbacks,
      awake>>

\* Call the next operation of the program.
Start(f) ==
    /\ pc[f] = "start"
    /\ obj' = [obj EXCEPT ![f] = IF Op(f) \in {"rw_lock", "rw_try_lock"}
                                 THEN WriterLock[Head(prog[f]).obj] ELSE Head(prog[f]).obj]
    /\ timed' = [timed EXCEPT ![f] = Op(f) \in TimedOps]
    /\ expired' = [expired EXCEPT ![f] = FALSE]
    /\ CASE Op(f) \in {"event_wait", "event_set"} ->
              Goto(f, Op(f)) /\ ret' = [ret EXCEPT ![f] = "done"]
         [] Op(f) = "timed_set" -> Goto(f, "guard") /\ UNCHANGED ret
         [] Op(f) \in QuotaOps -> Goto(f, "quota") /\ UNCHANGED ret
         [] Op(f) = "rw_try_lock" -> Goto(f, "try_writer") /\ UNCHANGED ret
         [] OTHER -> Goto(f, "lock") /\ ret' = [ret EXCEPT ![f] = IF Op(f) = "rw_lock" THEN "quota"
                                                                  ELSE "test"]
    /\ UNCHANGED <<unchangedByClients, clientVars>>

\* IdempotentSet, called by OneshotTimedEvent::Set and by its timer.
IdempotentSet(f) ==
    LET o == obj[f]
    IN  /\ pc[f] = "guard"
        /\ guard' = [guard EXCEPT ![o] = TRUE]
        /\ ret' = [ret EXCEPT ![f] = "done"]
        /\ Goto(f, IF guard[o] THEN "done" ELSE "event_set")
        /\ UNCHANGED <<unchangedByClients, obj, timed, expired, prog, objectVars,
                       alive>>

\* SharedMutex::try_lock tries writer_lock_.
TryWriter(f) ==
    /\ pc[f] = "try_writer"
    /\ IF count[obj[f]] = 0
       THEN count' = [count EXCEPT ![obj[f]] = 1] /\ Goto(f, "quota")
       ELSE Goto(f, "failed") /\ UNCHANGED count
    /\ UNCHANGED <<ret, obj, state, scheduler_lock, slow_path_lock, lock_waiters,
                   lock_satisfied, targets, chainVars, timerVars, clientVars>>

\* What an operation makes of the counter, and where it goes from there: "done" and
\* "failed" return, "lock" enters the part that Body describes, "unlock" gives
\* writer_lock_ back. A loop of weak compare-and-swaps is the round that succeeds.
QuotaOutcome(op, was) ==
    CASE op = "lock_shared" -> [now |-> was - 1, to |-> IF was > 1 THEN "done" ELSE "lock"]
      [] op = "try_lock_shared" ->
           [now |-> IF was <= 0 THEN was ELSE was - 1, to |-> IF was <= 0 THEN "failed" ELSE "done"]
      [] op = "unlock_shared" -> [now |-> was + 1, to |-> IF was > 0 THEN "done" ELSE "lock"]
      [] op = "rw_lock" ->
           [now |-> was - kMaxReaders, to |-> IF was = kMaxReaders THEN "done" ELSE "lock"]
      [] op = "rw_try_lock" ->
           [now |-> IF was = kMaxReaders THEN 0 ELSE was,
            to |-> IF was = kMaxReaders THEN "done" ELSE "unlock"]
      [] op = "fast_wait" -> [now |-> was - 1, to |-> IF was = 1 THEN "done" ELSE "lock"]
      [] op = "fast_count_down" -> [now |-> was - 1, to |-> IF was = 2 THEN "done" ELSE "lock"]

\* The atomic access to reader_quota_ or left_.
Quota(f) ==
    LET o == Head(prog[f]).obj
        outcome == QuotaOutcome(Op(f), quota[o])
    IN  /\ pc[f] = "quota"
        /\ quota' = [quota EXCEPT ![o] = outcome.now]
        /\ Goto(f, outcome.to)
        /\ ret' = [ret EXCEPT ![f] = CASE outcome.to = "lock" -> "test"
                                        [] outcome.to = "unlock" -> "failed"
                                        [] OTHER -> @]
        /\ obj' = [obj EXCEPT ![f] = IF outcome.to = "lock" THEN o ELSE @]
        /\ token' = [token EXCEPT ![f] = IF Op(f) = "rw_lock" THEN kMaxReaders - quota[o] ELSE @]
        /\ UNCHANGED <<unchangedByClients, timed, expired, prog, value, expected, phase,
                       stopped, granted, guard, alive>>

\* The predicate does not hold: wait, unless the wait has timed out already.
TestFails(f) ==
    /\ pc[f] \in {"test", "retest"}
    /\ ~Body(f).pred
    /\ IF pc[f] = "retest" /\ expired[f]
       THEN Goto(f, "unlock") /\ ret' = [ret EXCEPT ![f] = "done"]
       ELSE Goto(f, "wait") /\ UNCHANGED ret
    /\ UNCHANGED <<unchangedByClients, obj, timed, expired, clientVars>>

\* The operation goes on: it changes the object, and notifies or unlocks.
TestHolds(f) ==
    LET o == obj[f]
        op == Op(f)
        body == Body(f)
        arrives == op \in {"arrive", "arrive_and_drop"}
    IN  /\ pc[f] \in {"test", "retest"}
        /\ body.pred
        /\ value' = [value EXCEPT ![o] = body.value]
        /\ expected' = [expected EXCEPT ![o] = IF op = "arrive_and_drop" THEN @ - 1 ELSE @]
        /\ phase' = [phase EXCEPT ![o] = IF arrives /\ value[o] = Head(prog[f]).n THEN @ + 1 ELSE @]
        /\ token' = [token EXCEPT ![f] = IF arrives THEN phase[o] ELSE @]
        /\ stopped' = [stopped EXCEPT ![o] = @ \/ op = "stop"]
        /\ quota' = [quota EXCEPT ![o] = IF op = "rw_unlock" THEN @ + kMaxReaders ELSE @]
        /\ granted' = [granted EXCEPT ![o] = CASE op = "lock_shared" -> @ - 1
                                               [] op = "rw_unlock" /\ quota[o] # 0 -> -quota[o]
                                               [] OTHER -> @]
        /\ Goto(f, IF body.locked = "none" THEN "unlock" ELSE body.locked)
        /\ ret' = [ret EXCEPT ![f] = IF body.locked # "none" THEN "leave"
                                     ELSE IF body.unlocked # "none" THEN "after"
                                     ELSE IF body.again THEN "start"
                                     ELSE "done"]
        /\ UNCHANGED <<unchangedByClients, obj, timed, expired, prog, guard, alive>>

\* Unlock after a notification; notify after the unlock. SharedMutex::unlock gives
\* writer_lock_ back before wakeup_lock_.
Leave(f) ==
    LET o == Head(prog[f]).obj
    IN  /\ \/ /\ pc[f] = "leave" /\ Op(f) = "rw_unlock" /\ obj[f] = o
              /\ Goto(f, "unlock")
              /\ obj' = [obj EXCEPT ![f] = WriterLock[o]]
              /\ ret' = [ret EXCEPT ![f] = "leave"]
           \/ /\ pc[f] = "leave" /\ (Op(f) # "rw_unlock" \/ obj[f] # o)
              /\ Goto(f, "unlock")
              /\ obj' = [obj EXCEPT ![f] = o]
              /\ ret' = [ret EXCEPT ![f] = "done"]
           \/ /\ pc[f] = "after"
              /\ Goto(f, "notify_all")
              /\ ret' = [ret EXCEPT ![f] = "done"]
              /\ UNCHANGED obj
        /\ UNCHANGED <<unchangedByClients, timed, expired, clientVars>>

\* The operation has returned; the owner of the object may destroy it now. An
\* attempt to lock that has failed is not followed by the unlock.
Done(f) ==
    /\ pc[f] \in {"done", "failed"}
    /\ prog' = [prog EXCEPT ![f] = IF pc[f] = "done" THEN Tail(@) ELSE Tail(Tail(@))]
    /\ alive' = [alive EXCEPT ![obj[f]] = @ /\ ~Head(prog[f]).destroy]
    /\ timed' = [timed EXCEPT ![f] = FALSE]
    /\ Goto(f, IF prog'[f] = <<>> THEN "finished" ELSE "start")
    /\ UNCHANGED <<unchangedByClients, ret, obj, expired, objectVars, guard>>

ClientStep(f) ==
    \/ Start(f) \/ IdempotentSet(f) \/ TryWriter(f) \/ Quota(f)
    \/ TestFails(f) \/ TestHolds(f) \/ Leave(f) \/ Done(f)

FiberStep(f) == ClientStep(f) \/ (WaitableStep(f) /\ UNCHANGED clientVars)

Next ==
    \/ \E f \in Fibers : FiberStep(f)
    \/ TimerStep /\ UNCHANGED clientVars

Spec == Init /\ [][Next]_vars

\* Some worker, or the timer worker, goes on while there is something to do. The
\* programs are finite and no operation spins, so that nothing more is needed.
FairSpec == Spec /\ WF_vars(Next)

-----------------------------------------------------------------------------
Labels ==
    {"start", "test", "retest", "leave", "after", "done", "failed", "finished", "guard",
     "quota", "try_writer",
     "lock", "lock_slow", "lock_announce", "lock_enqueue", "lock_halt", "lock_awake",
     "unlock", "unlock_wake", "schedule", "wait", "wait_halt", "wait_awake",
     "wait_remove", "wait_cancel", "wait_cleanup", "notify_one", "notify_all",
     "event_wait", "event_halt", "event_awake", "event_set"}

\* The type of the variables; the counters never go below zero.
TypeOK ==
    /\ pc \in [Fibers -> Labels]
    /\ ret \in [Fibers -> Labels \cup {"none"}]
    /\ obj \in [Fibers -> Objects \cup {None}]
    /\ state \in [Fibers -> {"running", "waiting", "ready"}]
    /\ scheduler_lock \in [Fibers -> BOOLEAN]
    /\ count \in [Objects -> Nat]
    /\ slow_path_lock \in [Objects -> Fibers \cup {None}]
    /\ lock_waiters \in [Objects -> Seq(Fibers)]
    /\ lock_satisfied \in [Fibers -> BOOLEAN]
    /\ waiters \in [Objects -> Seq(Fibers)]
    /\ satisfied \in [Fibers -> BOOLEAN]
    /\ persistent \in [Objects -> BOOLEAN]
    /\ targets \in [Fibers -> Seq(Fibers)]
    /\ timed \in [Fibers -> BOOLEAN]
    /\ expired \in [Fibers -> BOOLEAN]
    /\ wait_no \in [Fibers -> Nat]
    /\ timer \in [Fibers -> BOOLEAN]
    /\ \A c \in callbacks : c.fiber \in Fibers /\ c.wait \in Nat /\ c.at \in {"test", "ready"}
    /\ \A a \in awake : a[1] \in Fibers /\ a[2] \in Nat
    /\ value \in [Objects -> Nat] /\ expected \in [Objects -> Nat]
    /\ phase \in [Objects -> Nat] /\ token \in [Fibers -> Nat]
    /\ stopped \in [Objects -> BOOLEAN]
    /\ quota \in [Objects -> Int] /\ granted \in [Objects -> Nat]
    /\ guard \in [Objects -> BOOLEAN]
    /\ alive \in [Objects -> BOOLEAN]

\* The mutexes that the fiber is between lock() and unlock() of.
Held(f) ==
    (IF \/ pc[f] \in {"test", "retest", "wait", "unlock"}
        \/ pc[f] = "leave" /\ obj[f] = Head(prog[f]).obj
        \/ pc[f] \in {"notify_one", "notify_all", "schedule"} /\ ret[f] = "leave"
        \/ pc[f] = "quota" /\ Op(f) \in {"rw_lock", "rw_try_lock"}
     THEN {obj[f]} ELSE {})
    \cup (IF /\ pc[f] \in {"unlock", "unlock_wake", "schedule", "leave"}
             /\ Op(f) = "rw_unlock" /\ obj[f] = WriterLock[Head(prog[f]).obj]
          THEN {Head(prog[f]).obj} ELSE {})

\* Mutex: two fibers are never between lock() and unlock() of one mutex, although
\* unlock() hands the mutex over instead of releasing it and lock() competes for
\* it outside slow_path_lock_.
MutualExclusion ==
    \A f, g \in Fibers : f # g => Held(f) \cap Held(g) = {}

\* Mutex::unlock: when it has seen count_ > 1 and got slow_path_lock_, there is a
\* waiter on the chain, as FLARE_CHECK(fiber) demands.
UnlockFindsWaiter ==
    \A f \in Fibers :
        pc[f] = "unlock_wake" /\ slow_path_lock[obj[f]] = None =>
            WakeOne(lock_waiters[obj[f]], lock_satisfied) # None

\* Those who are about to ready the fiber w.
Wakers(w) ==
    {f \in Fibers : \E i \in DOMAIN targets[f] : targets[f][i] = w}
      \cup {c \in callbacks : c.fiber = w /\ c.at = "ready"}

\* ReadyFiber: whoever is about to ready a fiber is alone in that, and the fiber is
\* suspended or holds its scheduler_lock until it is. A notifier, a timer callback
\* that is late, or both, never put a fiber into the run queue a second time, and a
\* callback never ends another wait than its own.
WokenOnce ==
    \A w \in Fibers :
        /\ \A x, y \in Wakers(w) : x = y
        /\ Wakers(w) # {} => state[w] = "waiting" \/ scheduler_lock[w]
        /\ \A c \in callbacks : c.fiber = w /\ c.at = "ready" =>
              c.wait = wait_no[w] /\ <<w, c.wait>> \notin awake

\* The fiber has a wait block on its stack, in wait_until or Event::Wait.
Waiting(f) ==
    \/ pc[f] \in {"wait_halt", "wait_awake", "wait_remove", "event_halt", "event_awake"}
    \/ pc[f] \in {"unlock", "unlock_wake", "schedule"} /\ ret[f] = "wait_halt"

\* WaitBlock: a block that is linked into a chain, or that a timer callback will
\* still touch, is on the stack of a fiber that has not left the wait.
BlocksAlive ==
    /\ \A o \in Objects : \A i \in DOMAIN waiters[o] :
          obj[waiters[o][i]] = o /\ Waiting(waiters[o][i])
    /\ \A c \in callbacks : <<c.fiber, c.wait>> \notin awake =>
          /\ c.wait = wait_no[c.fiber]
          /\ Waiting(c.fiber) \/ pc[c.fiber] \in {"wait_cancel", "wait_cleanup"}

\* The next step of the fiber accesses its object.
Touches(f) ==
    pc[f] \in {"lock", "lock_slow", "lock_announce", "lock_enqueue", "unlock",
               "unlock_wake", "test", "retest", "wait", "wait_remove", "notify_one",
               "notify_all", "event_wait", "event_set", "guard",
               "quota", "try_writer"}

\* An object that its owner destroys once its own wait on it has returned is not
\* touched by the fiber that ended this wait: the comments of Event::Set and
\* Waitable::SetPersistentAwakened are about this.
TouchesLive == \A f \in Fibers : Touches(f) => alive[obj[f]]

\* WorkQueue::WorkerProc leaves only when no job is left.
NoJobLeft ==
    \A o \in Objects :
        stopped[o] /\ (\A g \in Fibers : \A i \in DOMAIN prog[g] :
                                        prog[g][i].op = "work" => prog[g][i].obj # o)
            => value[o] = 0

\* Barrier: a fiber that waits for the end of a phase is at most one phase behind,
\* because the next one cannot end before this fiber has arrived again.
PhaseInStep ==
    \A f \in Fibers :
        pc[f] \notin {"finished", "start"} /\ Op(f) = "phase_wait" =>
            token[f] <= phase[obj[f]] /\ phase[obj[f]] <= token[f] + 1

\* The fiber has returned from lock_shared, or from lock, and not begun to give the
\* lock back.
Reads(f, o) ==
    /\ prog[f] # <<>> /\ Head(prog[f]).obj = o
    /\ \/ Op(f) \in {"lock_shared", "try_lock_shared"} /\ pc[f] = "done"
       \/ Op(f) = "unlock_shared" /\ pc[f] \in {"start", "quota"}

Writes(f, o) ==
    /\ prog[f] # <<>> /\ Head(prog[f]).obj = o
    /\ \/ Op(f) \in {"rw_lock", "rw_try_lock"} /\ pc[f] = "done"
       \/ Op(f) = "rw_unlock" /\ (pc[f] \in {"start", "test"} \/ ret[f] = "test")

\* SharedMutex: a writer has the lock to itself. Readers that come while it waits are
\* let in by newly_granted_readers_ and may be late, or be overtaken by others; the
\* next writer, who counts them in its pending_readers, waits for all of them.
WriterAlone ==
    \A o \in DOMAIN WriterLock : \A f, g \in Fibers :
        f # g /\ Writes(f, o) => ~Writes(g, o) /\ ~Reads(g, o)

\* The FLARE_CHECKs on reader_quota_ and left_: the value that an operation finds.
QuotaChecks ==
    \A f \in Fibers :
        /\ pc[f] = "quota" =>
             LET was == quota[Head(prog[f]).obj]
             IN  CASE Op(f) \in {"lock_shared", "try_lock_shared"} -> was <= kMaxReaders /\ was # 1
                   [] Op(f) = "unlock_shared" -> was < kMaxReaders
                   [] Op(f) = "rw_lock" -> 0 < was /\ was <= kMaxReaders
                   [] Op(f) = "rw_try_lock" -> was <= kMaxReaders
                   [] OTHER -> was \in {1, 2}
        /\ pc[f] = "test" /\ Op(f) = "rw_unlock" =>
             -kMaxReaders < quota[obj[f]] /\ quota[obj[f]] <= 0

\* Neither the holders of a mutex nor a writer and others meet, whatever the waits,
\* hand-overs and timeouts in between.
Exclusion == MutualExclusion /\ WriterAlone

\* The types, and the assertions of Mutex, SharedMutex and FastLatch.
ChecksHold == TypeOK /\ UnlockFindsWaiter /\ QuotaChecks

\* Nobody is left with a pointer to a wait block or an object that is gone.
NothingDangles == BlocksAlive /\ TouchesLive

\* What WorkQueue and Barrier promise: a queue that is stopped is worked off, and no
\* phase is skipped.
ClientsKeepPromises == NoJobLeft /\ PhaseInStep

\* Every fiber gets through its program: no wake-up is lost between the test of a
\* predicate and Halt, in the hand-over of a mutex, or to a waiter that has timed out.
AllFinish == <>(\A f \in Fibers : pc[f] = "finished")
=============================================================================
