----------------------------- MODULE Background -----------------------------
(***************************************************************************)
(* What base/ does in the background: the time keeper                       *)
(* (internal/time_keeper), the thread pool behind BackgroundTaskHost        *)
(* (internal/thread_pool), the deferred procedure calls of the threads that *)
(* own a JobQueue (internal/dpc), and the end of it all (init.cc).          *)
(*                                                                         *)
(* A timer in the heap expires at some time; the wait of the time keeper    *)
(* ends when one has or when its own time is up, which it always is one     *)
(* day.  The wait for a job is a guard: whatever makes its condition true   *)
(* notifies.  Nodes of a JobQueue come from an object pool and go back to   *)
(* it; `head_` is the producer's own, so it moves with the link.            *)
(***************************************************************************)
EXTENDS Naturals, Sequences, FiniteSets

CONSTANTS PoolWorkers, Owners,
          Main,              \* the thread that calls TerminateBasicRuntime
          Timers, SlowTimers,
          Nodes,             \* names for JobQueue::Node, as many as may be needed
          Capacity,          \* of the vector that Pop fills
          Nil                \* nullptr

ASSUME BackgroundAssumption ==
    /\ SlowTimers \subseteq Timers
    /\ Main \notin PoolWorkers \cup Owners /\ PoolWorkers \cap Owners = {}
    /\ Nil \notin Nodes \cup Timers /\ Capacity \in Nat \ {0}

VARIABLES
    timers_,     \* TimeKeeper::timers_
    expired,     \* those whose time has come
    cancelled,   \* the timers that have been killed
    exited_,     \* TimeKeeper::exited_
    kpc, kp,     \* the step the time keeper is at, and the timer it fires
    jobs_,       \* ThreadPool::jobs_
    exiting_,    \* ThreadPool::exiting_
    bpc,         \* the step each other thread is at
    job,         \* the job of a pool worker
    calls,       \* the threads that call the callback of a timer
    registry,    \* the queues of live threads
    refs,        \* RefCounted<JobQueue>, 0 before and after its life
    acquired_,   \* JobQueue::acquired_
    head_, tail_, first_free_, next, cb,
    pool,        \* the nodes that are in the object pool
    node,        \* AllocNode's node
    visit,       \* ForEach: the queues it has yet to visit; empty if none is on
    queue, cur, cbs,  \* the queue that a thread pops from, `current`, and what it popped
    dtor,        \* whether it does so in ~JobQueue
    pushed, ran, \* the jobs of a queue: how many were pushed, which ones ran
    toPush,      \* the jobs that an owner may still push
    initialized  \* InitializeDpcOnce has been called

timerVars == <<timers_, expired, cancelled, exited_, kpc, kp, calls>>
poolVars == <<jobs_, exiting_, job>>
queueVars == <<head_, tail_, first_free_, next, cb, pool>>
lifeVars == <<registry, refs, acquired_, visit>>
popVars == <<queue, cur, cbs, dtor>>
pushVars == <<node, pushed, toPush, initialized>>
backgroundVars == <<timerVars, poolVars, bpc, queueVars, lifeVars, popVars, pushVars, ran>>

Consumers == PoolWorkers \cup Owners \cup {Main}
On(t, l) == bpc[t] = l
Step(t, l) == bpc' = [bpc EXCEPT ![t] = l]

\* The timers there are, the pool workers, and a bound: the calls each owner queues.
BackgroundInit(heap, workers_, budget) ==
    /\ timers_ = heap /\ expired = {} /\ cancelled = {} /\ exited_ = FALSE
    /\ kpc = "loop" /\ kp = Nil /\ calls = [x \in Timers |-> 0]
    /\ jobs_ = <<>> /\ exiting_ = FALSE /\ job = [w \in PoolWorkers |-> Nil]
    /\ bpc = [t \in Consumers |-> IF t \in workers_ THEN "take"
                                ELSE IF t \in PoolWorkers THEN "left" ELSE "run"]
    /\ registry = {} /\ visit = [t \in Consumers |-> {}]
    /\ refs = [o \in Owners |-> 0] /\ acquired_ = [o \in Owners |-> FALSE]
    /\ head_ = [o \in Owners |-> Nil] /\ tail_ = head_ /\ first_free_ = head_
    /\ next = [n \in Nodes |-> Nil] /\ cb = [n \in Nodes |-> 0] /\ pool = Nodes
    /\ node = [o \in Owners |-> Nil]
    /\ queue = [t \in Consumers |-> Nil] /\ cur = [t \in Consumers |-> Nil]
    /\ cbs = [t \in Consumers |-> <<>>] /\ dtor = [t \in Consumers |-> FALSE]
    /\ pushed = [o \in Owners |-> 0] /\ ran = [o \in Owners |-> <<>>] /\ toPush = budget
    /\ initialized = FALSE

-----------------------------------------------------------------------------
(* The time keeper.                                                        *)

\* Only a fast callback runs with the time keeper's lock held.
LockFree == kpc \notin {"fast", "call"}

\* The time of a timer comes.
Expire(x) ==
    /\ x \in timers_ \ expired
    /\ expired' = expired \cup {x}
    /\ UNCHANGED <<timers_, cancelled, exited_, kpc, kp, calls, poolVars, bpc, queueVars,
                   lifeVars, popVars, pushVars, ran>>

\* AddTimer, once it has seen that exited_ is not set: it is not looked at again.
AddTimer(x) ==
    /\ LockFree
    /\ timers_' = timers_ \cup {x}
    /\ UNCHANGED <<expired, cancelled, exited_, kpc, kp, calls>>

KillTimer(x) ==
    /\ x \notin cancelled
    /\ cancelled' = cancelled \cup {x}
    /\ UNCHANGED <<timers_, expired, exited_, kpc, kp, calls, poolVars, bpc, queueVars, lifeVars,
                   popVars, pushVars, ran>>

\* WorkerProc: the head of the loop, up to the wait.
Loop ==
    /\ kpc = "loop"
    /\ kpc' = IF exited_ THEN "left" ELSE "wait"
    /\ UNCHANGED <<timers_, expired, cancelled, exited_, kp, calls, poolVars, bpc, queueVars,
                   lifeVars, popVars, pushVars, ran>>

\* The wait times out.
WaitEnds ==
    /\ kpc = "wait" /\ expired = {}
    /\ kpc' = "loop"
    /\ UNCHANGED <<timers_, expired, cancelled, exited_, kp, calls, poolVars, bpc, queueVars,
                   lifeVars, popVars, pushVars, ran>>

\* ThreadPool::QueueJob.
QueueJob(j) == jobs_' = Append(jobs_, j)

\* A timer is taken from the heap; FireSlowTimer queues a job.
FireTimer(x) ==
    /\ kpc = "wait" /\ x \in expired
    /\ timers_' = timers_ \ {x} /\ expired' = expired \ {x}
    /\ IF x \in SlowTimers
       THEN /\ QueueJob(<<"timer", x>>)
            /\ kpc' = "loop" /\ UNCHANGED kp
       ELSE kpc' = "fast" /\ kp' = x /\ UNCHANGED jobs_
    /\ UNCHANGED <<cancelled, exited_, calls, exiting_, job, bpc, queueVars, lifeVars, popVars,
                   pushVars, ran>>

\* FireFastTimer, until the call.
FireFast ==
    /\ kpc = "fast"
    /\ IF kp \in cancelled
       THEN kpc' = "loop" /\ kp' = Nil /\ UNCHANGED calls
       ELSE kpc' = "call" /\ calls' = [calls EXCEPT ![kp] = @ + 1] /\ UNCHANGED kp
    /\ UNCHANGED <<timers_, expired, cancelled, exited_, poolVars, bpc, queueVars, lifeVars,
                   popVars, pushVars, ran>>

\* The timer goes back unless it has been killed.
PushBack(x) == timers_' = IF x \in cancelled THEN timers_ ELSE timers_ \cup {x}

\* FireFastTimer, after the call.
FastCalled ==
    /\ kpc = "call"
    /\ PushBack(kp)
    /\ calls' = [calls EXCEPT ![kp] = @ - 1]
    /\ kpc' = "loop" /\ kp' = Nil
    /\ UNCHANGED <<expired, cancelled, exited_, poolVars, bpc, queueVars, lifeVars, popVars,
                   pushVars, ran>>

-----------------------------------------------------------------------------
(* The thread pool.                                                        *)

\* WorkerProc takes a job, or leaves.
TakeJob(w) ==
    /\ On(w, "take")
    /\ IF exiting_
       THEN Step(w, "left") /\ UNCHANGED <<jobs_, job, queue>>
       ELSE /\ jobs_ # <<>>
            /\ job' = [job EXCEPT ![w] = Head(jobs_)]
            /\ jobs_' = Tail(jobs_)
            /\ IF Head(jobs_)[1] = "timer"
               THEN Step(w, "slow") /\ UNCHANGED queue
               ELSE Step(w, "flush") /\ queue' = [queue EXCEPT ![w] = Head(jobs_)[2]]
    /\ UNCHANGED <<timerVars, exiting_, queueVars, lifeVars, cur, cbs, dtor, pushVars, ran>>

\* The job of FireSlowTimer, until the call.
FireSlow(w) ==
    /\ On(w, "slow")
    /\ LET x == job[w][2]
       IN  IF x \in cancelled
           THEN Step(w, "take") /\ job' = [job EXCEPT ![w] = Nil] /\ UNCHANGED calls
           ELSE Step(w, "call") /\ calls' = [calls EXCEPT ![x] = @ + 1] /\ UNCHANGED job
    /\ UNCHANGED <<timers_, expired, cancelled, exited_, kpc, kp, jobs_, exiting_, queueVars,
                   lifeVars, popVars, pushVars, ran>>

\* After the call.
SlowCalled(w) ==
    /\ On(w, "called") /\ LockFree
    /\ LET x == job[w][2]
       IN  PushBack(x) /\ calls' = [calls EXCEPT ![x] = @ - 1]
    /\ job' = [job EXCEPT ![w] = Nil]
    /\ Step(w, "take")
    /\ UNCHANGED <<expired, cancelled, exited_, kpc, kp, jobs_, exiting_, queueVars, lifeVars,
                   popVars, pushVars, ran>>

-----------------------------------------------------------------------------
(* Deferred procedure calls: the owner of a queue.                         *)

RegistryFree == \A t \in Consumers : visit[t] = {}

\* QueueDpc for the first time in the program: DpcInitializer, made once, calls
\* AddTimer, which looks at exited_ before it takes the lock.
InitializeDpcOnce(o) ==
    /\ On(o, "run") /\ toPush[o] > 0 /\ ~initialized
    /\ \A p \in Owners : ~On(p, "add_timer")
    /\ IF exited_ THEN initialized' = TRUE /\ UNCHANGED bpc
       ELSE Step(o, "add_timer") /\ UNCHANGED initialized
    /\ UNCHANGED <<timerVars, poolVars, queueVars, lifeVars, popVars, node, pushed, toPush, ran>>

AddDpcTimer(o) ==
    /\ On(o, "add_timer")
    /\ AddTimer("flush")
    /\ initialized' = TRUE
    /\ Step(o, "run")
    /\ UNCHANGED <<poolVars, queueVars, lifeVars, popVars, node, pushed, toPush, ran>>

\* job_queues.Get for the first time in the thread, with the constructor of JobQueue.
NewQueue(o) ==
    /\ On(o, "run") /\ toPush[o] > 0 /\ initialized /\ o \notin registry /\ RegistryFree
    /\ registry' = registry \cup {o}
    /\ refs' = [refs EXCEPT ![o] = 1]
    /\ LET n == CHOOSE x \in pool : TRUE
       IN  /\ pool' = pool \ {n} /\ next' = [next EXCEPT ![n] = Nil]
           /\ head_' = [head_ EXCEPT ![o] = n] /\ tail_' = [tail_ EXCEPT ![o] = n]
           /\ first_free_' = [first_free_ EXCEPT ![o] = n]
    /\ UNCHANGED <<timerVars, poolVars, bpc, cb, acquired_, visit, popVars, pushVars, ran>>

\* Push: AllocNode and the new node's fields.
AllocNode(o) ==
    /\ On(o, "run") /\ toPush[o] > 0 /\ o \in registry
    /\ LET reuse == first_free_[o] # tail_[o]
           n == IF reuse THEN first_free_[o] ELSE CHOOSE x \in pool : TRUE
       IN  /\ first_free_' = IF reuse THEN [first_free_ EXCEPT ![o] = next[n]] ELSE first_free_
           /\ pool' = pool \ {n}
           /\ next' = [next EXCEPT ![n] = Nil] /\ cb' = [cb EXCEPT ![n] = pushed[o] + 1]
           /\ node' = [node EXCEPT ![o] = n]
    /\ toPush' = [toPush EXCEPT ![o] = @ - 1]
    /\ Step(o, "link")
    /\ UNCHANGED <<timerVars, poolVars, head_, tail_, lifeVars, popVars, pushed, initialized, ran>>

\* Push: the node is linked.
Link(o) ==
    /\ On(o, "link")
    /\ next' = [next EXCEPT ![head_[o]] = node[o]]
    /\ head_' = [head_ EXCEPT ![o] = node[o]]
    /\ node' = [node EXCEPT ![o] = Nil]
    /\ pushed' = [pushed EXCEPT ![o] = @ + 1]
    /\ Step(o, "spare")
    /\ UNCHANGED <<timerVars, poolVars, tail_, first_free_, cb, pool, lifeVars, popVars, toPush,
                   initialized, ran>>

\* FreeSpareNodes frees one.
FreeSpareNode(o) ==
    /\ On(o, "spare") /\ first_free_[o] # tail_[o]
    /\ pool' = pool \cup {first_free_[o]}
    /\ first_free_' = [first_free_ EXCEPT ![o] = next[@]]
    /\ UNCHANGED <<timerVars, poolVars, bpc, head_, tail_, next, cb, lifeVars, popVars, pushVars,
                   ran>>

\* It has freed enough, or the time has not come; Push returns.
Pushed(o) ==
    /\ On(o, "spare")
    /\ Step(o, "run")
    /\ UNCHANGED <<timerVars, poolVars, queueVars, lifeVars, popVars, pushVars, ran>>

\* The owner exits: the thread's array leaves the registry, then the reference goes.
Exit(o) ==
    /\ On(o, "run") /\ RegistryFree
    /\ registry' = registry \ {o}
    /\ queue' = IF o \in registry THEN [queue EXCEPT ![o] = o] ELSE queue
    /\ Step(o, IF o \in registry THEN "drop" ELSE "left")
    /\ UNCHANGED <<timerVars, poolVars, queueVars, refs, acquired_, visit, cur, cbs, dtor,
                   pushVars, ran>>

-----------------------------------------------------------------------------
(* Deferred procedure calls: those who run them.                           *)

\* FlushDpcs, called by t: ForEach locks the registry ...
StartFlush(t, from, to) ==
    /\ On(t, from) /\ RegistryFree
    /\ visit' = [visit EXCEPT ![t] = registry]
    /\ Step(t, IF registry = {} THEN to ELSE "foreach")
    /\ UNCHANGED <<timerVars, poolVars, queueVars, registry, refs, acquired_, popVars, pushVars,
                   ran>>

\* ... and queues a job, with a reference, for each queue.
FlushQueue(t, to) ==
    /\ On(t, "foreach")
    /\ \E o \in visit[t] :
           /\ refs' = [refs EXCEPT ![o] = @ + 1]
           /\ QueueJob(<<"flush", o>>)
           /\ visit' = [visit EXCEPT ![t] = @ \ {o}]
    /\ Step(t, IF Cardinality(visit[t]) = 1 THEN to ELSE "foreach")
    /\ UNCHANGED <<timerVars, exiting_, job, queueVars, registry, acquired_, popVars, pushVars,
                   ran>>

\* Mutant: the queue is popped whether somebody is at it or not.
AcquireQueueAnyway(w) ==
    /\ On(w, "flush")
    /\ acquired_' = [acquired_ EXCEPT ![queue[w]] = TRUE]
    /\ Step(w, "pop")
    /\ UNCHANGED <<timerVars, poolVars, queueVars, registry, refs, visit, popVars, pushVars, ran>>

\* flush_cb: Acquire, which fails if somebody is at it.
AcquireQueue(w) ==
    /\ On(w, "flush")
    /\ acquired_' = [acquired_ EXCEPT ![queue[w]] = TRUE]
    /\ Step(w, IF acquired_[queue[w]] THEN "drop" ELSE "pop")
    /\ UNCHANGED <<timerVars, poolVars, queueVars, registry, refs, visit, popVars, pushVars, ran>>

\* Pop.
PopStart(t) ==
    /\ On(t, "pop")
    /\ cur' = [cur EXCEPT ![t] = tail_[queue[t]]]
    /\ cbs' = [cbs EXCEPT ![t] = <<>>]
    /\ Step(t, "next")
    /\ UNCHANGED <<timerVars, poolVars, queueVars, lifeVars, queue, dtor, pushVars, ran>>

PopNext(t) ==
    /\ On(t, "next") /\ next[cur[t]] # Nil /\ Len(cbs[t]) < Capacity
    /\ LET p == next[cur[t]]
       IN  /\ cbs' = [cbs EXCEPT ![t] = Append(@, cb[p])]
           /\ cb' = [cb EXCEPT ![p] = 0]
           /\ cur' = [cur EXCEPT ![t] = p]
    /\ UNCHANGED <<timerVars, poolVars, bpc, head_, tail_, first_free_, next, pool, lifeVars,
                   queue, dtor, pushVars, ran>>

PopEnd(t) ==
    /\ On(t, "next") /\ (next[cur[t]] = Nil \/ Len(cbs[t]) = Capacity)
    /\ tail_' = [tail_ EXCEPT ![queue[t]] = cur[t]]
    /\ cur' = [cur EXCEPT ![t] = Nil]
    /\ Step(t, IF cbs[t] = <<>> THEN "empty" ELSE "call_dpcs")
    /\ UNCHANGED <<timerVars, poolVars, head_, first_free_, next, cb, pool, lifeVars, queue, cbs,
                   dtor, pushVars, ran>>

\* One callback is called; after the last, Pop again.
CallDpc(t) ==
    /\ On(t, "call_dpcs")
    /\ ran' = [ran EXCEPT ![queue[t]] = Append(@, Head(cbs[t]))]
    /\ cbs' = [cbs EXCEPT ![t] = Tail(@)]
    /\ Step(t, IF Len(cbs[t]) = 1 THEN "pop" ELSE "call_dpcs")
    /\ UNCHANGED <<timerVars, poolVars, queueVars, lifeVars, queue, cur, dtor, pushVars>>

\* Nothing is left: flush_cb releases the queue.
Release(t) ==
    /\ On(t, "empty") /\ ~dtor[t]
    /\ acquired_' = [acquired_ EXCEPT ![queue[t]] = FALSE]
    /\ Step(t, "drop")
    /\ UNCHANGED <<timerVars, poolVars, queueVars, registry, refs, visit, popVars, pushVars, ran>>

\* What a thread does when it has dropped a reference.
After(t) == IF t \in PoolWorkers THEN "take" ELSE IF t = Main THEN "clear" ELSE "left"

\* The job, or the owner, drops its reference; the last one enters ~JobQueue.
DropRef(t) ==
    /\ On(t, "drop")
    /\ refs' = [refs EXCEPT ![queue[t]] = @ - 1]
    /\ IF refs[queue[t]] = 1
       THEN Step(t, "spin") /\ dtor' = [dtor EXCEPT ![t] = TRUE] /\ UNCHANGED <<queue, job>>
       ELSE /\ Step(t, After(t)) /\ queue' = [queue EXCEPT ![t] = Nil] /\ UNCHANGED dtor
            /\ job' = IF t \in PoolWorkers THEN [job EXCEPT ![t] = Nil] ELSE job
    /\ UNCHANGED <<timerVars, jobs_, exiting_, queueVars, registry, acquired_, visit, cur, cbs,
                   pushVars, ran>>

\* ~JobQueue: Acquire, until it succeeds.
SpinAcquire(t) ==
    /\ On(t, "spin") /\ ~acquired_[queue[t]]
    /\ acquired_' = [acquired_ EXCEPT ![queue[t]] = TRUE]
    /\ Step(t, "pop")
    /\ UNCHANGED <<timerVars, poolVars, queueVars, registry, refs, visit, popVars, pushVars, ran>>

\* ~JobQueue: the nodes are freed, one after another.
FreeNode(t) ==
    /\ On(t, "empty") /\ dtor[t] /\ first_free_[queue[t]] # Nil
    /\ pool' = pool \cup {first_free_[queue[t]]}
    /\ first_free_' = [first_free_ EXCEPT ![queue[t]] = next[@]]
    /\ UNCHANGED <<timerVars, poolVars, bpc, head_, tail_, next, cb, lifeVars, popVars, pushVars,
                   ran>>

Destroyed(t) ==
    /\ On(t, "empty") /\ dtor[t] /\ first_free_[queue[t]] = Nil
    /\ dtor' = [dtor EXCEPT ![t] = FALSE] /\ queue' = [queue EXCEPT ![t] = Nil]
    /\ job' = IF t \in PoolWorkers THEN [job EXCEPT ![t] = Nil] ELSE job
    /\ Step(t, After(t))
    /\ UNCHANGED <<timerVars, jobs_, exiting_, queueVars, lifeVars, cur, cbs, pushVars, ran>>

-----------------------------------------------------------------------------
(* TerminateBasicRuntime, after its FlushDpcs.                             *)

StopTimeKeeper ==
    /\ On(Main, "stop_timers")
    /\ exited_' = TRUE
    /\ Step(Main, "join_timers")
    /\ UNCHANGED <<timers_, expired, cancelled, kpc, kp, calls, poolVars, queueVars, lifeVars,
                   popVars, pushVars, ran>>

\* TimeKeeper::Join, and ThreadPool::Stop.
StopPool ==
    /\ On(Main, "join_timers") /\ kpc = "left"
    /\ exiting_' = TRUE
    /\ Step(Main, "join_pool")
    /\ UNCHANGED <<timerVars, jobs_, job, queueVars, lifeVars, popVars, pushVars, ran>>

JoinPool ==
    /\ On(Main, "join_pool") /\ \A w \in PoolWorkers : On(w, "left")
    /\ Step(Main, "clear")
    /\ UNCHANGED <<timerVars, poolVars, queueVars, lifeVars, popVars, pushVars, ran>>

\* pools_.clear() destroys the jobs that are left, and with them their references.
ClearJob ==
    /\ On(Main, "clear")
    /\ IF jobs_ = <<>> THEN Step(Main, "left") /\ UNCHANGED <<jobs_, queue>>
       ELSE /\ jobs_' = Tail(jobs_)
            /\ IF Head(jobs_)[1] = "timer" THEN UNCHANGED <<bpc, queue>>
               ELSE Step(Main, "drop") /\ queue' = [queue EXCEPT ![Main] = Head(jobs_)[2]]
    /\ UNCHANGED <<timerVars, exiting_, job, queueVars, lifeVars, cur, cbs, dtor, pushVars, ran>>

-----------------------------------------------------------------------------
(* Properties.                                                             *)

Popping(t) == bpc[t] \in {"pop", "next", "call_dpcs", "empty"}
JobsOf(j) == Cardinality({i \in DOMAIN jobs_ : jobs_[i] = j})
             + Cardinality({w \in PoolWorkers : job[w] = j})

\* FireFastTimer and FireSlowTimer add a timer back only after its callback has
\* returned: it is in one place, and its callback is not called twice at once.
TimerInOnePlace ==
    \A x \in Timers :
        /\ calls[x] <= 1
        /\ JobsOf(<<"timer", x>>) + (IF x \in timers_ THEN 1 ELSE 0) + (IF kp = x THEN 1 ELSE 0) <= 1

\* acquired_ admits one consumer to a queue at a time.
OneConsumer ==
    \A t, u \in Consumers : t # u /\ Popping(t) /\ Popping(u) => queue[t] # queue[u]

\* The references to a queue are those of its owner and of the jobs that flush it,
\* so whoever works on a queue, or will, finds it alive.
QueueAlive ==
    \A o \in Owners :
        refs[o] = JobsOf(<<"flush", o>>) - Cardinality({w \in PoolWorkers : dtor[w] /\ queue[w] = o})
                  + (IF o \in registry \/ (On(o, "drop")) THEN 1 ELSE 0)
                  + (IF On(Main, "drop") /\ queue[Main] = o THEN 1 ELSE 0)

\* A node that Pop looks at is not in the object pool, and not a new one that Push has
\* not linked yet.
NodeKept ==
    \A t \in Consumers : On(t, "next") => cur[t] \notin pool /\ \A o \in Owners : cur[t] # node[o]

\* Pop's FLARE_CHECK(p->cb), flush_cb's FLARE_CHECK(cbs.empty()), and the calls of a
\* queue run once each, in their order.
DpcsInOrder ==
    /\ \A w \in PoolWorkers : On(w, "flush") => cbs[w] = <<>>
    /\ \A t \in Consumers : \A i \in DOMAIN cbs[t] : cbs[t][i] # 0
    /\ \A o \in Owners : /\ Len(ran[o]) <= pushed[o]
                         /\ \A i \in DOMAIN ran[o] : ran[o][i] = i

\* pools_.clear() comes when nobody can queue a job any more.
PoolOutlivesUsers ==
    bpc[Main] \in {"clear", "left"} =>
        kpc = "left" /\ \A w \in PoolWorkers : On(w, "left")

\* Some deferred call has not run yet, although its owner has gone or the runtime has
\* not ended.
Pending ==
    \E o \in Owners : Len(ran[o]) < pushed[o] /\ ~(On(Main, "left") /\ o \in registry)
=============================================================================
