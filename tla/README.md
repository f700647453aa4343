# Flare in TLA+

Flare is a C++ framework for servers. It has an M:N fiber runtime (`flare/fiber`), an
event-driven I/O layer (`flare/io`), RPC clients and servers (`flare/rpc`) and a library
of utilities (`flare/base`). This directory holds TLA+ models of the parts of Flare whose
correctness depends on the order in which threads, fibers, timers and the network act,
TLC configurations that check them on small instances, and proofs, checked by TLAPS, of
what holds for every number of threads, timers and nodes.

`PROJECT.json` lists the components, the runs, the hazards each property is there for,
the seeded faults that show that each property can fail, the lines of code behind
every definition, the findings and the theorems.

## The system and the modules

```
  rpc     Rpc  =  CallGate + GatePool (client)  +  RpcServer (server)
           |
  io      StreamConnection  =  Descriptor (with its event loop)  +  WritingBufferList
           |
  fiber   FiberClients  -->  Waitable          TimerWorker
           |                    |
          SchedulingGroup  -->  RunQueueSpec  <-- implemented by --  RunQueue

  base    Base  =  Hazptr + OutOfDutyCallback (over StoreBuffers)  +  Background
```

A connection's callbacks run in fibers; fibers block on the objects of `Waitable` and are
put back into the run queue of a scheduling group, whose workers execute them. Timeouts
come from the timer worker of the group. Each layer is checked against the promises of the
one below it: `SchedulingGroup` uses the abstract queue that `RunQueue` implements,
`FiberClients` is written over the operations of `Waitable`, `StreamConnection` extends the
descriptor and the list it is made of, `Rpc` composes a server whose services make calls.

The library below them has concurrency of its own. Its hazard pointers and its biased mutex,
the lock of the callbacks that idle workers run, do without fences on the fast path and make the
slow path interrupt all cores instead. Its time keeper, thread pool and deferred calls
work in the background: the timer of a hazard pointer domain reclaims objects on a thread
of the pool, and another timer makes the pool run the calls that other threads have
deferred. `Base` puts these together.

| module | code | state and actions |
|---|---|---|
| `RunQueue` | `fiber/detail/run_queue` | the ring (`head_seq`, `tail_seq`, `nodes`) and each thread's registers; one action per atomic access of `Push`, `BatchPush`, `Pop`, `Steal` |
| `RunQueueSpec` | what the run queue promises | a queue of cells, reserved in order, published in any order, taken in order |
| `SchedulingGroup` | `fiber/detail/scheduling_group`, `fiber_worker` | the masks of spinning and sleeping workers, the wake-up slots, store buffers; `StartFiber(s)`, `ReadyFiber`, `AcquireFiber`, `SpinningAcquireFiber`, `WaitForFiber`, `WakeUpOneWorker`, `WakeUpWorkers`, stealing, `Yield`, `Stop` |
| `Waitable` | `fiber/detail/waitable`, `Halt` and `ReadyFiber` of the group | wait chains and blocks, the mutex with its count, condition variables with timeouts, events |
| `FiberClients` | `fiber/{latch,barrier,semaphore,work_queue,shared_mutex}`, `ExitBarrier`, `OneshotTimedEvent`, `rpc/internal/fast_latch` | programs of the fibers; each class is described by what it tests, changes and notifies |
| `TimerWorker` | `fiber/detail/timer_worker`, `fiber/timer` | the threads' queues, the worker's heap and its sleep; adding, removing, firing, collecting, stopping; the fibers of periodic timers |
| `WritingBufferList` | `io/detail/writing_buffer_list` | head, tail, links, the pool of nodes; `Append` and `FlushTo`, one action per atomic access |
| `Descriptor` | `io/descriptor`, `io/event_loop` | event counts, the loop's task queue, restart counts, cleanup; firing, callbacks that return, `Kill`, `RestartRead/Write`, the loop's tasks |
| `StreamConnection` | `io/native/stream_connection` | the handshake, the two users and the callbacks, over the two modules above |
| `CallGate` | `rpc/internal/stream_call_gate`, `sharded_call_map`, `correlation_map` | the map from correlation ids to calls, timeouts, completions, the gates' health; responses, timeouts, losses, cancellation |
| `GatePool` | `rpc/internal/stream_call_gate_pool`, the use of it in `rpc_channel` | the shared pool with its copied list, the exclusive pool; taking, giving back, purging, stopping |
| `RpcServer` | `rpc/server`, `rpc/internal/normal_connection_handler` | connections, requests, background jobs, admission; accepting, serving, closing, the idle cleaner, `Stop` and `Join` |
| `Rpc` | a program with both ends | requests that are served by making a call |
| `StoreBuffers` | `base/internal/memory_barrier`, x86-64 memory | memory and each thread's buffered stores; loads, stores, locked instructions, `AsymmetricBarrierHeavy` |
| `Hazptr` | `base/hazptr` | the lists of entries and of retired objects, the entry caches; `Keep`, `clear`, construction and destruction of a `Hazptr`, `Retire`, `ReclaimBestEffort` |
| `OutOfDutyCallback` | `base/thread/out_of_duty_callback`, `base/internal/biased_mutex` | the global list and the threads' copies, both sides of the mutex access by access; setting, deleting, calling, thread exit |
| `Background` | `base/internal/{time_keeper,thread_pool,background_task_host,dpc}`, `TerminateBasicRuntime` in `init.cc` | the heap of timers, the jobs of the pool, the job queues with their nodes, references and consumers; fast and slow timers, pushing, flushing, popping, thread exit, the end of the runtime |
| `Base` | the three together | the callbacks of the two slow timers; who runs what |

The `MC*` modules define the constants of the instances; nothing else. The modules
`RunQueueSteps`, `RunQueueProofs`, `TimerWorkerProofs`, `WritingBufferListProofs`,
`StoreBufferProofs`, `HazptrProofs`, `OutOfDutyProofs` and `BaseProofs` hold proofs.

Conventions. A thread's position is a label (`pc`, `lpc`, `apc`, ...), a step lies between two
accesses to memory another thread may touch, and what a lock protects as a whole is one
step unless the lock itself is the subject. Payloads, names and addresses are model values.
An operator whose comment says how it is wrong (`...NoCheck`, `...Early`, ...) is a seeded
fault: it is not used by the specification, it replaces the definition that follows it when
`PROJECT.json` asks for it, and the property it is listed for must then fail.

## The runs

All bounds are constants of the `.cfg` files. Where a property is a conjunction of several
invariants, the text names it with its parts.

**`run_queue`** (`MCRunQueue`, `RunQueue.cfg`). Two threads that may push, pop, steal and
push a batch of two, three entities of which one may not be stolen, a ring of four slots,
sequence numbers up to five, so that positions are reused and the ring is both full and
empty. Two threads suffice for the races of the code, which are about a slot and the
thread one lap behind; that no more is needed is what the proofs show. No two threads own
a slot (`SlotExclusive`), a claimed node is clean (`ClaimedIsClean`, a check in the code),
`Steal` leaves local fibers alone although it reads the flag before it claims
(`StealOnlyStealable`), `Push` fails only when the ring was full, `Pop` and `Steal` only when it was
empty (`LinearizedAtSeqLoad`, which does not speak of `BatchPush`), and the ring implements `RunQueueSpec` (`ImplementsQueue`, a
refinement mapping), so no entity is lost or taken twice.

**`group`** (`MCSchedulingGroup`). Two workers in three worlds: two threads that start a fiber each,
with thieves from another group; a batch of two, with thieves and a foreign fiber to steal; and,
with delayed stores, a fiber that yields and a call of `Stop`. No fiber is left in the
queue while all workers sleep with no wake-up on its way, in the worlds without delayed stores
(`NoFiberLostInOrder`); a worker whose bit was claimed is woken (`ClaimedIsWoken`); types are kept, a spinner that was claimed looks
at the queue again, and the code's assertions hold (`ChecksHold`, of `TypeOK`, `SpinnersLook` and
the assertions). Two workers are enough
for a claim to meet the wrong one; the order among three is the subject of `group_mask`.
Under fairness of every thread, every worker leaves once `Stop` was called (`EveryWorkerLeaves`).
**`group_lost_fiber`** and **`group_mask`** refute comments of the code, see
the findings.

**`sync`** (`MCFiberClients`). Three fibers run one of sixteen programs over a latch, two
semaphores, a barrier, a join, a work queue, events with and without timeout, a
reader-writer lock and a fast latch; timeouts may happen at any moment. Three is the least
number with an owner, a waiter and a third who comes in between.

* `Exclusion`: a mutex has one owner (`MutualExclusion`) and a writer is alone (`WriterAlone`).
* `ChecksHold`: `TypeOK`; who unlocks with waiters announced finds one (`UnlockFindsWaiter`);
  the reader quota passes the code's checks (`QuotaChecks`).
* `WokenOnce`: a wait is ended once, by a notification or by its timeout.
* `NothingDangles`: no wait block is used after its fiber went on (`BlocksAlive`) and no object
  after its owner destroyed it (`TouchesLive`).
* `ClientsKeepPromises`: work queues leave no job (`NoJobLeft`), barriers keep phases apart
  (`PhaseInStep`).
* `AllFinish`: every fiber finishes.

**`latch_destroyed`**: a latch on the waiter's stack is touched after it is gone.

**`timer`** (`MCTimerWorker`). One worker and the timer worker as threads, a one-shot timer and
a periodic one. The worker sleeps through no timer (`NoMissedTimer`), callbacks are released
(`CallbackReleased`), not called early, nor twice (`FiredOnTime`), not called concurrently
and none is lost (`CallsKeepUp`), not taken after removal (`NotTakenAfterRemove`), and every
timer that is not removed fires (`AllFire`). All but the last are proved for any
number of threads and timers.

**`connection`** (`MCStreamConnection`). Two users, buffers of two bytes and one, fourteen
scenarios that combine arrivals, short writes, rate limits, pauses, handshake results,
losses and `Stop`. Each scenario allows a few things in every order; their union is one
state space.

* `NoStaleNode`: nodes are not used after they went back to the pool.
* `InOrder`: bytes leave (`WireInOrder`) and buffers are reported (`WrittenInOrder`) in order.
* `OneAtATime`: an event's handler runs once at a time (`OneHandler`); the list is flushed by
  one thread, and not when empty (`FlushContract`), as long as no handshake succeeds in
  `OnWritable` unless a writer has left its mark.
* `CleanupIsLast`: cleanup is last, and once.
* `ChecksHold`: `TypeOK`, restarts are counted right (`RestartCounts`), and the checks of the
  list (`ListChecks`, under the same condition) and of the connection (`ConnectionChecks`) hold.
* `SomeoneFlushes`: no buffer is left without someone to flush it.
* `NoLostEvent`, `KilledIsCleanedUp`: no event is forgotten, a killed connection is cleaned up.

**`connection_handshake`** has the other handshakes: two threads flush at once (`OneFlusher` fails).

**`rpc`** (`MCRpc`). Seventeen worlds: calls on shared gates, calls on exclusive gates, a server
with two connections, and a program that forwards requests. Two gates, calls,
connections and requests; the limits (connections of a pool, concurrent requests and
connections) are one, so that they are reached.

* `EndsOnce`: a call completes once (`CompletedOnce`), a gate is retired once (`RetiredOnce`),
  a connection is closed once (`ClosedOnce`).
* `AnswersMatch`: ids are unique while in use (`UniqueIds`), a call gets its own response
  (`RightAnswer`).
* `NoOrphan`: no call is left in the map of a gate that is gone.
* `UsesLive`: no timer is used after it was freed (`TimerNotFreed`), a gate in use is not
  destroyed (`GateKept`), a handler outlives its users (`HandlerAlive`), and so does the server
  (`ServerAlive`), but for a callback of its cleanup timer that is still under way 100 ms after
  the timer was killed. Such a callback has no connection in its hands; what it does to the
  server then is not covered.
* `CountsHold`: `TypeOK`, the pool keeps its bound (`PoolBounded`), the limits hold
  (`LimitsKept`).
* `CallsEnd`, `JoinReturns`: calls end, and so does `Join` of the server. `CallsEnd` makes three
  exceptions: a call without timeout whose connection stays open; a call that is left waiting for
  its gate because the pools were stopped meanwhile (see `gate_join`); a program that was aborted
  by a response of the wrong type.

**`gate_join`**: two wait for one connection to be cleaned up and one of them is woken
(`JoinersWoken` fails).

**`base`** (`MCBase`). Eight worlds on four threads with buffers of two stores: a reader that
uses a cached entry twice; two objects retired while one is kept and the timer reclaims
too; two readers that compete for entries; callbacks set and deleted while a worker calls
them; a thread that defers two calls and exits, once while the runtime ends and once while
two threads of the pool flush its queue; a fast timer that is killed while a deferred call
waits; the timer of a domain that is killed. The races of the code are between one thread
on the fast path and one on the slow path, and between one producer and two consumers; a
world has these and what makes them meet. Two stores
are the least that the model allows, because an unlock of the biased mutex makes two in one
step. They hold an unlock, or the end of one and the announcement that follows it, or a pointer
that is withdrawn and the next that is exposed. A thread whose buffer is full waits. That larger
buffers change nothing is part of what the proofs show, except for `BackgroundSafe`, which is
about locks only. Threads may have done
all they have to, so there is no check for deadlock; `Settles` stands for it.

* `HazardPointersSafe`: what a `Hazptr` keeps is not destroyed (`KeptAlive`), an entry has one
  owner (`EntryExclusive`), no retired object is lost or destroyed twice (`RetiredInOnePlace`).
* `CallbacksSafe`: the biased mutex excludes (`BiasedExclusion`), once a deletion is
  about to return nobody calls the callback, and only a thread that exits may have it in its copy
  (`DeletedIsGone`).
* `BackgroundSafe`: `TypeOK`; a job queue lives as long as someone works on it or will
  (`QueueAlive`); a node that `Pop` looks at is neither free nor in reuse (`NodeKept`); the pool
  outlives those who queue jobs (`PoolOutlivesUsers`); a job queue has one consumer
  (`OneConsumer`); a timer is in one place and its callback not called twice at once
  (`TimerInOnePlace`); deferred calls run once and in order (`DpcsInOrder`).
* `Settles`: deletions return, deferred calls run, replaced objects are destroyed.

### Fairness

* `group`: weak fairness of each worker, each starter and of the buffers of stores.
  Threads are scheduled by the kernel and stores become visible in finite time.
* `timer`: weak fairness of each thread inside an operation, of the worker, of the fibers it
  started and of the clock, not of the threads that decide to add a timer.
* `connection`: weak fairness of the loop or of some thread that runs; users that have begun
  an operation are among these, what the environment may do is not.
* `sync` and `rpc`: weak fairness of the next-state relation as a whole. Every behaviour of
  these instances is finite, so this says that the program does not halt in the middle. A
  response need not come, so `CallsEnd` leaves out calls without a timeout on an open
  connection.
* `base`: weak fairness of every thread that has begun an operation, of the store buffers and of
  the time keeper, not of the threads that begin something. A thread of the pool has strong
  fairness, because it needs the time keeper's mutex to put a slow timer back, and the mutex
  is free only between the callbacks of fast timers; so does the firing of each slow timer,
  because the heap is ordered by time and an expired timer gets its turn.

## What is proved

The theorems hold for every value of the constants that satisfies the named assumptions.

**The run queue** (`RunQueueSteps`, `RunQueueProofs`; `CapacityAssumption`, `EntitiesAssumption`, and a capacity of
at least two in the invariance theorem). None of the properties is inductive: that a slot has one
owner follows from what the sequence number of every slot says about its lap, and
from what each thread has concluded from the number it loaded. `RingInv` states this: `Window`
(positions `tail_seq .. head_seq - 1` are published or owned by a thread that fills them, the rest
is free or owned by a thread that empties it), `Ownership` (owned positions are distinct and
within one lap), `SeqBounds`, `FlagMatches` (the flag of a published node is that of its fiber),
and `Knows` (registers are still meaningful if the CAS succeeds). `RunQueueSteps` shows that
loads and CASes keep it, `RunQueueProofs` that stores do. From it follow
`TypeCorrect`, `ExclusiveSlots`, `CleanWhenClaimed`, `ThievesRespectLocality` and `Linearized`.
The refinement is only model-checked.

**The timer worker** (`TimerWorkerProofs`; `GroupAssumption`, `TimeAssumption`, `TimersAssumption`).
`NoMissedTimer` speaks of a worker that sleeps; to reach it one has to know, at every step of
every thread between `AddTimer` and the notification, who will see to a timer. `Covered` says: a queue's
earliest timer is not before the worker's next wake-up, or a thread is on its way to change
that, or the worker is about to collect the queue. `Asleep` says what the lock is for:
the worker's test is still true when it sleeps, unless it was notified. With `Created`,
`CallbackPlace` and `CallsKeepUp` this is inductive. It gives `TypeCorrect`, `NeverMissesATimer`,
`CallbackIsReleased`, `FiresOnTime`, `PeriodicCallsKeepUp` and `NotTakenAfterRemoval`.

**The list of buffers** (`WritingBufferListProofs`; `ListAssumption`). The specification is `ListSpec`: any
number of threads append, whoever is entitled to flushes, nodes return to the pool and are reused.
`order` records the order of the exchanges on the tail. The nodes in use are those from
`order[First]` to the end, where `First` is the first one not returned. `ListInv` says how
the pointers run along this part (`Chain`), which links are still to be made and by whom
(`Linked`, `OneLinker`), where the one flusher is (`Flushing`, `OneFlusher`) and that the head
is either set or about to be (`Headed`). It gives `NoStaleNodes` and `ReportedInOrder`.

That a connection lets one thread flush at a time (`FlushContract`) is model-checked, and so is
`WireInOrder`, which is about bytes.

**Memory** (`StoreBufferProofs`; `StoreBufferAssumption`: a buffer holds at least two stores). Lemmas
on what one step (a store, two stores, a locked instruction, a store that drains, an interrupt,
a heavy barrier) does to what each thread sees. `Ranked`, `Followed` and `Once` say
what matters of a buffer: each location has a youngest store, a store to one
location comes after every store to another, a location has one store. The proofs below use these lemmas and
do not look into a buffer.

**Hazard pointers** (`HazptrProofs`; `HazptrAssumption`). That a kept object is not destroyed
follows from what a scan sees, and this from where the exposed pointers
are. Nobody starts to keep an object that has been replaced, because `Keep` looks at the source
again after it has exposed the pointer. So those whom a scan must not miss keep the object
already when the heavy barrier begins, and the barrier brings their pointers to memory.
`HazptrInv` has `HazptrTypes` and `HazptrSteps` (what a thread has at each step), `Ownership`
(an entry that a reader has is active for everybody, and one that is being released is nobody's until
the store has drained: `OwnedActive`, `ReleasedActive`, `PtrStores`, `EntryExclusive`),
`Exposed` (a reader has exposed what it checks and uses), `Scanned` (after the barrier, what a reader keeps
is in memory, and the scan will find it or has found it), `KeptAlive` and
`RetiredInOnePlace`.

**The biased mutex and the callbacks** (`OutOfDutyProofs`; `OutOfDutyAssumption`). A worker that missed
the announcement of the slow side was past its look when the heavy barrier began, so the barrier
brings its own announcement to memory before the slow side looks. `DutyInv` has `DutyTypes`,
`DutySteps`, `DutyHandles` (a callback is deleted once), `Mutex` (each side's
announcement: `Announced`; after the barrier, that of a worker inside is in memory: `Noticed`;
`BiasedExclusion`) and `Clean` (the queues that a deletion has visited do not have the callback).

**The two together** (`BaseProofs`; also `BaseAssumption`). In `Base` the two share the threads, the buffers
and the heavy barrier with each other and with the timers and deferred calls. `BaseInv` adds to
`HazptrInv` and `DutyInv` that memory and buffers hold what they may (`StoresOK`). Each
component keeps the invariant of the other because their locations are apart (`EntryAccess`,
`LockAccess`: all that a thread does to memory). It gives `HazardPointers` and `DeletedCallbacks`, the
invariants `HazardPointersSafe` and `CallbacksSafe` of the run `base`, for any threads, entries,
objects, callbacks and worlds, and store buffers of any size.

Model-checked only, and not proved:

* liveness under fairness (`EveryWorkerLeaves`, `AllFinish`, `AllFire`, `KilledIsCleanedUp`,
  `CallsEnd`, `JoinReturns`, `Settles`), which is out of the prover's reach;
* `ImplementsQueue`, whose refinement mapping builds a sequence of cells from the window of the ring;
* `BackgroundSafe`, and the safety properties of `SchedulingGroup`, `Waitable` and
  `FiberClients`, `Descriptor` and `StreamConnection` (but for the list), and of the RPC modules.
  Nothing in these is out of reach in principle; their inductive invariants have not been worked out
  into proofs.

## Findings

* `group_lost_fiber`: the relaxed loads after a fiber was published
  (`scheduling_group.cc:499`, where a FIXME asks whether relaxed is enough) let the fiber and
  a worker that goes to sleep miss each other.
* `group_mask`: the mask of workers to be woken is computed with an off-by-one
  (`scheduling_group.cc:552`).
* `latch_destroyed`: `Latch::count_down` notifies after it has unlocked (`latch.cc:29`).
* `connection_handshake`: when a handshake succeeds in `OnWritable`, the callback goes on to flush
  (`stream_connection.cc:281`) whether or not a writer waits for it, and a writer that already sees
  the handshake done flushes as well. `FlushTo` allows one thread at a time. If nothing was appended
  the connection is closed instead, because nothing was written.
* `gate_join`: `Descriptor` wakes one of those who wait for its cleanup (`descriptor.cc:474`),
  and a gate of a shared pool may have two: the end of the program and the completion of a call.

## Limits of the models

* Memory order. `SchedulingGroup`, `Hazptr` and `OutOfDutyCallback` have store buffers, which is
  what x86 allows. The other modules are sequentially consistent: their accesses are
  acquire/release pairs, CASes or under locks.
* A group that is being stopped may keep a fiber that is published meanwhile; `NoLostFiber` is
  not claimed after `Stop`.
* A wake-up that is spent on a spinner which has found another fiber leaves the second fiber to
  whoever comes next; `NoLostFiber` does not ask that a sleeping worker take it at once.
* Batches are smaller than the ring in the run; with one as large as the ring `BatchPush` compares
  the first node of its own range (`run_queue.cc:46`) and never returns.
* A handshake that succeeds in `OnWritable` while no writer has left its mark is left out of
  `connection` (the field `eager` of a scenario) and is the subject of `connection_handshake`. What
  happens after two threads have flushed at once is not checked.
* A response that is marked as part of a stream makes the client fail a check of its own when the call is
  not a stream (`stream_call_gate.cc:492` drops the context with its arguments, which the pool of
  contexts refuses, `:53`). `Mistyped` has this, and nothing is claimed of what follows.
* Without correlation ids, a timeout that comes late may end the next call on the gate, which has the
  same key. The model has these behaviours. No property excludes them, as nothing in the code does.
* The sleep of 100 ms in `Server::Join` (a FIXME in the code) waits for nothing in `RpcServer`: a
  callback of the cleanup timer may outlast it.
  `GatePool`'s stop assumes, as the code does, that no new calls are made, and that
  exclusive gates have been given back. The number of `Gates` bounds the connections a behaviour creates.
* `Background` has no clock: a timer expires at any time after it was added. The time keeper
  computes the end of its wait before it waits and `AddTimer`'s notification does not make it
  compute it again, so a timer that is added to an empty heap may fire up to 100 s late. It is
  not lost, which is what `Settles` needs. For the same reason `TimeKeeper::Join` may take that long.
* `KillTimer` does not wait for a callback that runs, so a domain that is destroyed while its
  timer reclaims is not covered; nor is the entry cache of a thread that exits, a `Hazptr` that
  is moved, or a second thread with a job queue at the same time.
* `~DpcInitializer`, which kills the timer of the deferred calls when static objects are destroyed, is
  left out of `Background`, and so is what it does with the -1 that `AddTimer` returns once the
  time keeper was stopped.
* The copy of the out-of-duty callbacks of a thread that exits leaves the list of copies before it
  is destroyed. `DeletedIsGone`, and so the theorem `DeletedCallbacks`, does not speak of it, although the check of `use_count` in
  `DeleteThreadOutOfDutyCallback` may count it.
* 64-bit sequence numbers and ids do not wrap around in the models; `GroupSize` is at most
  31 because the code shifts an `int`.

## Not modelled

`PROJECT.json` gives the reason for each part. In short: streaming RPC; parsing,
serialisation, compression and cryptography; futures and object pools of `base`; sockets, TLS and other system calls, of which
only the results appear; stacks, contexts and assembly; start-up and configuration; name
resolution and load balancing, which happen before a call gate is chosen; metrics,
tracing and logging; the third-party libraries in `src/thirdparty`, which make up most of the
lines of the source tree. The models cover the concurrent core of Flare, a small
part of its lines.
