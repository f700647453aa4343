--------------------------- MODULE MCFiberClients ---------------------------
(* Small instances of FiberClients. *)
EXTENDS FiberClients, TLC

CONSTANTS a, b, c,                      \* fibers
          latch, sem, sem2, barrier, join, queue, event,
          rw, writer_lock, fast

CallN(op, o, n) == [op |-> op, obj |-> o, n |-> n, destroy |-> FALSE]
Call(op, o) == CallN(op, o, 1)
Last(op, o) == [Call(op, o) EXCEPT !.destroy = TRUE]

Run(pa, pb, pd) == (a :> pa) @@ (b :> pb) @@ (c :> pd)

InitialValues ==
    (latch :> 1) @@ (sem :> 0) @@ (sem2 :> 0) @@ (barrier :> 3) @@ (join :> 1)
      @@ (queue :> 0) @@ (event :> 0) @@ (rw :> 0) @@ (writer_lock :> 0) @@ (fast :> 0)

WriterLocks == rw :> writer_lock

AllPrograms ==
    { \* a latch, waited for with and without a timeout
      Run(<<Call("count_down", latch)>>, <<Call("latch_try_wait", latch), Call("latch_wait", latch)>>,
          <<Call("latch_wait_for", latch)>>),
      \* permits for a waiter and for one that may time out
      Run(<<CallN("release", sem, 2)>>, <<Call("acquire", sem)>>,
          <<Call("try_acquire_for", sem)>>),
      \* three fibers compete for one mutex
      Run(<<Call("release", sem)>>, <<Call("release", sem)>>,
          <<Call("acquire", sem), Call("acquire", sem)>>),
      \* three permits at once for two waiters and whoever comes
      Run(<<CallN("release", sem, 3), Call("try_acquire", sem)>>,
          <<Call("acquire", sem)>>, <<Call("acquire", sem)>>),
      \* a second wait while the callback of the first one may be late
      Run(<<Call("release", sem), Call("release", sem2)>>, <<>>,
          <<Call("try_acquire_for", sem), Call("acquire", sem2)>>),
      \* the semaphore is destroyed by the one who acquired it
      Run(<<Call("release", sem)>>, <<Last("acquire", sem)>>, <<>>),
      \* two phases of a barrier, and a fiber that leaves after the first
      Run(<<Call("arrive", barrier), Call("phase_wait", barrier),
            Call("arrive", barrier), Call("phase_wait", barrier)>>,
          <<Call("arrive", barrier), Call("phase_wait", barrier), Call("arrive", barrier)>>,
          <<Call("arrive_and_drop", barrier)>>),
      \* a fiber that arrives for two
      Run(<<CallN("arrive", barrier, 2), Call("phase_wait", barrier)>>,
          <<Call("arrive", barrier), Call("phase_wait", barrier)>>, <<>>),
      \* two fibers join a third
      Run(<<Call("exit", join)>>, <<Call("join", join)>>, <<Call("join", join)>>),
      \* a work queue that is stopped and joined
      Run(<<Call("push", queue), Call("push", queue), Call("stop", queue), Call("join", join)>>,
          <<Call("work", queue), Call("exit", join)>>, <<>>),
      \* BlockingGet: the event lives on the stack of the waiter
      Run(<<Call("event_set", event)>>, <<Last("event_wait", event)>>, <<>>),
      \* BlockingTryGet: the event is set by the continuation and by its timer
      Run(<<Call("timed_set", event)>>, <<Call("event_wait", event)>>,
          <<Call("timed_set", event)>>),
      Run(<<Call("event_set", event)>>, <<Call("event_wait", event)>>,
          <<Call("event_wait", event)>>),
      \* two writers; c comes back as a reader and may take the grant that was meant for a, while
      \* b waits to write
      Run(<<Call("lock_shared", rw), Call("unlock_shared", rw)>>,
          <<Call("rw_lock", rw), Call("rw_unlock", rw)>>,
          <<Call("rw_lock", rw), Call("rw_unlock", rw),
            Call("lock_shared", rw), Call("unlock_shared", rw)>>),
      \* attempts that fail when somebody is in their way
      Run(<<Call("try_lock_shared", rw), Call("unlock_shared", rw)>>,
          <<Call("rw_try_lock", rw), Call("rw_unlock", rw)>>,
          <<Call("rw_lock", rw), Call("rw_unlock", rw)>>),
      \* a fast latch, which lives on the stack of the fiber that serves a call
      Run(<<Call("fast_count_down", fast)>>, <<Last("fast_wait", fast)>>, <<>>) }

\* The latch of latch_test.cc: it is destroyed by the fiber that waited for it.
TortureProgram ==
    {Run(<<Call("count_down", latch)>>, <<Last("latch_wait", latch)>>, <<>>)}
=============================================================================
