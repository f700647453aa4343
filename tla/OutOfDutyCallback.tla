------------------------- MODULE OutOfDutyCallback -------------------------
(***************************************************************************)
(* Thread out-of-duty callbacks (base/thread/out_of_duty_callback.cc) over  *)
(* the biased mutex (base/internal/biased_mutex.h).  A fiber or timer       *)
(* worker with nothing to do calls NotifyThreadOutOfDutyCallbacks, which    *)
(* calls the callbacks of the thread's own copy of the global list that are *)
(* due.  Whoever deletes a callback sweeps all copies.                      *)
(*                                                                         *)
(* A biased mutex is Dekker's: side 0 is the owner of the copy and has no   *)
(* barrier in its fast path, side 1 is the deleter.  Its fields are in      *)
(* memory behind the store buffers.  slow_lock_lock_ is left out: the lock  *)
(* of tls_queues, held during the sweep, is stronger.                       *)
(***************************************************************************)
EXTENDS StoreBuffers, FiniteSets

CONSTANTS Workers,    \* the threads that call NotifyThreadOutOfDutyCallbacks
          Deleters,   \* the threads that set and delete callbacks
          Callbacks

None == "none"

ASSUME OutOfDutyAssumption ==
    /\ Workers \cup Deleters \subseteq Cores /\ Workers \cap Deleters = {}
    /\ "free" \notin Deleters /\ None \notin Callbacks

VARIABLES
    callbacks,   \* GlobalQueue::callbacks
    version,     \* GlobalQueue::version
    tls_queues,  \* the workers that have a ThreadLocalQueue
    local,       \* ThreadLocalQueue::callbacks
    tls_version, \* ThreadLocalQueue::version
    init_lock_,  \* the deleter that holds the lock of tls_queues, or "free"
    opc,         \* the step each thread is at
    due,         \* the callbacks that a worker has yet to call
    calling,     \* the callback it is calling, taken out of its queue
    handle,      \* the callback a deleter deletes
    sweep,       \* the queues it has yet to visit
    deleted      \* the callbacks whose deletion has returned

dutyVars == <<callbacks, version, tls_queues, local, tls_version, init_lock_, opc, due, calling,
              handle, sweep, deleted>>
globalVars == <<callbacks, version, deleted>>
tlsVars == <<tls_queues, local, tls_version>>
workerVars == <<due, calling>>
deleterVars == <<init_lock_, handle, sweep>>

IsAt(t, l) == opc[t] = l
Goto(t, l) == opc' = [opc EXCEPT ![t] = l]

Wants(w, side) == <<"wants_to_enter_", <<w, side>> >>
Turn(w) == <<"turn_", w>>
LockLocations == {Wants(w, i) : w \in Workers, i \in {0, 1}} \cup {Turn(w) : w \in Workers}
LockContents == [l \in LockLocations |-> IF l[1] = "turn_" THEN 0 ELSE FALSE]

OutOfDutyInit ==
    /\ callbacks = {} /\ version = 1 /\ deleted = {}
    /\ tls_queues = {} /\ init_lock_ = "free"
    /\ local = [w \in Workers |-> {}] /\ tls_version = [w \in Workers |-> 0]
    /\ opc = [t \in Workers \cup Deleters |-> "idle"]
    /\ due = [w \in Workers |-> {}] /\ calling = [w \in Workers |-> None]
    /\ handle = [d \in Deleters |-> None] /\ sweep = [d \in Deleters |-> {}]

-----------------------------------------------------------------------------
(* The blessed side, and what it protects.                                 *)

\* BlessedSide::lock announces itself.
Announce(w) ==
    /\ IsAt(w, "idle") /\ w \in tls_queues
    /\ Store(w, Wants(w, 0), TRUE)
    /\ Goto(w, "look")
    /\ UNCHANGED <<globalVars, tlsVars, workerVars, deleterVars>>

\* tls_queues.Get for the first time in this thread.
CreateQueue(w) ==
    /\ IsAt(w, "idle") /\ w \notin tls_queues /\ init_lock_ = "free" /\ Drained(w)
    /\ tls_queues' = tls_queues \cup {w}
    /\ UNCHANGED <<storeVars, globalVars, local, tls_version, workerVars, deleterVars, opc>>

\* It looks for the slow side, in lock and in every round of LockSlow.
Look(w) ==
    /\ IsAt(w, "look")
    /\ Goto(w, IF Load(w, Wants(w, 1)) THEN "whose" ELSE "locked")
    /\ UNCHANGED <<storeVars, globalVars, tlsVars, workerVars, deleterVars>>

\* Mutant: it insists.
WhoseStubborn(w) ==
    /\ IsAt(w, "whose")
    /\ Goto(w, "look")
    /\ UNCHANGED <<storeVars, globalVars, tlsVars, workerVars, deleterVars>>

\* It gives way if it is not its turn.
Whose(w) ==
    /\ IsAt(w, "whose")
    /\ IF Load(w, Turn(w)) # 0
       THEN Store(w, Wants(w, 0), FALSE) /\ Goto(w, "spin")
       ELSE UNCHANGED storeVars /\ Goto(w, "look")
    /\ UNCHANGED <<globalVars, tlsVars, workerVars, deleterVars>>

Spin(w) ==
    /\ IsAt(w, "spin") /\ Load(w, Turn(w)) = 0
    /\ Store(w, Wants(w, 0), TRUE)
    /\ Goto(w, "look")
    /\ UNCHANGED <<globalVars, tlsVars, workerVars, deleterVars>>

\* NotifyThreadOutOfDutyCallbacks brings its copy up to date (the copy is made
\* under the global lock) and finds out which callbacks are due.
Refresh(w) ==
    /\ IsAt(w, "locked")
    /\ \/ tls_version[w] = version /\ UNCHANGED <<storeVars, local, tls_version>>
       \/ /\ tls_version[w] # version /\ Drained(w) /\ UNCHANGED storeVars
          /\ local' = [local EXCEPT ![w] = callbacks]
          /\ tls_version' = [tls_version EXCEPT ![w] = version]
    /\ \E d \in SUBSET local'[w] : due' = [due EXCEPT ![w] = d]
    /\ Goto(w, "fire")
    /\ UNCHANGED <<globalVars, tls_queues, calling, deleterVars>>

\* It takes one out and calls it.
Fire(w) ==
    /\ IsAt(w, "fire")
    /\ \E c \in due[w] :
           /\ due' = [due EXCEPT ![w] = @ \ {c}]
           /\ local' = [local EXCEPT ![w] = @ \ {c}]
           /\ calling' = [calling EXCEPT ![w] = c]
    /\ Goto(w, "call")
    /\ UNCHANGED <<storeVars, globalVars, tls_queues, tls_version, deleterVars>>

\* The call returns, and the callback goes back with its next time.
Called(w) ==
    /\ IsAt(w, "call")
    /\ local' = [local EXCEPT ![w] = @ \cup {calling[w]}]
    /\ calling' = [calling EXCEPT ![w] = None]
    /\ Goto(w, "fire")
    /\ UNCHANGED <<storeVars, globalVars, tls_queues, tls_version, due, deleterVars>>

\* BlessedSide::unlock.
BlessedUnlock(w) ==
    /\ IsAt(w, "fire") /\ due[w] = {}
    /\ StoreTwo(w, Turn(w), 1, Wants(w, 0), FALSE)
    /\ Goto(w, "idle")
    /\ UNCHANGED <<globalVars, tlsVars, workerVars, deleterVars>>

\* The thread exits: its queue leaves the list of all queues, and is destroyed then.
LeaveQueues(w) ==
    /\ IsAt(w, "idle") /\ w \in tls_queues /\ init_lock_ = "free" /\ Drained(w)
    /\ tls_queues' = tls_queues \ {w}
    /\ Goto(w, "exit")
    /\ UNCHANGED <<storeVars, globalVars, local, tls_version, workerVars, deleterVars>>

DestroyQueue(w) ==
    /\ IsAt(w, "exit")
    /\ local' = [local EXCEPT ![w] = {}]
    /\ Goto(w, "left")
    /\ UNCHANGED <<storeVars, globalVars, tls_queues, tls_version, workerVars, deleterVars>>

-----------------------------------------------------------------------------
(* Setting and deleting.                                                   *)

SetThreadOutOfDutyCallback(d) ==
    /\ IsAt(d, "idle") /\ handle[d] = None /\ Drained(d)
    /\ \E c \in Callbacks \ (callbacks \cup deleted) :
           /\ \A e \in Deleters : handle[e] # c
           /\ callbacks' = callbacks \cup {c}
           /\ handle' = [handle EXCEPT ![d] = c]
    /\ version' = version + 1
    /\ UNCHANGED <<storeVars, tlsVars, workerVars, init_lock_, sweep, deleted, opc>>

\* DeleteThreadOutOfDutyCallback: the global list.
DeleteGlobal(d) ==
    /\ IsAt(d, "idle") /\ handle[d] # None /\ Drained(d)
    /\ callbacks' = callbacks \ {handle[d]}
    /\ version' = version + 1
    /\ Goto(d, "foreach")
    /\ UNCHANGED <<storeVars, tlsVars, workerVars, deleterVars, deleted>>

\* ForEach locks the list of the threads' queues.
ForEach(d) ==
    /\ IsAt(d, "foreach") /\ init_lock_ = "free" /\ Drained(d)
    /\ init_lock_' = d
    /\ sweep' = [sweep EXCEPT ![d] = tls_queues]
    /\ Goto(d, "next")
    /\ UNCHANGED <<storeVars, globalVars, tlsVars, workerVars, handle>>

Q(d) == CHOOSE w \in sweep[d] : TRUE

\* ReallySlowSide::lock announces itself.
SlowAnnounce(d) ==
    /\ IsAt(d, "next") /\ sweep[d] # {}
    /\ Store(d, Wants(Q(d), 1), TRUE)
    /\ Goto(d, "barrier")
    /\ UNCHANGED <<globalVars, tlsVars, workerVars, deleterVars>>

SlowBarrier(d) ==
    /\ IsAt(d, "barrier")
    /\ AsymmetricBarrierHeavy(d)
    /\ Goto(d, "look")
    /\ UNCHANGED <<globalVars, tlsVars, workerVars, deleterVars>>

SlowLook(d) ==
    /\ IsAt(d, "look") /\ BarrierDone(d)
    /\ Goto(d, IF Load(d, Wants(Q(d), 0)) THEN "whose" ELSE "locked")
    /\ UNCHANGED <<storeVars, globalVars, tlsVars, workerVars, deleterVars>>

SlowWhose(d) ==
    /\ IsAt(d, "whose")
    /\ IF Load(d, Turn(Q(d))) # 1
       THEN Store(d, Wants(Q(d), 1), FALSE) /\ Goto(d, "spin")
       ELSE UNCHANGED storeVars /\ Goto(d, "look")
    /\ UNCHANGED <<globalVars, tlsVars, workerVars, deleterVars>>

SlowSpin(d) ==
    /\ IsAt(d, "spin") /\ Load(d, Turn(Q(d))) = 1
    /\ Store(d, Wants(Q(d), 1), TRUE)
    /\ Goto(d, "barrier")
    /\ UNCHANGED <<globalVars, tlsVars, workerVars, deleterVars>>

\* ReallySlowSide::unlock, up to slow_lock_lock_.
SlowUnlock(d) == StoreTwo(d, Turn(Q(d)), 0, Wants(Q(d), 1), FALSE)

\* EraseIf, and the unlock.
Erase(d) ==
    /\ IsAt(d, "locked")
    /\ local' = [local EXCEPT ![Q(d)] = @ \ {handle[d]}]
    /\ SlowUnlock(d)
    /\ Goto(d, "unlock")
    /\ UNCHANGED <<globalVars, tls_queues, tls_version, workerVars, deleterVars>>

\* The unlock of slow_lock_lock_, and on to the next queue.
Visited(d) ==
    /\ IsAt(d, "unlock") /\ Drained(d)
    /\ sweep' = [sweep EXCEPT ![d] = @ \ {Q(d)}]
    /\ Goto(d, "next")
    /\ UNCHANGED <<storeVars, globalVars, tlsVars, workerVars, init_lock_, handle>>

\* The check of use_count, and the return.
DeleteReturns(d) ==
    /\ IsAt(d, "next") /\ sweep[d] = {} /\ Drained(d)
    /\ init_lock_' = "free"
    /\ deleted' = deleted \cup {handle[d]}
    /\ handle' = [handle EXCEPT ![d] = None]
    /\ Goto(d, "idle")
    /\ UNCHANGED <<storeVars, callbacks, version, tlsVars, workerVars, sweep>>

WorkerStep(w) ==
    \/ Look(w) \/ Whose(w) \/ Spin(w) \/ Refresh(w) \/ Fire(w) \/ Called(w) \/ BlessedUnlock(w)
    \/ DestroyQueue(w)
DeleteStep(d) ==
    \/ ForEach(d) \/ SlowAnnounce(d) \/ SlowBarrier(d) \/ SlowLook(d) \/ SlowWhose(d)
    \/ SlowSpin(d) \/ Erase(d) \/ Visited(d) \/ DeleteReturns(d)

-----------------------------------------------------------------------------
(* Properties.                                                             *)

\* The biased mutex: a worker that works on its copy is not there together with a
\* deleter.
BiasedExclusion ==
    \A w \in Workers, d \in Deleters :
        opc[w] \in {"locked", "fire", "call"} => ~(IsAt(d, "locked") /\ w = Q(d))

\* When a deletion is about to return, or has returned, no worker is calling the
\* callback, and none but one that exits has it in its copy.  That is less than
\* FLARE_CHECK(ptr.use_count() == 1) asks for: the copy of a thread that exits leaves
\* the list before it is destroyed, and the check fails if the sweep ends in between.
DeletedIsGone ==
    LET gone == deleted \cup {handle[d] : d \in {e \in Deleters : IsAt(e, "next") /\ sweep[e] = {}}}
    IN  \A w \in Workers :
            /\ calling[w] \notin gone
            /\ w \in tls_queues => gone \cap (local[w] \cup due[w]) = {}

\* A deletion is under way.
Deleting == \E d \in Deleters : handle[d] # None /\ ~IsAt(d, "idle")
=============================================================================
