-------------------------------- MODULE Base --------------------------------
(***************************************************************************)
(* The concurrent part of base/ as a whole.  The domain's timer of Hazptr   *)
(* and the timer of the deferred calls are timers of the time keeper, and   *)
(* pool workers call their callbacks.  A behaviour starts in one of a few   *)
(* worlds that say which threads there are and what they do.                *)
(***************************************************************************)
EXTENDS Hazptr, OutOfDutyCallback, Background

CONSTANTS Worlds   \* see MCBase for what a world says

\* Only threads that may call callbacks or delete them do so.
ASSUME BaseAssumption == \A x \in Worlds : x.workers \subseteq Workers /\ x.deleters \subseteq Deleters

VARIABLES world

vars == <<world, storeVars, hazptrVars, dutyVars, backgroundVars>>
notBackground == <<world, storeVars, hazptrVars, dutyVars>>

Init ==
    /\ world \in Worlds
    /\ StoresInit([l \in EntryLocations \cup LockLocations |->
                       IF l \in EntryLocations THEN EntryContents[l] ELSE LockContents[l]])
    /\ HazptrInit(world.default, world.keeps, world.objects)
    /\ OutOfDutyInit
    /\ BackgroundInit(world.timers, world.pool, world.dpcs)

-----------------------------------------------------------------------------
(* The callbacks of the slow timers.                                       *)

IsCalling(w, x, l) == On(w, l) /\ job[w] = <<"timer", x>>

\* HazptrDomain's timer: ReclaimBestEffort.
CallReclaim(w) ==
    /\ w \in Reclaimers /\ IsCalling(w, "reclaim", "call") /\ ReclaimBestEffort(w)
    /\ Step(w, IF hpc'[w] = "idle" THEN "called" ELSE "call")
    /\ UNCHANGED <<world, dutyVars, timerVars, poolVars, queueVars, lifeVars, popVars, pushVars,
                   ran>>

\* DpcInitializer's timer: FlushDpcs.
CallFlush(w) ==
    /\ \/ IsCalling(w, "flush", "call") /\ StartFlush(w, "call", "called")
       \/ FlushQueue(w, "called")
    /\ UNCHANGED notBackground

-----------------------------------------------------------------------------
\* What a thread has to do once it has begun it ...
PopStep(t) ==
    \/ PopStart(t) \/ PopNext(t) \/ PopEnd(t) \/ CallDpc(t) \/ Release(t) \/ DropRef(t)
    \/ SpinAcquire(t) \/ FreeNode(t) \/ Destroyed(t)

\* TerminateBasicRuntime, once its FlushDpcs has locked the registry.
TerminateBasicRuntime ==
    FlushQueue(Main, "stop_timers") \/ StopTimeKeeper \/ StopPool \/ JoinPool \/ ClearJob

ThreadStep(t) ==
    \/ /\ \/ t \in Readers /\ ReaderStep(t)
          \/ t \in Writers /\ WriterStep(t)
       /\ UNCHANGED <<world, dutyVars, backgroundVars>>
    \/ /\ \/ t \in Workers /\ WorkerStep(t)
          \/ t \in Deleters /\ DeleteStep(t)
       /\ UNCHANGED <<world, hazptrVars, backgroundVars>>
    \/ t \in PoolWorkers /\ (CallReclaim(t) \/ CallFlush(t))
    \/ /\ \/ t \in PoolWorkers /\ (TakeJob(t) \/ FireSlow(t) \/ SlowCalled(t) \/ AcquireQueue(t))
          \/ t \in Owners /\ (AddDpcTimer(t) \/ Link(t) \/ Pushed(t))
          \/ t = Main /\ TerminateBasicRuntime
          \/ t \in Consumers /\ PopStep(t)
       /\ UNCHANGED notBackground

\* ... and what it may begin.
Begin(t) ==
    \/ /\ \/ t \in Readers /\ (GetEntryOf(t) \/ KeepAgain(t) \/ Clear(t))
          \/ t \in Writers /\ Install(t)
       /\ UNCHANGED <<world, dutyVars, backgroundVars>>
    \/ /\ \/ t \in world.workers /\ (Announce(t) \/ CreateQueue(t) \/ LeaveQueues(t))
          \/ t \in world.deleters /\ (SetThreadOutOfDutyCallback(t) \/ DeleteGlobal(t))
       /\ UNCHANGED <<world, hazptrVars, backgroundVars>>
    \/ /\ \/ /\ t \in Owners /\ world.dpcs[t] > 0
             /\ InitializeDpcOnce(t) \/ NewQueue(t) \/ AllocNode(t) \/ FreeSpareNode(t) \/ Exit(t)
          \/ t = Main /\ world.terminates /\ StartFlush(t, "run", "stop_timers")
       /\ UNCHANGED notBackground

\* The stores of a thread reach memory.
CoreStep(t) ==
    /\ Drain(t) \/ \E u \in Cores : Interrupt(t, u)
    /\ UNCHANGED <<world, hazptrVars, dutyVars, backgroundVars>>

Keeper ==
    /\ world.timers # {} \/ initialized \/ world.terminates
    /\ Loop \/ WaitEnds \/ FireFast \/ FastCalled \/ \E x \in Timers : FireTimer(x)
    /\ UNCHANGED notBackground
FiresTimer(x) == FireTimer(x) /\ UNCHANGED notBackground
Passes(x) == Expire(x) /\ UNCHANGED notBackground
Kill(x) == x \in world.killed /\ KillTimer(x) /\ UNCHANGED notBackground

Next ==
    \/ \E t \in Cores : ThreadStep(t) \/ Begin(t) \/ CoreStep(t)
    \/ Keeper
    \/ \E x \in Timers : Passes(x) \/ Kill(x)

Fairness ==
    /\ \A t \in Cores : WF_vars(CoreStep(t))
    /\ \A t \in Cores \ PoolWorkers : WF_vars(ThreadStep(t))
    /\ \A t \in PoolWorkers : SF_vars(ThreadStep(t))
    /\ WF_vars(Keeper)
    /\ \A x \in SlowTimers : WF_vars(Passes(x)) /\ SF_vars(FiresTimer(x))

Spec == Init /\ [][Next]_vars /\ Fairness

-----------------------------------------------------------------------------
(* Properties.                                                             *)

\* Memory, entries, queues and steps have their types, and buffers their bound.
TypeOK ==
    /\ \A t \in Cores : Len(buffer[t]) <= StoreBufferSize /\ ipis[t] \subseteq Cores
    /\ installed \cup destroyed \subseteq Objects /\ src \in installed \ destroyed
    /\ \A i \in DOMAIN hazptrs_ : hazptrs_[i] \in Entries
    /\ callbacks \cap deleted = {} /\ tls_queues \subseteq Workers
    /\ \A w \in Workers : local[w] \subseteq Callbacks /\ due[w] \subseteq local[w]
    /\ expired \subseteq timers_ /\ timers_ \subseteq Timers
    /\ \A o \in Owners : refs[o] \in Nat /\ head_[o] \in Nodes \cup {Nil}

\* The promise of Hazptr::Keep, under every order in which stores may reach memory: what
\* a reader keeps is not destroyed, no two readers use the same entry, and what has been
\* replaced is neither lost nor destroyed twice.
HazardPointersSafe == KeptAlive /\ EntryExclusive /\ RetiredInOnePlace

\* The promise of DeleteThreadOutOfDutyCallback: the biased mutex excludes, nobody calls
\* a callback whose deletion has returned or is about to, and no thread has it in its
\* queue any more, threads apart that exit and have yet to destroy theirs (for which
\* the FLARE_CHECK of use_count may fail).
CallbacksSafe == BiasedExclusion /\ DeletedIsGone

\* In the background nothing is used after its end, by two at once, twice or out of
\* order: job queues and the nodes of Pop, the thread pool, timers, deferred calls.
BackgroundSafe ==
    TypeOK /\ QueueAlive /\ NodeKept /\ PoolOutlivesUsers /\ OneConsumer /\ TimerInOnePlace /\ DpcsInOrder

\* Deletions of callbacks return, deferred calls run and, where the timer of the domain
\* is there, replaced objects are destroyed.  Of each there is a bounded number, so the
\* system gets where nothing of this is left to do.
Settles ==
    []<>(~Pending /\ ~Deleting /\ ("reclaim" \in world.timers => ~Unreclaimed))
=============================================================================
