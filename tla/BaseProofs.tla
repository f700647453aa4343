----------------------------- MODULE BaseProofs -----------------------------
(***************************************************************************)
(* The promises of the hazard pointers and of the out-of-duty callbacks     *)
(* hold of base/ as a whole, where both share the store buffers and the     *)
(* heavy barrier: for any threads, entries, objects and callbacks, store    *)
(* buffers of any size, and any worlds.                                     *)
(***************************************************************************)
EXTENDS Base, HazptrProofs, OutOfDutyProofs

\* What memory has, and what it holds.
Locations == EntryLocations \cup LockLocations
Values == Objects \cup {Nothing, TRUE, FALSE, 0, 1}

\* The inductive invariant.
BaseInv ==
    /\ world \in Worlds
    /\ StoresOK(Locations, Values)
    /\ HazptrInv
    /\ DutyInv

\* What a thread may do to memory: with the entries, and with the mutexes.
EntryAccess(t) ==
    \/ UNCHANGED storeVars
    \/ AsymmetricBarrierHeavy(t)
    \/ \E e \in Entries, v \in Values :
           \/ Store(t, Active(e), v) \/ Store(t, Ptr(e), v)
           \/ Exchange(t, Active(e), v)
LockAccess(t) ==
    \/ UNCHANGED storeVars
    \/ AsymmetricBarrierHeavy(t)
    \/ \E w \in Workers, i \in {0, 1}, v \in Values, x \in Values :
           \/ Store(t, Wants(w, i), v)
           \/ StoreTwo(t, Turn(w), x, Wants(w, i), v)

-----------------------------------------------------------------------------
(* The two components do not disturb each other.                           *)

\* The locations of both are locations of memory, and no entry is a mutex.
LEMMA Apart ==
    /\ HazptrMemory(Locations, Values) /\ DutyMemory(Locations, Values)
    /\ \A e, w, i : /\ Active(e) # Wants(w, i) /\ Active(e) # Turn(w)
                    /\ Ptr(e) # Wants(w, i) /\ Ptr(e) # Turn(w)
<1>1. HazptrMemory(Locations, Values)
  BY ZenonT(40) DEF HazptrMemory, Locations, Values, EntryLocations
<1>2. DutyMemory(Locations, Values)
  BY DEF DutyMemory, Locations, Values, LockLocations
<1>3. \A e, w, i : /\ Active(e)[1] = "active" /\ Ptr(e)[1] = "ptr"
                   /\ Wants(w, i)[1] = "wants_to_enter_" /\ Turn(w)[1] = "turn_"
  BY ZenonT(40) DEF Active, Ptr, Wants, Turn
<1> QED BY <1>1, <1>2, <1>3, ZenonT(40)

\* A reader's steps access memory only at entries.
LEMMA ReaderAccess ==
    ASSUME HazptrInv, NEW t \in Readers,
           ReaderStep(t) \/ GetEntryOf(t) \/ KeepAgain(t) \/ Clear(t)
    PROVE  EntryAccess(t)
<1> USE HazptrAssumption, ZenonT(40) DEF HazptrInv
<1> /\ t \in HazptrThreads /\ walk[t] \in Seq(Entries) /\ ptr[t] \in Values /\ Nothing \in Values
    /\ At(t, "get") \/ At(t, "load") \/ At(t, "idle") \/ entry_[t] \in Entries
    /\ TRUE \in Values /\ FALSE \in Values
  BY DEF HazptrThreads, HazptrTypes, HazptrSteps, WithEntry, Values, At
<1>2. CASE TryAcquire(t)
  <2>1. Head(walk[t]) \in Entries
    BY <1>2, SMT DEF TryAcquire
  <2> QED BY <1>2, <2>1 DEF TryAcquire, EntryAccess
<1>3. CASE GetEntrySlow(t)
  <2>1. PICK e \in Entries : Exchange(t, Active(e), TRUE)
    BY <1>3 DEF GetEntrySlow
  <2> QED BY <2>1 DEF EntryAccess
<1>4. CASE LoadSrc(t) \/ GetEntryOf(t) \/ KeepAgain(t)
  BY <1>4 DEF LoadSrc, GetEntryOf, KeepAgain, EntryAccess
<1>5. CASE Expose(t) \/ TryKeep(t) \/ Reset(t) \/ Clear(t)
  <2>1. entry_[t] \in Entries
    BY <1>5 DEF Expose, TryKeep, Reset, Clear, At
  <2>2. UNCHANGED storeVars \/ \E v \in Values : Store(t, Ptr(entry_[t]), v)
    BY <1>5 DEF Expose, TryKeep, Reset, Clear, ExposePtr
  <2> QED BY <2>1, <2>2 DEF EntryAccess
<1>6. CASE PutEntryOf(t)
  <2>1. entry_[t] \in Entries
    BY <1>6 DEF PutEntryOf, At
  <2>2. UNCHANGED storeVars \/ \E v \in Values : Store(t, Active(entry_[t]), v)
    BY <1>6 DEF PutEntryOf
  <2> QED BY <2>1, <2>2 DEF EntryAccess
<1> QED BY <1>2, <1>3, <1>4, <1>5, <1>6 DEF ReaderStep

\* A writer's steps and those of a reclaimer load from memory and call the heavy barrier.
LEMMA ScannerAccess ==
    ASSUME NEW t, WriterStep(t) \/ Install(t) \/ ReclaimBestEffort(t)
    PROVE  EntryAccess(t)
BY ZenonT(40) DEF WriterStep, Install, Retire, ReclaimBestEffort, Grab, StartBarrier, LoadHazptrs, ScanActive,
       ScanPtr, Reclaim, EntryAccess

\* A worker's steps access memory only at its own mutex.
LEMMA WorkerAccess ==
    ASSUME NEW w \in Workers, WorkerStep(w) \/ Announce(w) \/ CreateQueue(w) \/ LeaveQueues(w)
    PROVE  LockAccess(w)
<1> USE ZenonT(40)
<1> {TRUE, FALSE, 0, 1} \subseteq Values
  BY DEF Values
<1>2. CASE Whose(w) \/ Spin(w) \/ Announce(w)
  <2>1. UNCHANGED storeVars \/ \E v \in Values : Store(w, Wants(w, 0), v)
    BY <1>2 DEF Whose, Spin, Announce
  <2> QED BY <2>1 DEF LockAccess
<1>3. CASE BlessedUnlock(w)
  <2>1. \E v \in Values, x \in Values : StoreTwo(w, Turn(w), x, Wants(w, 0), v)
    BY <1>3 DEF BlessedUnlock
  <2> QED BY <2>1 DEF LockAccess
<1>4. CASE \/ Look(w) \/ Refresh(w) \/ Fire(w) \/ Called(w) \/ DestroyQueue(w)
           \/ CreateQueue(w) \/ LeaveQueues(w)
  BY <1>4 DEF Look, Refresh, Fire, Called, DestroyQueue, CreateQueue, LeaveQueues, LockAccess
<1> QED BY <1>2, <1>3, <1>4 DEF WorkerStep

\* A deleter's steps access memory only at the mutex of the queue that it visits.
LEMMA DeleterAccess ==
    ASSUME DutyInv, NEW d \in Deleters,
           DeleteStep(d) \/ SetThreadOutOfDutyCallback(d) \/ DeleteGlobal(d)
    PROVE  LockAccess(d)
<1> USE ZenonT(40)
<1>1. {TRUE, FALSE, 0, 1} \subseteq Values
  BY DEF Values
<1>2. CASE SlowWhose(d) \/ SlowSpin(d) \/ SlowAnnounce(d)
  <2>1. Q(d) \in Workers
    BY <1>2, AtQueue DEF SlowWhose, SlowSpin, SlowAnnounce, IsAt, Sweeping, DutyInv
  <2>2. UNCHANGED storeVars \/ \E v \in Values : Store(d, Wants(Q(d), 1), v)
    BY <1>1, <1>2 DEF SlowWhose, SlowSpin, SlowAnnounce
  <2> QED BY <1>1, <2>1, <2>2 DEF LockAccess
<1>3. CASE Erase(d)
  <2>1. Q(d) \in Workers
    BY <1>3, AtQueue DEF Erase, IsAt, Sweeping, DutyInv
  <2>2. \E v \in Values, x \in Values : StoreTwo(d, Turn(Q(d)), x, Wants(Q(d), 1), v)
    BY <1>1, <1>3 DEF Erase, SlowUnlock
  <2> QED BY <2>1, <2>2 DEF LockAccess
<1>4. CASE \/ SlowBarrier(d) \/ SlowLook(d) \/ ForEach(d) \/ Visited(d) \/ DeleteReturns(d)
           \/ SetThreadOutOfDutyCallback(d) \/ DeleteGlobal(d)
  BY <1>4 DEF SlowBarrier, SlowLook, ForEach, Visited, DeleteReturns, SetThreadOutOfDutyCallback,
              DeleteGlobal, LockAccess
<1> QED BY <1>2, <1>3, <1>4 DEF DeleteStep

\* What the hazard pointers do to memory is nothing to the callbacks.
LEMMA DutyUndisturbed ==
    ASSUME StoresOK(Locations, Values), DutyInv, NEW t \in Cores, EntryAccess(t), UNCHANGED dutyVars
    PROVE  DutyInv'
<1> USE ZenonT(40)
<1>1. CASE UNCHANGED storeVars
  BY <1>1, DutyStutter
<1>2. CASE AsymmetricBarrierHeavy(t)
  BY <1>2, DutyOtherBarrier
<1>3. ASSUME NEW e \in Entries, NEW v \in Values, NEW l \in {Active(e), Ptr(e)},
             Store(t, l, v) \/ Exchange(t, l, v)
      PROVE  DutyInv'
  <2>0. l \in Locations
    BY Apart DEF HazptrMemory
  <2>1. \A w \in Workers : l \notin {Wants(w, 0), Wants(w, 1)} /\ {Wants(w, 0), Wants(w, 1)} \subseteq Locations
    BY Apart DEF DutyMemory
  <2>2. CASE Store(t, l, v)
    <3> /\ memory' = memory /\ ipis' = ipis
        /\ \A u \in Cores : u # t => buffer'[u] = buffer[u]
        /\ \A m : Buffered(t, m)' <=> Buffered(t, m) \/ m = l
        /\ \A m : Load(t, m)' = IF m = l THEN v ELSE Load(t, m)
      <4>s. StoresOK(Locations, Values)' /\ StoreDone(t, l, v)
        BY <2>0, <2>2, StoreEffect
      <4> QED BY <4>s DEF StoreDone
    <3>2. \A u \in Cores : u # t => \A m : (Buffered(u, m)' <=> Buffered(u, m)) /\ Load(u, m)' = Load(u, m)
      BY DEF Buffered, Load
    <3>3. \A m : m # l => \A u \in Cores : (Buffered(u, m)' => Buffered(u, m)) /\ Load(u, m)' = Load(u, m)
      BY <3>2
    <3> QED BY <2>1, <3>3, DutyOtherStore
  <2>3. CASE Exchange(t, l, v)
    <3> buffer' = buffer /\ ipis' = ipis /\ memory' = [memory EXCEPT ![l] = v]
      BY <2>3 DEF Exchange
    <3>2. \A m : \A u \in Cores : Buffered(u, m)' <=> Buffered(u, m)
      BY DEF Buffered
    <3>3. \A m \in Locations : m # l => memory'[m] = memory[m]
      BY DEF StoresOK
    <3>4. \A m \in Locations : m # l => \A u \in Cores : Load(u, m)' = Load(u, m)
      BY <3>3, SMTT(30) DEF Load, Seen
    <3> QED BY <2>1, <3>2, <3>3, <3>4, DutyOtherStore
  <2> QED BY <1>3, <2>2, <2>3
<1> QED BY <1>1, <1>2, <1>3 DEF EntryAccess

\* What the callbacks do to memory is nothing to the hazard pointers.
LEMMA HazptrUndisturbed ==
    ASSUME StoresOK(Locations, Values), HazptrInv, NEW t \in Cores, LockAccess(t), UNCHANGED hazptrVars
    PROVE  HazptrInv'
<1> USE ZenonT(40)
<1>1. CASE UNCHANGED storeVars
  BY <1>1, HazptrStutter
<1>2. CASE AsymmetricBarrierHeavy(t)
  BY <1>2, HazptrOtherBarrier
<1>3. ASSUME NEW w \in Workers, NEW i \in {0, 1}, NEW v \in Values, NEW x \in Values,
             Store(t, Wants(w, i), v) \/ StoreTwo(t, Turn(w), x, Wants(w, i), v)
      PROVE  HazptrInv'
  <2> PICK l \in Locations : l = Wants(w, i)
    BY Apart DEF DutyMemory
  <2> PICK h \in Locations : h = Turn(w)
    BY Apart DEF DutyMemory
  <2>1. \A e \in Entries : \A m \in {Active(e), Ptr(e)} : m # l /\ m # h
    BY Apart
  <2>2. h # l
    BY LockFields
  <2>3. /\ memory' = memory /\ ipis' = ipis
        /\ \A u \in Cores : u # t => buffer'[u] = buffer[u]
        /\ \A m : m # l /\ m # h =>
               /\ Buffered(t, m)' <=> Buffered(t, m)
               /\ Load(t, m)' = Load(t, m)
               /\ Once(buffer[t], m) => Once(buffer'[t], m)
               /\ \A k : Followed(buffer[t], m, k) => Followed(buffer'[t], m, k)
    <3>1. CASE Store(t, l, v)
      <4>1. /\ memory' = memory /\ ipis' = ipis
            /\ \A u \in Cores : u # t => buffer'[u] = buffer[u]
            /\ \A m : Buffered(t, m)' <=> Buffered(t, m) \/ m = l
            /\ \A m : Load(t, m)' = IF m = l THEN v ELSE Load(t, m)
            /\ \A m, k : l # m /\ Followed(buffer[t], m, k) => Followed(buffer'[t], m, k)
            /\ \A m : l # m /\ Once(buffer[t], m) => Once(buffer'[t], m)
        <5>s. StoresOK(Locations, Values)' /\ StoreDone(t, l, v)
          BY <3>1, StoreEffect
        <5> QED BY <5>s DEF StoreDone
      <4> QED BY <4>1
    <3>2. CASE StoreTwo(t, h, x, l, v)
      <4>1. /\ memory' = memory /\ ipis' = ipis
            /\ \A u \in Cores : u # t => buffer'[u] = buffer[u]
            /\ \A m : Buffered(t, m)' <=> Buffered(t, m) \/ m \in {h, l}
            /\ \A m : Load(t, m)' = IF m = l THEN v ELSE IF m = h THEN x ELSE Load(t, m)
            /\ \A m, k : m \notin {h, l} /\ Followed(buffer[t], m, k) => Followed(buffer'[t], m, k)
            /\ \A m : m \notin {h, l} /\ Once(buffer[t], m) => Once(buffer'[t], m)
        <5>s. StoresOK(Locations, Values)' /\ StoreTwoDone(t, h, x, l, v)
          BY <2>2, <3>2, StoreTwoEffect
        <5> QED BY <5>s DEF StoreTwoDone
      <4> QED BY <4>1
    <3> QED BY <1>3, <3>1, <3>2
  <2> QED BY <2>1, <2>3, HazptrOtherStore
<1> QED BY <1>1, <1>2, <1>3 DEF LockAccess

-----------------------------------------------------------------------------
(* The induction.                                                          *)

\* The buffers are empty at the beginning.
LEMMA BaseBegins ==
    ASSUME Init
    PROVE  BaseInv
<1> PICK contents : StoresInit(contents) /\ DOMAIN contents = Locations
  BY DEF Init, Locations
<1>1. StoresOK(Locations, Values)
  <2>1. <<>> \in Seq(Locations \X Values)
    OBVIOUS
  <2>2. buffer \in [Cores -> Seq(Locations \X Values)]
    BY <2>1, ZenonT(40) DEF StoresInit
  <2>3. \A t \in Cores : Ranked(buffer[t])
    BY DEF StoresInit, Ranked, Stored
  <2>4. ipis \in [Cores -> SUBSET Cores] /\ DOMAIN memory = Locations
    BY ZenonT(40) DEF StoresInit
  <2> QED BY <2>2, <2>3, <2>4, ZenonT(40) DEF StoresOK
<1>2. HazptrInv
  BY HazptrBegins, ZenonT(40) DEF Init
<1>3. DutyInv
  BY DutyBegins, ZenonT(40) DEF Init
<1> QED BY <1>1, <1>2, <1>3, ZenonT(40) DEF Init, BaseInv

\* The steps of the hazard pointers, the timer's included.
LEMMA HazptrPart ==
    ASSUME BaseInv, NEW t \in Cores, UNCHANGED <<world, dutyVars>>,
           \/ t \in Readers /\ (ReaderStep(t) \/ GetEntryOf(t) \/ KeepAgain(t) \/ Clear(t))
           \/ t \in Writers /\ (WriterStep(t) \/ Install(t))
           \/ t \in Reclaimers /\ ReclaimBestEffort(t)
    PROVE  BaseInv'
<1> USE Apart, ZenonT(40) DEF BaseInv
<1>1. EntryAccess(t)
  BY ReaderAccess, ScannerAccess
<1>2. DutyInv'
  BY <1>1, DutyUndisturbed
<1>3. StoresOK(Locations, Values)' /\ HazptrInv'
  BY ReaderMoves, WriterMoves, ReclaimMoves DEF Scanners
<1> QED BY <1>2, <1>3

\* The steps of the callbacks.
LEMMA DutyPart ==
    ASSUME BaseInv, NEW t \in Cores, UNCHANGED <<world, hazptrVars>>,
           \/ t \in Workers /\ (WorkerStep(t) \/ Announce(t) \/ CreateQueue(t) \/ LeaveQueues(t))
           \/ t \in Deleters /\ (DeleteStep(t) \/ SetThreadOutOfDutyCallback(t) \/ DeleteGlobal(t))
    PROVE  BaseInv'
<1> USE Apart, ZenonT(40) DEF BaseInv
<1>1. LockAccess(t)
  BY WorkerAccess, DeleterAccess
<1>2. HazptrInv'
  BY <1>1, HazptrUndisturbed
<1>3. StoresOK(Locations, Values)' /\ DutyInv'
  BY WorkerMoves, DeleterMoves
<1> QED BY <1>2, <1>3

\* Stores reach memory.
LEMMA CorePart ==
    ASSUME BaseInv, NEW t \in Cores, CoreStep(t)
    PROVE  BaseInv'
<1> USE Apart, ZenonT(40) DEF BaseInv
<1>0. UNCHANGED <<world, hazptrVars, dutyVars>>
  BY DEF CoreStep
<1>1. CASE Drain(t)
  BY <1>0, <1>1, DrainEffect, HazptrDrain, DutyDrain
<1>2. ASSUME NEW u \in Cores, Interrupt(t, u)
      PROVE  BaseInv'
  BY <1>0, <1>2, InterruptEffect, HazptrInterrupt, DutyInterrupt
<1> QED BY <1>1, <1>2 DEF CoreStep

\* The rest of the background touches none of it.
LEMMA BackgroundPart ==
    ASSUME BaseInv, UNCHANGED notBackground
    PROVE  BaseInv'
<1> USE DEF BaseInv, notBackground
<1>1. HazptrInv' /\ DutyInv'
  BY HazptrStutter, DutyStutter, ZenonT(40)
<1>2. StoresOK(Locations, Values)'
  BY ZenonT(40) DEF StoresOK, storeVars
<1> QED BY <1>1, <1>2, ZenonT(40)

\* Every step of base/ keeps the invariant.
LEMMA BaseStep ==
    ASSUME BaseInv, [Next]_vars
    PROVE  BaseInv'
<1> USE ZenonT(40)
<1>1. ASSUME NEW t \in Cores, ThreadStep(t)
      PROVE  BaseInv'
  <2>1. CASE CallReclaim(t)
    BY <2>1, HazptrPart DEF CallReclaim
  <2>2. CASE CallFlush(t)
    BY <2>2, BackgroundPart DEF CallFlush
  <2>3. CASE UNCHANGED notBackground
    BY <2>3, BackgroundPart
  <2>4. CASE /\ \/ t \in Readers /\ ReaderStep(t)
                \/ t \in Writers /\ WriterStep(t)
             /\ UNCHANGED <<world, dutyVars>>
    BY <2>4, HazptrPart
  <2>5. CASE /\ \/ t \in Workers /\ WorkerStep(t)
                \/ t \in Deleters /\ DeleteStep(t)
             /\ UNCHANGED <<world, hazptrVars>>
    BY <2>5, DutyPart
  <2> QED BY <1>1, <2>1, <2>2, <2>3, <2>4, <2>5 DEF ThreadStep
<1>2. ASSUME NEW t \in Cores, Begin(t)
      PROVE  BaseInv'
  <2>1. world.workers \subseteq Workers /\ world.deleters \subseteq Deleters
    BY BaseAssumption DEF BaseInv
  <2>2. CASE UNCHANGED notBackground
    BY <2>2, BackgroundPart
  <2>3. CASE /\ \/ t \in Readers /\ (GetEntryOf(t) \/ KeepAgain(t) \/ Clear(t))
                \/ t \in Writers /\ Install(t)
             /\ UNCHANGED <<world, dutyVars>>
    BY <2>3, HazptrPart
  <2>4. CASE /\ \/ t \in world.workers /\ (Announce(t) \/ CreateQueue(t) \/ LeaveQueues(t))
                \/ t \in world.deleters /\ (SetThreadOutOfDutyCallback(t) \/ DeleteGlobal(t))
             /\ UNCHANGED <<world, hazptrVars>>
    BY <2>1, <2>4, DutyPart
  <2> QED BY <1>2, <2>2, <2>3, <2>4 DEF Begin
<1>3. ASSUME NEW t \in Cores, CoreStep(t)
      PROVE  BaseInv'
  BY <1>3, CorePart
<1>4. CASE Keeper \/ \E x \in Timers : Passes(x) \/ Kill(x)
  BY <1>4, BackgroundPart DEF Keeper, Passes, Kill
<1>5. CASE UNCHANGED vars
  BY <1>5, BackgroundPart DEF vars, notBackground
<1> QED BY <1>1, <1>2, <1>3, <1>4, <1>5 DEF Next

\* In every behaviour the invariant holds.
LEMMA BaseInvariant == Spec => []BaseInv
<1>1. Init => BaseInv
  BY BaseBegins, ZenonT(40)
<1>2. BaseInv /\ [Next]_vars => BaseInv'
  BY BaseStep, ZenonT(40)
<1> QED BY <1>1, <1>2, PTL DEF Spec

\* Hazptr::Keep and HazptrDomain::ReclaimBestEffort: whatever the interleaving and the
\* order in which stores reach memory, what a reader keeps is not destroyed, an entry has
\* one user, and an object that has been replaced is in exactly one place.
THEOREM HazardPointers == Spec => []HazardPointersSafe
<1>1. BaseInv => HazardPointersSafe
  BY ZenonT(40) DEF BaseInv, HazptrInv, HazardPointersSafe, Ownership
<1> QED BY <1>1, BaseInvariant, PTL

\* DeleteThreadOutOfDutyCallback over the biased mutex: worker and deleter are never at
\* the same queue at once, nobody calls a callback whose deletion has returned, and only a
\* thread that exits may still have it in its queue.
THEOREM DeletedCallbacks == Spec => []CallbacksSafe
<1>1. BaseInv => CallbacksSafe
  BY DutySafe, ZenonT(40) DEF BaseInv, CallbacksSafe
<1> QED BY <1>1, BaseInvariant, PTL
=============================================================================
