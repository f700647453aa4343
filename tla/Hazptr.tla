------------------------------- MODULE Hazptr -------------------------------
(***************************************************************************)
(* Hazard pointers (base/hazptr).  Readers construct a `Hazptr`, which has  *)
(* an entry of the domain's list, Keep what a shared pointer points to, and *)
(* use it.  Writers install another object and retire the old one, and both *)
(* they and the domain's timer destroy the retired objects that no entry    *)
(* points to.                                                               *)
(*                                                                         *)
(* A step is one access to shared memory; that of an entry's fields goes    *)
(* through the store buffers, because Keep has no barrier of its own.  The  *)
(* loops around compare_exchange_weak are one step each: an attempt that    *)
(* fails changes nothing.  Entries are never freed.                         *)
(***************************************************************************)
EXTENDS StoreBuffers, FiniteSets

CONSTANTS Readers, Writers,
          Reclaimers,       \* the threads that run the domain's timer callback
          Objects,          \* the objects that are installed one after another
          Entries,          \* names for hazptr::Entry, as many as may be needed
          kEntryCacheSize,
          Nothing           \* nullptr

ASSUME HazptrAssumption ==
    /\ Nothing \notin Objects \cup Entries /\ Objects # {}
    /\ Readers \cup Writers \cup Reclaimers \subseteq Cores
    /\ Readers \cap (Writers \cup Reclaimers) = {} /\ Writers \cap Reclaimers = {}
    /\ kEntryCacheSize \in Nat

VARIABLES
    from_,      \* whether the domain is the default one, for which threads have caches
    src,        \* the shared pointer
    installed,  \* the objects that are or were what it points to
    installs,   \* the objects that are still to be installed
    destroyed,  \* objects that have been destroyed
    hazptrs_,   \* HazptrDomain::hazptrs_, the last entry first
    retired_,   \* HazptrDomain::retired_, whose order makes no difference
    hpc,        \* the step each thread is at
    entry_,     \* the entry of the reader's Hazptr
    walk,       \* the entries that a thread has yet to visit
    ptr,        \* the pointer a reader is to keep, or keeps; the one a writer retires
    cache,      \* the reader's EntryCache
    keeps,      \* the calls of Keep the reader has left
    current,    \* the retired objects that a thread has grabbed
    kept        \* the result of GetKeptPointers so far

hazptrVars == <<from_, src, installed, installs, destroyed, hazptrs_, retired_, hpc, entry_, walk, ptr, cache,
                keeps, current, kept>>
listVars == <<hazptrs_, retired_>>
objectVars == <<from_, src, installed, installs, destroyed>>
readerVars == <<entry_, walk, ptr, cache, keeps>>
reclaimVars == <<current, kept>>

Scanners == Writers \cup Reclaimers
HazptrThreads == Readers \cup Scanners
At(t, l) == hpc[t] = l
To(t, l) == hpc' = [hpc EXCEPT ![t] = l]

Active(e) == <<"active", e>>
Ptr(e) == <<"ptr", e>>
EntryLocations == {Active(e) : e \in Entries} \cup {Ptr(e) : e \in Entries}
EntryContents == [l \in EntryLocations |-> IF l[1] = "active" THEN FALSE ELSE Nothing]

\* An object that is not installed yet.  Objects differ in nothing but their names.
Fresh(o) == CHOOSE x \in Objects : x \notin o

\* bounds: the calls of Keep by each reader, and the objects that are installed
HazptrInit(default, keepCalls, objects) ==
    /\ from_ = default
    /\ src = Fresh({}) /\ installed = {src} /\ installs = objects
    /\ destroyed = {} /\ hazptrs_ = <<>> /\ retired_ = {}
    /\ hpc = [t \in HazptrThreads |-> "idle"]
    /\ entry_ = [t \in Readers |-> Nothing]
    /\ walk = [t \in HazptrThreads |-> <<>>]
    /\ ptr = [t \in Readers \cup Writers |-> Nothing]
    /\ cache = [t \in Readers |-> {}]
    /\ keeps = keepCalls
    /\ current = [t \in Scanners |-> {}]
    /\ kept = [t \in Scanners |-> {}]

-----------------------------------------------------------------------------
(* Readers.                                                                *)

\* The constructor: EntryCache::Get, and HazptrDomain::GetEntry loads the list.
GetEntryOf(t) ==
    /\ At(t, "idle") /\ keeps[t] > 0
    /\ \/ \E e \in cache[t] :
              /\ entry_' = [entry_ EXCEPT ![t] = e]
              /\ cache' = [cache EXCEPT ![t] = @ \ {e}]
              /\ To(t, "load") /\ UNCHANGED walk
       \/ /\ cache[t] = {}
          /\ walk' = [walk EXCEPT ![t] = hazptrs_]
          /\ To(t, "get") /\ UNCHANGED <<entry_, cache>>
    /\ UNCHANGED <<storeVars, objectVars, listVars, ptr, keeps, reclaimVars>>

Got(t, e) ==
    /\ entry_' = [entry_ EXCEPT ![t] = e]
    /\ walk' = [walk EXCEPT ![t] = <<>>]
    /\ To(t, "load")

\* The load of `active`, and the exchange if it may succeed.
TryAcquire(t) ==
    /\ At(t, "get") /\ walk[t] # <<>>
    /\ LET e == Head(walk[t])
       IN  IF Load(t, Active(e))
           THEN /\ walk' = [walk EXCEPT ![t] = Tail(@)]
                /\ UNCHANGED <<storeVars, hpc, entry_>>
           ELSE Exchange(t, Active(e), TRUE) /\ Got(t, e)
    /\ UNCHANGED <<objectVars, listVars, ptr, cache, keeps, reclaimVars>>

\* The entries of a list.
EntriesOf(list) == {list[i] : i \in DOMAIN list}

GetEntrySlow(t) ==
    /\ At(t, "get") /\ walk[t] = <<>>
    /\ Entries \ EntriesOf(hazptrs_) # {}
    /\ LET e == CHOOSE x \in Entries : x \notin EntriesOf(hazptrs_)
       IN  /\ Exchange(t, Active(e), TRUE)
           /\ hazptrs_' = <<e>> \o hazptrs_
           /\ Got(t, e)
    /\ UNCHANGED <<objectVars, retired_, ptr, cache, keeps, reclaimVars>>

\* Keep loads the pointer.
LoadSrc(t) ==
    /\ At(t, "load")
    /\ ptr' = [ptr EXCEPT ![t] = src]
    /\ keeps' = [keeps EXCEPT ![t] = @ - 1]
    /\ To(t, "expose")
    /\ UNCHANGED <<storeVars, objectVars, listVars, entry_, walk, cache, reclaimVars>>

ExposePtr(t, p) == Store(t, Ptr(entry_[t]), p)

Expose(t) ==
    /\ At(t, "expose")
    /\ ExposePtr(t, ptr[t])
    /\ To(t, "check")
    /\ UNCHANGED <<objectVars, listVars, readerVars, reclaimVars>>

\* Mutant: the pointer is not loaded again.
TryKeepUnchecked(t) ==
    /\ At(t, "check")
    /\ To(t, "use")
    /\ UNCHANGED <<storeVars, objectVars, listVars, readerVars, reclaimVars>>

\* TryKeep loads it again.
TryKeep(t) ==
    /\ At(t, "check")
    /\ IF src = ptr[t]
       THEN To(t, "use") /\ UNCHANGED <<storeVars, ptr>>
       ELSE /\ ptr' = [ptr EXCEPT ![t] = src]
            /\ ExposePtr(t, Nothing)
            /\ To(t, "expose")
    /\ UNCHANGED <<objectVars, listVars, entry_, walk, cache, keeps, reclaimVars>>

\* Keep is called again: what was kept stays so until then.
KeepAgain(t) ==
    /\ At(t, "use") /\ keeps[t] > 0
    /\ To(t, "load")
    /\ UNCHANGED <<storeVars, objectVars, listVars, readerVars, reclaimVars>>

\* The same after clear().
Clear(t) ==
    /\ At(t, "use") /\ keeps[t] > 0
    /\ ExposePtr(t, Nothing)
    /\ To(t, "load")
    /\ UNCHANGED <<objectVars, listVars, readerVars, reclaimVars>>

\* The destructor.
Reset(t) ==
    /\ At(t, "use")
    /\ ExposePtr(t, Nothing)
    /\ ptr' = [ptr EXCEPT ![t] = Nothing]
    /\ To(t, "put")
    /\ UNCHANGED <<objectVars, listVars, entry_, walk, cache, keeps, reclaimVars>>

PutEntryOf(t) ==
    /\ At(t, "put")
    /\ IF from_ /\ Cardinality(cache[t]) < kEntryCacheSize
       THEN cache' = [cache EXCEPT ![t] = @ \cup {entry_[t]}] /\ UNCHANGED storeVars
       ELSE Store(t, Active(entry_[t]), FALSE) /\ UNCHANGED cache
    /\ entry_' = [entry_ EXCEPT ![t] = Nothing]
    /\ To(t, "idle")
    /\ UNCHANGED <<objectVars, listVars, walk, ptr, keeps, reclaimVars>>

-----------------------------------------------------------------------------
(* Writers, and the reclamation.                                           *)

\* The writer installs a new object.
Install(t) ==
    /\ At(t, "idle") /\ installs > 0 /\ Objects \ installed # {} /\ Drained(t)
    /\ src' = Fresh(installed)
    /\ installed' = installed \cup {src'} /\ installs' = installs - 1
    /\ ptr' = [ptr EXCEPT ![t] = src]
    /\ To(t, "retire")
    /\ UNCHANGED <<storeVars, from_, destroyed, listVars, entry_, walk, cache, keeps, reclaimVars>>

PushRetired(o) == retired_' = retired_ \cup {o}

\* Retire: PushRetired, and on to ReclaimBestEffort.
Retire(t) ==
    /\ At(t, "retire") /\ Drained(t)
    /\ PushRetired(ptr[t])
    /\ ptr' = [ptr EXCEPT ![t] = Nothing]
    /\ To(t, "grab")
    /\ UNCHANGED <<storeVars, objectVars, hazptrs_, entry_, walk, cache, keeps, reclaimVars>>

\* ReclaimBestEffort, called by Retire or by the timer of the domain.
Grab(t) ==
    /\ At(t, IF t \in Reclaimers THEN "idle" ELSE "grab") /\ Drained(t)
    /\ current' = [current EXCEPT ![t] = retired_]
    /\ retired_' = {}
    /\ To(t, IF retired_ = {} THEN "idle" ELSE "barrier")
    /\ UNCHANGED <<storeVars, objectVars, hazptrs_, readerVars, kept>>

\* GetKeptPointers.
StartBarrier(t) ==
    /\ At(t, "barrier")
    /\ AsymmetricBarrierHeavy(t)
    /\ To(t, "barrier_done")
    /\ UNCHANGED <<objectVars, listVars, readerVars, reclaimVars>>

LoadHazptrs(t) ==
    /\ At(t, "barrier_done") /\ BarrierDone(t)
    /\ walk' = [walk EXCEPT ![t] = hazptrs_]
    /\ To(t, "scan")
    /\ UNCHANGED <<storeVars, objectVars, listVars, entry_, ptr, cache, keeps, reclaimVars>>

ScanActive(t) ==
    /\ At(t, "scan") /\ walk[t] # <<>>
    /\ IF Load(t, Active(Head(walk[t])))
       THEN To(t, "scan_ptr") /\ UNCHANGED walk
       ELSE walk' = [walk EXCEPT ![t] = Tail(@)] /\ UNCHANGED hpc
    /\ UNCHANGED <<storeVars, objectVars, listVars, entry_, ptr, cache, keeps, reclaimVars>>

ScanPtr(t) ==
    /\ At(t, "scan_ptr")
    /\ kept' = [kept EXCEPT ![t] = (@ \cup {Load(t, Ptr(Head(walk[t])))}) \ {Nothing}]
    /\ walk' = [walk EXCEPT ![t] = Tail(@)]
    /\ To(t, "scan")
    /\ UNCHANGED <<storeVars, objectVars, listVars, entry_, ptr, cache, keeps, current>>

\* The rest of ReclaimBestEffort, object by object.
Reclaim(t) ==
    /\ At(t, "scan") /\ walk[t] = <<>> /\ Drained(t)
    /\ \E o \in current[t] :
           /\ IF o \in kept[t]
              THEN PushRetired(o) /\ UNCHANGED destroyed
              ELSE destroyed' = destroyed \cup {o} /\ UNCHANGED retired_
           /\ current' = [current EXCEPT ![t] = @ \ {o}]
    /\ IF current'[t] = {} THEN To(t, "idle") /\ kept' = [kept EXCEPT ![t] = {}]
       ELSE UNCHANGED <<hpc, kept>>
    /\ UNCHANGED <<storeVars, from_, src, installed, installs, hazptrs_, readerVars>>

ReclaimBestEffort(t) ==
    Grab(t) \/ StartBarrier(t) \/ LoadHazptrs(t) \/ ScanActive(t) \/ ScanPtr(t) \/ Reclaim(t)

ReaderStep(t) ==
    \/ TryAcquire(t) \/ GetEntrySlow(t) \/ LoadSrc(t) \/ Expose(t) \/ TryKeep(t)
    \/ Reset(t) \/ PutEntryOf(t)
WriterStep(t) == Retire(t) \/ ReclaimBestEffort(t)

-----------------------------------------------------------------------------
(* Properties.                                                             *)

\* Hazptr::Keep: what a reader keeps is not destroyed.
KeptAlive == \A t \in Readers : At(t, "use") => ptr[t] \notin destroyed

\* The entries that a reader's Hazptr and its cache have.
Owns(t, e) == entry_[t] = e \/ e \in cache[t]

\* An entry belongs to one Hazptr or to one thread's cache.
EntryExclusive ==
    \A t \in Readers, e \in Entries :
        Owns(t, e) => ~(entry_[t] = e /\ e \in cache[t]) /\ \A u \in Readers \ {t} : ~Owns(u, e)

\* The objects that only t has to do with.
Held(t) == current[t] \cup (IF t \in Writers /\ At(t, "retire") THEN {ptr[t]} ELSE {})

\* Every object that has been replaced is about to be retired, retired, grabbed by one
\* thread, or destroyed: none is lost, and none is destroyed twice.
RetiredInOnePlace ==
    /\ installed \ {src} = retired_ \cup destroyed \cup UNION {Held(t) : t \in Scanners}
    /\ retired_ \cap destroyed = {}
    /\ \A t \in Scanners : /\ Held(t) \cap (retired_ \cup destroyed) = {}
                           /\ \A u \in Scanners \ {t} : Held(t) \cap Held(u) = {}

\* Some object that has been replaced is not destroyed yet.
Unreclaimed == installed \ {src} # destroyed
=============================================================================
