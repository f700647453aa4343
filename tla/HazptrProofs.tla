---------------------------- MODULE HazptrProofs ----------------------------
(***************************************************************************)
(* Hazard pointers are safe, for any number of readers, writers, objects    *)
(* and entries, whatever else the threads do with memory.  The argument:    *)
(* nobody starts to keep an object that has been replaced, so the readers   *)
(* that a scan must not miss are those that keep it already when the heavy  *)
(* barrier begins; the barrier brings their exposed pointers to memory, and *)
(* they stay there while the readers keep the object.                       *)
(***************************************************************************)
EXTENDS Hazptr, StoreBufferProofs

\* The locations of entries are among those of memory, and what they hold among the values.
HazptrMemory(L, V) ==
    /\ \A e \in Entries : Active(e) \in L /\ Ptr(e) \in L
    /\ Objects \cup {TRUE, FALSE, Nothing} \subseteq V

WithEntry == {"load", "expose", "check", "use", "put"}

HazptrTypes ==
    /\ src \in installed /\ installed \subseteq Objects
    /\ hazptrs_ \in Seq(Entries)
    /\ DOMAIN hpc = HazptrThreads
    /\ entry_ \in [Readers -> Entries \cup {Nothing}]
    /\ walk \in [HazptrThreads -> Seq(Entries)]
    /\ ptr \in [Readers \cup Writers -> Objects \cup {Nothing}]
    /\ cache \in [Readers -> SUBSET Entries]
    /\ current \in [Scanners -> SUBSET Objects] /\ DOMAIN kept = Scanners

\* What a thread has at each step.
HazptrSteps ==
    /\ \A t \in Readers : /\ hpc[t] \in {"idle", "get"} \cup WithEntry
                          /\ hpc[t] \in WithEntry <=> entry_[t] # Nothing
                          /\ hpc[t] \in {"expose", "check", "use"} => ptr[t] \in installed
    /\ \A t \in Scanners :
           /\ hpc[t] \in {"idle", "retire", "grab", "barrier", "barrier_done", "scan", "scan_ptr"}
           /\ hpc[t] \in {"idle", "retire", "grab"} => current[t] = {}
           /\ At(t, "scan_ptr") => walk[t] # <<>>
    /\ \A t \in HazptrThreads : EntriesOf(walk[t]) \subseteq EntriesOf(hazptrs_)

\* An entry that a reader has is active, for everybody and for good.
OwnedActive ==
    \A t \in Readers, e \in Entries : Owns(t, e) =>
        /\ e \in EntriesOf(hazptrs_) /\ memory[Active(e)] = TRUE
        /\ \A u \in Cores : ~Buffered(u, Active(e))

\* One that is being released is nobody's until the store has reached memory.
ReleasedActive ==
    \A u \in Cores, e \in Entries : Buffered(u, Active(e)) =>
        /\ u \in Readers /\ e \in EntriesOf(hazptrs_) /\ memory[Active(e)] = TRUE
        /\ Once(buffer[u], Active(e))
        /\ \A w \in Cores \ {u} : ~Buffered(w, Active(e))

\* A pointer is exposed by the owner of the entry, or was before its release.
PtrStores ==
    \A u \in Cores, e \in Entries : Buffered(u, Ptr(e)) =>
        /\ u \in Readers
        /\ Owns(u, e) \/ Followed(buffer[u], Ptr(e), Active(e))

\* A reader has exposed what it checks and what it uses.
Exposed == \A t \in Readers : hpc[t] \in {"check", "use"} => Load(t, Ptr(entry_[t])) = ptr[t]

\* After the barrier, the exposed pointer of who keeps an object that a scan is about
\* is in memory, and the scan will find it or has found it.
Scanned ==
    \A s \in Scanners, t \in Readers : At(t, "use") /\ ptr[t] \in current[s] =>
        /\ At(s, "barrier_done") => t \in ipis[s] \/ ~Buffered(t, Ptr(entry_[t]))
        /\ hpc[s] \in {"scan", "scan_ptr"} =>
               /\ ~Buffered(t, Ptr(entry_[t]))
               /\ entry_[t] \in EntriesOf(walk[s]) \/ ptr[t] \in kept[s]

Ownership == OwnedActive /\ ReleasedActive /\ PtrStores /\ EntryExclusive

\* The inductive invariant.
HazptrInv ==
    HazptrTypes /\ HazptrSteps /\ Ownership /\ Exposed /\ Scanned /\ KeptAlive /\ RetiredInOnePlace

-----------------------------------------------------------------------------
(* Frames.                                                                 *)

\* Fields of entries are different locations.
LEMMA EntryFields ==
    \A e, f : /\ Active(e) # Ptr(f) /\ Ptr(f) # Active(e)
              /\ (Active(e) = Active(f) => e = f) /\ (Ptr(e) = Ptr(f) => e = f)
<1> USE ZenonT(40)
<1> SUFFICES ASSUME NEW e, NEW f
             PROVE  /\ Active(e) # Ptr(f) /\ Ptr(f) # Active(e)
                    /\ (Active(e) = Active(f) => e = f) /\ (Ptr(e) = Ptr(f) => e = f)
  OBVIOUS
<1>1. /\ Active(e)[1] = "active" /\ Ptr(f)[1] = "ptr"
      /\ Active(e)[2] = e /\ Active(f)[2] = f /\ Ptr(e)[2] = e /\ Ptr(f)[2] = f
  BY DEF Active, Ptr
<1>2. Active(e) # Ptr(f)
  BY <1>1
<1> QED BY <1>1, <1>2

\* Memory that is left alone.
LEMMA StoresFrame ==
    ASSUME NEW L, NEW V, StoresOK(L, V), UNCHANGED storeVars
    PROVE  StoresOK(L, V)'
BY Zenon DEF StoresOK, storeVars

\* Nobody gets or loses an entry.
LEMMA OwnershipFrame ==
    ASSUME Ownership, UNCHANGED <<memory, buffer, hazptrs_>>,
           \A t \in Readers, e \in Entries : Owns(t, e)' <=> Owns(t, e),
           \A t \in Readers : entry_'[t] \in Entries => entry_'[t] \notin cache'[t]
    PROVE  Ownership'
<1>1. OwnedActive'
  BY Zenon DEF Ownership, OwnedActive, Buffered
<1>2. ReleasedActive'
  BY Zenon DEF Ownership, ReleasedActive, Buffered
<1>3. PtrStores'
  BY Zenon DEF Ownership, PtrStores, Buffered
<1>4. EntryExclusive'
  BY DEF Ownership, EntryExclusive, Owns
<1> QED BY <1>1, <1>2, <1>3, <1>4, Zenon DEF Ownership

\* Scans that go on, while readers stop to use an object, or start to use one that no
\* scan is about.
LEMMA ScannedFrame ==
    ASSUME Scanned, UNCHANGED <<current, kept, ipis>>,
           \A s \in Scanners : hpc'[s] = hpc[s] /\ walk'[s] = walk[s],
           \A t \in Readers : At(t, "use")' =>
               \/ \A s \in Scanners : ptr'[t] \notin current[s]
               \/ /\ At(t, "use") /\ ptr'[t] = ptr[t] /\ entry_'[t] = entry_[t]
                  /\ Buffered(t, Ptr(entry_[t]))' => Buffered(t, Ptr(entry_[t]))
    PROVE  Scanned'
BY DEF Scanned, At, Buffered

\* Objects that stay where they are.
LEMMA PlacesFrame ==
    ASSUME RetiredInOnePlace, UNCHANGED <<installed, src, retired_, destroyed, current>>,
           \A t \in Writers : (hpc'[t] = "retire" <=> hpc[t] = "retire") /\ ptr'[t] = ptr[t]
    PROVE  RetiredInOnePlace'
<1>1. \A t \in Scanners : Held(t)' = Held(t)
  BY Zenon DEF Held, At, Scanners
<1>2. {Held(t) : t \in Scanners}' = {Held(t) : t \in Scanners}
  BY <1>1, Zenon
<1> QED BY <1>1, <1>2, Zenon DEF RetiredInOnePlace

\* What a scanner has is not what the shared pointer points to.
LEMMA ReplacedOnly ==
    ASSUME RetiredInOnePlace
    PROVE  /\ src \notin destroyed /\ src \notin retired_
           /\ \A s \in Scanners : src \notin current[s] /\ current[s] \cap destroyed = {}
<1>1. \A s \in Scanners : current[s] \subseteq Held(s)
  BY Zenon DEF Held
<1>2. \A s \in Scanners : Held(s) \subseteq installed \ {src}
  BY Zenon DEF RetiredInOnePlace
<1> QED BY <1>1, <1>2, Zenon DEF RetiredInOnePlace

\* A reader that goes to l, with an entry and an object as l asks for.
LEMMA ReaderSteps ==
    ASSUME HazptrTypes, HazptrSteps, NEW t \in Readers, NEW l,
           hpc'[t] = l, \A u \in HazptrThreads : u # t => hpc'[u] = hpc[u],
           UNCHANGED <<installed, current>>, EntriesOf(hazptrs_) \subseteq EntriesOf(hazptrs_'),
           \A u \in Readers : u # t => entry_'[u] = entry_[u] /\ ptr'[u] = ptr[u],
           \A u \in HazptrThreads : u # t => walk'[u] = walk[u],
           walk'[t] = walk[t] \/ EntriesOf(walk'[t]) \subseteq EntriesOf(hazptrs_),
           l \in {"idle", "get"} \cup WithEntry, l \in WithEntry <=> entry_'[t] # Nothing,
           l \in {"expose", "check", "use"} => ptr'[t] \in installed
    PROVE  HazptrSteps'
<1> USE ZenonT(40)
<1>1. /\ t \in HazptrThreads /\ \A s \in Scanners : s # t /\ s \in HazptrThreads
      /\ \A u \in Readers : u \in HazptrThreads
  BY HazptrAssumption DEF HazptrThreads, Scanners
<1>3. ASSUME NEW u \in Readers
      PROVE  /\ hpc'[u] \in {"idle", "get"} \cup WithEntry
             /\ hpc'[u] \in WithEntry <=> entry_'[u] # Nothing
             /\ hpc'[u] \in {"expose", "check", "use"} => ptr'[u] \in installed'
  BY <1>1 DEF HazptrSteps
<1>4. ASSUME NEW s \in Scanners
      PROVE  /\ hpc'[s] \in {"idle", "retire", "grab", "barrier", "barrier_done", "scan", "scan_ptr"}
             /\ hpc'[s] \in {"idle", "retire", "grab"} => current'[s] = {}
             /\ At(s, "scan_ptr")' => walk'[s] # <<>>
  BY <1>1 DEF HazptrSteps, At
<1>5. \A u \in HazptrThreads : EntriesOf(walk'[u]) \subseteq EntriesOf(hazptrs_')
  BY DEF HazptrSteps
<1> QED BY <1>3, <1>4, <1>5 DEF HazptrSteps

-----------------------------------------------------------------------------
(* Readers.                                                                *)

\* What the others see when only t stores.
LEMMA OthersSee ==
    ASSUME NEW t, memory' = memory, \A u \in Cores : u # t => buffer'[u] = buffer[u]
    PROVE  \A u \in Readers : u # t => /\ buffer'[u] = buffer[u]
                                       /\ \A f \in Entries : Load(u, Ptr(f))' = Load(u, Ptr(f))
BY HazptrAssumption, Zenon DEF Load, Ptr, HazptrThreads

\* A reader that goes to l keeps the invariant when its entry is its own and exposes what
\* it is about to use, which is still installed.
LEMMA ReaderAt ==
    ASSUME HazptrInv, NEW t \in Readers, NEW l,
           hpc'[t] = l, \A u \in HazptrThreads : u # t => hpc'[u] = hpc[u],
           UNCHANGED <<objectVars, retired_, reclaimVars, ipis>>, HazptrTypes', Ownership',
           EntriesOf(hazptrs_) \subseteq EntriesOf(hazptrs_'),
           \A u \in Readers \cup Writers : u # t => ptr'[u] = ptr[u],
           \A u \in Readers : u # t => entry_'[u] = entry_[u],
           \A u \in Readers : u # t => /\ buffer'[u] = buffer[u]
                                       /\ \A f \in Entries : Load(u, Ptr(f))' = Load(u, Ptr(f)),
           \A u \in HazptrThreads : u # t => walk'[u] = walk[u],
           walk'[t] = walk[t] \/ EntriesOf(walk'[t]) \subseteq EntriesOf(hazptrs_),
           l \in {"idle", "get"} \cup WithEntry, l \in WithEntry <=> entry_'[t] # Nothing,
           l \in {"expose", "check", "use"} => ptr'[t] \in installed, l = "use" => ptr'[t] = src,
           l \in {"check", "use"} => Load(t, Ptr(entry_[t]))' = ptr'[t]
    PROVE  HazptrInv'
<1> USE ZenonT(40)
<1>1. /\ t \in HazptrThreads /\ \A s \in Scanners : s # t /\ s \in HazptrThreads
      /\ \A u \in Readers : u \in HazptrThreads
  BY HazptrAssumption DEF HazptrThreads, Scanners
<1>3. HazptrSteps'
  BY ReaderSteps, SMT DEF HazptrInv, objectVars, reclaimVars
<1>4. Exposed'
  <2>1. ASSUME NEW u \in Readers, u # t, hpc'[u] \in {"check", "use"}
        PROVE  Load(u, Ptr(entry_[u]))' = ptr'[u]
    <3>1. hpc[u] \in {"check", "use"} /\ entry_[u] \in Entries
      BY <1>1, <2>1, SMT DEF HazptrInv, HazptrTypes, HazptrSteps, WithEntry
    <3>2. Load(u, Ptr(entry_[u])) = ptr[u]
      BY <3>1 DEF HazptrInv, Exposed
    <3>3. \A f : f = entry_[u] => Load(u, Ptr(f))' = Load(u, Ptr(f))
      BY <2>1, <3>1
    <3> QED BY <2>1, <3>2, <3>3
  <2> QED BY <2>1 DEF Exposed
<1>5. \A s \in Scanners : src \notin current[s]
  BY ReplacedOnly DEF HazptrInv
<1>6. Scanned'
  <2>1. \A s \in Scanners : hpc'[s] = hpc[s] /\ walk'[s] = walk[s]
    BY <1>1
  <2>2. \A u \in Readers : At(u, "use")' =>
            \/ \A s \in Scanners : ptr'[u] \notin current[s]
            \/ /\ At(u, "use") /\ ptr'[u] = ptr[u] /\ entry_'[u] = entry_[u]
               /\ Buffered(u, Ptr(entry_[u]))' => Buffered(u, Ptr(entry_[u]))
    BY <1>1, <1>5, SMT DEF At, Buffered
  <2> QED BY <2>1, <2>2, ScannedFrame DEF HazptrInv, reclaimVars
<1>7. KeptAlive'
  <2>1. src \notin destroyed
    BY ReplacedOnly DEF HazptrInv
  <2> QED BY <1>1, <2>1, SMT DEF HazptrInv, KeptAlive, At, objectVars
<1>8. RetiredInOnePlace'
  <2>1. \A u \in Writers : u \in Scanners
    BY DEF Scanners
  <2> QED BY <1>1, <2>1, PlacesFrame DEF HazptrInv, objectVars, reclaimVars
<1> QED BY <1>3, <1>4, <1>6, <1>7, <1>8 DEF HazptrInv

\* What a reader that goes to l leaves alone, and what it exposes.
ReaderGoes(t, l) ==
    /\ hpc' = [hpc EXCEPT ![t] = l] /\ UNCHANGED <<objectVars, retired_, reclaimVars, ipis>>
    /\ EntriesOf(hazptrs_) \subseteq EntriesOf(hazptrs_')
    /\ \A u \in Readers \cup Writers : u # t => ptr'[u] = ptr[u]
    /\ \A u \in Readers : u # t => entry_'[u] = entry_[u]
    /\ \A u \in Readers : u # t => /\ buffer'[u] = buffer[u]
                                   /\ \A f \in Entries : Load(u, Ptr(f))' = Load(u, Ptr(f))
    /\ \A u \in HazptrThreads : u # t => walk'[u] = walk[u]
    /\ walk'[t] = walk[t] \/ EntriesOf(walk'[t]) \subseteq EntriesOf(hazptrs_)
    /\ l \in {"idle", "get"} \cup WithEntry /\ (l \in WithEntry <=> entry_'[t] # Nothing)
    /\ l \in {"expose", "check", "use"} => ptr'[t] \in installed
    /\ l = "use" => ptr'[t] = src
    /\ l \in {"check", "use"} => Load(t, Ptr(entry_[t]))' = ptr'[t]

\* A reader that only moves itself keeps the invariant.
LEMMA ReaderGoesTo ==
    ASSUME HazptrInv, NEW t \in Readers, NEW l, HazptrTypes', Ownership', ReaderGoes(t, l)
    PROVE  HazptrInv'
<1>1. hpc'[t] = l /\ \A u \in HazptrThreads : u # t => hpc'[u] = hpc[u]
  BY Zenon DEF ReaderGoes, HazptrInv, HazptrTypes, HazptrThreads
<1> QED BY <1>1, ReaderAt, Zenon DEF ReaderGoes

\* GetEntryOf: the entry comes out of the thread's own cache, or the walk begins.
LEMMA GetEntryOfStep ==
    ASSUME HazptrInv, NEW t \in Readers, GetEntryOf(t)
    PROVE  HazptrInv'
<1> USE ZenonT(40) DEF HazptrInv
<1> t \in HazptrThreads
  BY DEF HazptrThreads
<1> /\ UNCHANGED <<memory, buffer, ipis, objectVars, listVars, ptr, reclaimVars>>
    /\ hpc[t] = "idle" /\ entry_[t] = Nothing
  BY DEF GetEntryOf, At, storeVars, HazptrTypes, HazptrSteps, WithEntry
<1>1. \A u \in Readers : u # t => /\ buffer'[u] = buffer[u]
                                  /\ \A f \in Entries : Load(u, Ptr(f))' = Load(u, Ptr(f))
  BY OthersSee
<1>a. CASE cache[t] = {}
  <2> /\ walk' = [walk EXCEPT ![t] = hazptrs_] /\ hpc' = [hpc EXCEPT ![t] = "get"]
      /\ entry_' = entry_ /\ cache' = cache
    BY <1>a DEF GetEntryOf, To
  <2>1. HazptrTypes'
    BY DEF HazptrTypes, objectVars, listVars, reclaimVars
  <2>2. Ownership'
    BY OwnershipFrame DEF listVars, Ownership, EntryExclusive, Owns
  <2>3. walk'[t] = hazptrs_ /\ \A u \in HazptrThreads : u # t => walk'[u] = walk[u]
    BY DEF HazptrTypes
  <2>4. ReaderGoes(t, "get")
    BY <1>1, <2>3 DEF ReaderGoes, listVars, WithEntry
  <2> QED BY <2>1, <2>2, <2>4, ReaderGoesTo
<1>b. CASE cache[t] # {}
  <2> PICK e \in cache[t] : /\ entry_' = [entry_ EXCEPT ![t] = e] /\ walk' = walk
                            /\ cache' = [cache EXCEPT ![t] = @ \ {e}]
                            /\ hpc' = [hpc EXCEPT ![t] = "load"]
    BY <1>b DEF GetEntryOf, To
  <2>1. HazptrTypes'
    BY DEF HazptrTypes, objectVars, listVars, reclaimVars
  <2>2. \A u \in Readers, f \in Entries : Owns(u, f)' <=> Owns(u, f)
    BY HazptrAssumption DEF Owns, HazptrTypes
  <2>3. \A u \in Readers : entry_'[u] \in Entries => entry_'[u] \notin cache'[u]
    BY DEF Owns, HazptrTypes, Ownership, EntryExclusive
  <2>4. Ownership'
    BY <2>2, <2>3, OwnershipFrame DEF listVars
  <2>5. entry_'[t] # Nothing /\ \A u \in Readers : u # t => entry_'[u] = entry_[u]
    BY HazptrAssumption DEF HazptrTypes
  <2>6. ReaderGoes(t, "load")
    BY <1>1, <2>5 DEF ReaderGoes, listVars, WithEntry
  <2> QED BY <2>1, <2>4, <2>6, ReaderGoesTo
<1> QED BY <1>a, <1>b

\* LoadSrc: a pointer that Keep loads is that of an installed object.
LEMMA LoadSrcStep ==
    ASSUME HazptrInv, NEW t \in Readers, LoadSrc(t)
    PROVE  HazptrInv'
<1> USE ZenonT(40) DEF HazptrInv
<1> t \in HazptrThreads
  BY DEF HazptrThreads
<1> /\ UNCHANGED <<memory, buffer, ipis, objectVars, listVars, entry_, walk, cache, reclaimVars>>
    /\ hpc[t] = "load" /\ hpc' = [hpc EXCEPT ![t] = "expose"] /\ ptr' = [ptr EXCEPT ![t] = src]
  BY DEF LoadSrc, At, To, storeVars
<1>1. HazptrTypes'
  BY DEF HazptrTypes, objectVars, listVars, reclaimVars
<1>2. Ownership'
  BY OwnershipFrame DEF listVars, Ownership, EntryExclusive, Owns
<1>3. /\ entry_[t] # Nothing /\ src \in installed /\ ptr'[t] = src
      /\ \A u \in Readers \cup Writers : u # t => ptr'[u] = ptr[u]
  BY DEF HazptrTypes, HazptrSteps, WithEntry
<1>4. ReaderGoes(t, "expose")
  BY <1>3, OthersSee DEF ReaderGoes, listVars, WithEntry
<1> QED BY <1>1, <1>2, <1>4, ReaderGoesTo

\* KeepAgain: what was kept is given up.
LEMMA KeepAgainStep ==
    ASSUME HazptrInv, NEW t \in Readers, KeepAgain(t)
    PROVE  HazptrInv'
<1> USE ZenonT(40) DEF HazptrInv
<1> t \in HazptrThreads
  BY DEF HazptrThreads
<1> /\ UNCHANGED <<memory, buffer, ipis, objectVars, listVars, entry_, walk, ptr, cache, reclaimVars>>
    /\ hpc[t] = "use" /\ hpc' = [hpc EXCEPT ![t] = "load"]
  BY DEF KeepAgain, At, To, storeVars, readerVars
<1>1. HazptrTypes'
  BY DEF HazptrTypes, objectVars, listVars, reclaimVars
<1>2. Ownership'
  BY OwnershipFrame DEF listVars, Ownership, EntryExclusive, Owns
<1>3. entry_[t] # Nothing
  BY DEF HazptrSteps, WithEntry
<1>4. ReaderGoes(t, "load")
  BY <1>3, OthersSee DEF ReaderGoes, listVars, WithEntry
<1> QED BY <1>1, <1>2, <1>4, ReaderGoesTo

\* What the store of ExposePtr does.
LEMMA ExposeEffect ==
    ASSUME NEW L, NEW V, StoresOK(L, V), HazptrMemory(L, V), Ownership, NEW t \in Readers, t \in Cores,
           entry_[t] \in Entries, NEW p \in Objects \cup {Nothing}, ExposePtr(t, p),
           UNCHANGED <<entry_, cache, hazptrs_>>
    PROVE  /\ StoresOK(L, V)' /\ Ownership' /\ memory' = memory /\ ipis' = ipis
           /\ \A u \in Cores : u # t => buffer'[u] = buffer[u]
           /\ Load(t, Ptr(entry_[t]))' = p
<1> USE ZenonT(40)
<1>0. entry_'[t] = entry_[t] /\ \A u \in Readers, e \in Entries : Owns(u, e)' <=> Owns(u, e)
  BY DEF Owns
<1> /\ StoresOK(L, V)' /\ memory' = memory /\ ipis' = ipis
    /\ \A u \in Cores : u # t => buffer'[u] = buffer[u]
    /\ \A m : Buffered(t, m)' <=> Buffered(t, m) \/ m = Ptr(entry_[t])
    /\ \A m : Load(t, m)' = IF m = Ptr(entry_[t]) THEN p ELSE Load(t, m)
    /\ \A m, k : Ptr(entry_[t]) # m /\ Followed(buffer[t], m, k) => Followed(buffer'[t], m, k)
    /\ \A m : Ptr(entry_[t]) # m /\ Once(buffer[t], m) => Once(buffer'[t], m)
  <2>1. Ptr(entry_[t]) \in L /\ p \in V /\ Store(t, Ptr(entry_[t]), p)
    BY DEF HazptrMemory, ExposePtr
  <2>2. StoresOK(L, V)' /\ StoreDone(t, Ptr(entry_[t]), p)
    BY <2>1, StoreEffect
  <2> QED BY <2>2 DEF StoreDone
<1>2. \A m : \A u \in Cores : u # t => (Buffered(u, m)' <=> Buffered(u, m))
  BY DEF Buffered
<1>3. \A e \in Entries : \A u \in Cores : Buffered(u, Active(e))' <=> Buffered(u, Active(e))
  BY <1>2, EntryFields
<1>4. OwnedActive'
  BY <1>0, <1>3 DEF Ownership, OwnedActive, Active
<1>5. ReleasedActive'
  BY <1>3, EntryFields DEF Ownership, ReleasedActive
<1>6. PtrStores'
  <2> SUFFICES ASSUME NEW u \in Cores, NEW e \in Entries, Buffered(u, Ptr(e))'
               PROVE  u \in Readers /\ (Owns(u, e) \/ Followed(buffer'[u], Ptr(e), Active(e)))
    BY <1>0 DEF PtrStores
  <2>1. CASE u # t
    BY <2>1, <1>2 DEF Ownership, PtrStores
  <2>2. CASE u = t /\ e = entry_[t]
    BY <2>2 DEF Owns
  <2>3. CASE u = t /\ e # entry_[t]
    BY <2>3, EntryFields DEF Ownership, PtrStores
  <2> QED BY <2>1, <2>2, <2>3
<1>7. EntryExclusive'
  BY DEF Ownership, EntryExclusive, Owns
<1>8. Load(t, Ptr(entry_[t]))' = p
  BY <1>0
<1> QED BY <1>4, <1>5, <1>6, <1>7, <1>8 DEF Ownership

\* Expose: the entry is the reader's own, and its store is what TryKeep relies on.
LEMMA ExposeStep ==
    ASSUME NEW L, NEW V, StoresOK(L, V), HazptrMemory(L, V), HazptrInv, NEW t \in Readers, Expose(t)
    PROVE  StoresOK(L, V)' /\ HazptrInv'
<1> USE ZenonT(40) DEF HazptrInv
<1> t \in HazptrThreads /\ t \in Cores
  BY HazptrAssumption DEF HazptrThreads
<1> /\ UNCHANGED <<objectVars, listVars, entry_, walk, ptr, cache, reclaimVars>>
    /\ hpc[t] = "expose" /\ hpc' = [hpc EXCEPT ![t] = "check"] /\ ExposePtr(t, ptr[t])
  BY DEF Expose, At, To, readerVars
<1>1. entry_[t] \in Entries /\ entry_[t] # Nothing /\ ptr[t] \in Objects \cup {Nothing} /\ ptr[t] \in installed
  BY HazptrAssumption DEF HazptrTypes, HazptrSteps, WithEntry
<1>2. /\ StoresOK(L, V)' /\ Ownership' /\ memory' = memory /\ ipis' = ipis
      /\ \A u \in Cores : u # t => buffer'[u] = buffer[u]
      /\ Load(t, Ptr(entry_[t]))' = ptr[t]
  BY <1>1, ExposeEffect DEF listVars
<1>3. HazptrTypes'
  BY DEF HazptrTypes, objectVars, listVars, reclaimVars
<1>4. ReaderGoes(t, "check")
  BY <1>1, <1>2, OthersSee DEF ReaderGoes, listVars, WithEntry
<1> QED BY <1>2, <1>3, <1>4, ReaderGoesTo

\* Clear: the entry no longer points to anything.
LEMMA ClearStep ==
    ASSUME NEW L, NEW V, StoresOK(L, V), HazptrMemory(L, V), HazptrInv, NEW t \in Readers, Clear(t)
    PROVE  StoresOK(L, V)' /\ HazptrInv'
<1> USE ZenonT(40) DEF HazptrInv
<1> t \in HazptrThreads /\ t \in Cores
  BY HazptrAssumption DEF HazptrThreads
<1> /\ UNCHANGED <<objectVars, listVars, entry_, walk, ptr, cache, reclaimVars>>
    /\ hpc[t] = "use" /\ hpc' = [hpc EXCEPT ![t] = "load"] /\ ExposePtr(t, Nothing)
  BY DEF Clear, At, To, readerVars
<1>1. entry_[t] \in Entries /\ entry_[t] # Nothing /\ Nothing \in Objects \cup {Nothing}
  BY DEF HazptrTypes, HazptrSteps, WithEntry
<1>2. /\ StoresOK(L, V)' /\ Ownership' /\ memory' = memory /\ ipis' = ipis
      /\ \A u \in Cores : u # t => buffer'[u] = buffer[u]
  BY <1>1, ExposeEffect DEF listVars
<1>3. HazptrTypes'
  BY DEF HazptrTypes, objectVars, listVars, reclaimVars
<1>4. ReaderGoes(t, "load")
  BY <1>1, <1>2, OthersSee DEF ReaderGoes, listVars, WithEntry
<1> QED BY <1>2, <1>3, <1>4, ReaderGoesTo

\* Reset: the destructor clears the entry before it gives it back.
LEMMA ResetStep ==
    ASSUME NEW L, NEW V, StoresOK(L, V), HazptrMemory(L, V), HazptrInv, NEW t \in Readers, Reset(t)
    PROVE  StoresOK(L, V)' /\ HazptrInv'
<1> USE ZenonT(40) DEF HazptrInv
<1> t \in HazptrThreads /\ t \in Cores
  BY HazptrAssumption DEF HazptrThreads
<1> /\ UNCHANGED <<objectVars, listVars, entry_, walk, cache, reclaimVars>>
    /\ hpc[t] = "use" /\ hpc' = [hpc EXCEPT ![t] = "put"] /\ ExposePtr(t, Nothing)
    /\ ptr' = [ptr EXCEPT ![t] = Nothing]
  BY DEF Reset, At, To
<1>1. entry_[t] \in Entries /\ entry_[t] # Nothing /\ Nothing \in Objects \cup {Nothing}
  BY DEF HazptrTypes, HazptrSteps, WithEntry
<1>2. /\ StoresOK(L, V)' /\ Ownership' /\ memory' = memory /\ ipis' = ipis
      /\ \A u \in Cores : u # t => buffer'[u] = buffer[u]
  BY <1>1, ExposeEffect DEF listVars
<1>3. HazptrTypes' /\ \A u \in Readers \cup Writers : u # t => ptr'[u] = ptr[u]
  BY DEF HazptrTypes, objectVars, listVars, reclaimVars
<1>4. ReaderGoes(t, "put")
  BY <1>1, <1>2, <1>3, OthersSee DEF ReaderGoes, listVars, WithEntry
<1> QED BY <1>2, <1>3, <1>4, ReaderGoesTo

\* TryKeep: the object was still installed after the store, so no scan has missed it.
LEMMA TryKeepStep ==
    ASSUME NEW L, NEW V, StoresOK(L, V), HazptrMemory(L, V), HazptrInv, NEW t \in Readers, TryKeep(t)
    PROVE  StoresOK(L, V)' /\ HazptrInv'
<1> USE ZenonT(40) DEF HazptrInv
<1> t \in HazptrThreads /\ t \in Cores
  BY HazptrAssumption DEF HazptrThreads
<1> /\ UNCHANGED <<objectVars, listVars, entry_, walk, cache, reclaimVars>>
    /\ hpc[t] = "check"
  BY DEF TryKeep, At
<1>1. /\ entry_[t] \in Entries /\ entry_[t] # Nothing /\ Nothing \in Objects \cup {Nothing}
      /\ src \in installed
  BY DEF HazptrTypes, HazptrSteps, WithEntry
<1>a. CASE src = ptr[t]
  <2> /\ UNCHANGED storeVars /\ memory' = memory /\ buffer' = buffer /\ ipis' = ipis
      /\ ptr' = ptr /\ hpc' = [hpc EXCEPT ![t] = "use"]
    BY <1>a DEF TryKeep, To, storeVars
  <2>1. HazptrTypes'
    BY DEF HazptrTypes, objectVars, listVars, reclaimVars
  <2>2. Ownership'
    BY OwnershipFrame DEF listVars, Ownership, EntryExclusive, Owns
  <2>3. Load(t, Ptr(entry_[t]))' = ptr'[t]
    BY DEF Exposed, Load
  <2>4. ReaderGoes(t, "use")
    BY <1>1, <1>a, <2>3, OthersSee DEF ReaderGoes, listVars, WithEntry
  <2> QED BY <2>1, <2>2, <2>4, StoresFrame, ReaderGoesTo
<1>b. CASE src # ptr[t]
  <2> /\ ptr' = [ptr EXCEPT ![t] = src] /\ ExposePtr(t, Nothing)
      /\ hpc' = [hpc EXCEPT ![t] = "expose"]
    BY <1>b DEF TryKeep, To
  <2>1. /\ StoresOK(L, V)' /\ Ownership' /\ memory' = memory /\ ipis' = ipis
        /\ \A u \in Cores : u # t => buffer'[u] = buffer[u]
    BY <1>1, ExposeEffect DEF listVars
  <2>2. HazptrTypes'
    BY DEF HazptrTypes, objectVars, listVars, reclaimVars
  <2>3. ptr'[t] = src /\ \A u \in Readers \cup Writers : u # t => ptr'[u] = ptr[u]
    BY DEF HazptrTypes
  <2>4. ReaderGoes(t, "expose")
    BY <1>1, <2>1, <2>3, OthersSee DEF ReaderGoes, listVars, WithEntry
  <2> QED BY <2>1, <2>2, <2>4, ReaderGoesTo
<1> QED BY <1>a, <1>b

\* PutEntryOf: the entry goes to the cache, or is released by a store to `active`.
LEMMA PutEntryOfStep ==
    ASSUME NEW L, NEW V, StoresOK(L, V), HazptrMemory(L, V), HazptrInv, NEW t \in Readers, PutEntryOf(t)
    PROVE  StoresOK(L, V)' /\ HazptrInv'
<1> USE HazptrAssumption, ZenonT(40) DEF HazptrInv, At, To
<1>0. t \in HazptrThreads /\ t \in Cores /\ \A s \in Scanners : s # t /\ s \in HazptrThreads
  BY SMT DEF HazptrThreads, Scanners
<1> DEFINE e == entry_[t]
<1> /\ UNCHANGED <<objectVars, listVars, walk, ptr, keeps, reclaimVars>>
    /\ hpc[t] = "put" /\ hpc' = [hpc EXCEPT ![t] = "idle"]
    /\ entry_' = [entry_ EXCEPT ![t] = Nothing] /\ e \in Entries
    /\ cache' \in {cache, [cache EXCEPT ![t] = @ \cup {e}]}
  BY DEF PutEntryOf, HazptrTypes, HazptrSteps, WithEntry
<1> HIDE DEF e
<1>2. /\ StoresOK(L, V)' /\ Ownership' /\ ipis' = ipis
      /\ \A u \in Cores : u # t => buffer'[u] = buffer[u] /\ \A m : Load(u, m)' = Load(u, m)
  <2>a. CASE UNCHANGED storeVars /\ cache' = [cache EXCEPT ![t] = @ \cup {e}]
    <3>1. \A u \in Readers, f \in Entries : Owns(u, f)' <=> Owns(u, f)
      BY <2>a, SMT DEF Owns, HazptrTypes, e
    <3>2. \A u \in Readers : entry_'[u] \in Entries => entry_'[u] \notin cache'[u]
      BY <2>a, SMT DEF HazptrTypes, Ownership, EntryExclusive, Owns
    <3>3. Ownership'
      BY <2>a, <3>1, <3>2, OwnershipFrame, SMT DEF storeVars, listVars
    <3> QED BY <2>a, <3>3, StoresFrame, SMT DEF storeVars, Load
  <2>b. CASE Store(t, Active(e), FALSE) /\ cache' = cache
    <3>0. PICK v \in V : Active(e) \in L /\ Store(t, Active(e), v)
      BY <2>b DEF HazptrMemory
    <3> /\ StoresOK(L, V)' /\ memory' = memory /\ ipis' = ipis
        /\ \A u \in Cores : u # t => buffer'[u] = buffer[u]
        /\ \A m : Buffered(t, m)' <=> Buffered(t, m) \/ m = Active(e)
        /\ \A m, k : Active(e) # m /\ Followed(buffer[t], m, k) => Followed(buffer'[t], m, k)
        /\ \A m : Active(e) # m => Followed(buffer'[t], m, Active(e))
        /\ \A m : Active(e) # m /\ Once(buffer[t], m) => Once(buffer'[t], m)
        /\ ~Buffered(t, Active(e)) => Once(buffer'[t], Active(e))
      <4>s. StoresOK(L, V)' /\ StoreDone(t, Active(e), v)
        BY <3>0, <1>0, StoreEffect
      <4> QED BY <4>s DEF StoreDone
    <3>2. \A m : \A u \in Cores : u # t => (Buffered(u, m)' <=> Buffered(u, m))
      BY DEF Buffered
    <3>3. \A u \in Readers, f \in Entries : Owns(u, f)' <=> Owns(u, f) /\ ~(u = t /\ f = e)
      BY <2>b DEF Owns, HazptrTypes, e, Ownership, EntryExclusive
    <3>4. Owns(t, e) /\ \A u \in Readers : u # t => ~Owns(u, e)
      BY DEF e, Owns, Ownership, EntryExclusive
    <3>5. e \in EntriesOf(hazptrs_) /\ memory[Active(e)] = TRUE /\ \A u \in Cores : ~Buffered(u, Active(e))
      BY <3>4 DEF Ownership, OwnedActive
    <3>6. hazptrs_' = hazptrs_
      BY SMT DEF listVars
    <3>7. OwnedActive'
      <4> SUFFICES ASSUME NEW r \in Readers, NEW f \in Entries, Owns(r, f)'
                   PROVE  /\ f \in EntriesOf(hazptrs_) /\ memory[Active(f)] = TRUE
                          /\ \A u \in Cores : ~Buffered(u, Active(f))'
        BY <3>6 DEF OwnedActive, Active
      <4>1. Owns(r, f) /\ f # e
        BY <3>3, <3>4
      <4> QED BY <4>1, <3>2, EntryFields DEF Ownership, OwnedActive
    <3>8. ReleasedActive'
      <4> SUFFICES ASSUME NEW u \in Cores, NEW f \in Entries, Buffered(u, Active(f))'
                   PROVE  /\ u \in Readers /\ f \in EntriesOf(hazptrs_) /\ memory[Active(f)] = TRUE
                          /\ Once(buffer'[u], Active(f))
                          /\ \A w \in Cores \ {u} : ~Buffered(w, Active(f))'
        BY <3>6 DEF ReleasedActive, Active
      <4>1. CASE f = e
        BY <4>1, <3>2, <3>5
      <4>2. CASE f # e
        <5>1. Active(f) # Active(e)
          BY <4>2, EntryFields
        <5>2. \A w \in Cores : Buffered(w, Active(f))' <=> Buffered(w, Active(f))
          BY <5>1, <3>2
        <5> QED BY <5>1, <5>2 DEF Ownership, ReleasedActive
      <4> QED BY <4>1, <4>2
    <3>9. PtrStores'
      <4> SUFFICES ASSUME NEW u \in Cores, NEW f \in Entries, Buffered(u, Ptr(f))'
                   PROVE  u \in Readers /\ (Owns(u, f)' \/ Followed(buffer'[u], Ptr(f), Active(f)))
        BY DEF PtrStores
      <4>1. CASE u # t
        BY <4>1, <3>2, <3>3 DEF Ownership, PtrStores
      <4>2. CASE u = t /\ f = e
        BY <4>2, EntryFields
      <4>3. CASE u = t /\ f # e
        BY <4>3, <3>3, EntryFields DEF Ownership, PtrStores
      <4> QED BY <4>1, <4>2, <4>3
    <3>10. EntryExclusive'
      BY <2>b DEF Ownership, EntryExclusive, Owns, HazptrTypes
    <3> QED BY <3>7, <3>8, <3>9, <3>10 DEF Ownership, Load
  <2> QED BY <2>a, <2>b DEF PutEntryOf, e
<1>3. HazptrTypes'
  <2>1. cache' \in [Readers -> SUBSET Entries]
    BY SMTT(30) DEF HazptrTypes
  <2> QED BY <2>1, <1>0 DEF HazptrTypes, objectVars, listVars, reclaimVars
<1>4. entry_'[t] = Nothing /\ \A u \in Readers : u # t => entry_'[u] = entry_[u] /\ u \in Cores
  BY SMT DEF HazptrTypes, HazptrThreads
<1>5. ReaderGoes(t, "idle")
  BY <1>2, <1>4, SMT DEF ReaderGoes, listVars, WithEntry
<1> QED BY <1>2, <1>3, <1>5, ReaderGoesTo

\* The list without its first entry, and with one entry more.
LEMMA ListTail ==
    ASSUME NEW S, NEW s \in Seq(S), s # <<>>
    PROVE  /\ Head(s) \in S /\ Tail(s) \in Seq(S)
           /\ EntriesOf(s) = {Head(s)} \cup EntriesOf(Tail(s))
<1>1. PICK n \in Nat : Len(s) = n + 1
  <2>1. Len(s) \in Nat /\ Len(s) # 0
    OBVIOUS
  <2>2. Len(s) - 1 \in Nat /\ Len(s) = (Len(s) - 1) + 1
    BY <2>1
  <2> QED BY <2>2, Zenon
<1> /\ Tail(s) \in Seq(S) /\ Len(Tail(s)) = n /\ \A i \in 1..n : Tail(s)[i] = s[i + 1]
    /\ Head(s) = s[1] /\ Head(s) \in S
  BY <1>1
<1>3. DOMAIN s = 1..(n + 1) /\ DOMAIN Tail(s) = 1..n
  BY <1>1
<1>4. \A i \in 1..(n + 1) : i = 1 \/ (i - 1 \in 1..n /\ (i - 1) + 1 = i)
  OBVIOUS
<1>5. \A i \in 1..n : i + 1 \in 1..(n + 1)
  OBVIOUS
<1>6. 1 \in 1..(n + 1)
  OBVIOUS
<1>7. EntriesOf(s) \subseteq {Head(s)} \cup EntriesOf(Tail(s))
  <2> SUFFICES ASSUME NEW i \in 1..(n + 1), i # 1
               PROVE  s[i] \in EntriesOf(Tail(s))
    BY <1>3 DEF EntriesOf
  <2>1. i - 1 \in 1..n /\ Tail(s)[i - 1] = s[i]
    BY <1>4, Zenon
  <2> QED BY <2>1, <1>3, Zenon DEF EntriesOf
<1>8. {Head(s)} \cup EntriesOf(Tail(s)) \subseteq EntriesOf(s)
  BY <1>3, <1>5, <1>6 DEF EntriesOf
<1> QED BY <1>7, <1>8, Zenon

\* What is pushed is in the list, before what was there.
LEMMA ListPush ==
    ASSUME NEW S, NEW s \in Seq(S), NEW e \in S
    PROVE  <<e>> \o s \in Seq(S) /\ EntriesOf(<<e>> \o s) = {e} \cup EntriesOf(s)
<1>1. <<e>> \o s \in Seq(S) /\ <<e>> \o s # <<>>
  OBVIOUS
<1>2. Head(<<e>> \o s) = e /\ Tail(<<e>> \o s) = s
  OBVIOUS
<1> QED BY <1>1, <1>2, ListTail, Zenon

\* A reader gets an entry that is nobody's.
LEMMA AcquireEffect ==
    ASSUME NEW L, NEW V, StoresOK(L, V), HazptrMemory(L, V), HazptrTypes, Ownership,
           NEW t \in Readers, t \in Cores, entry_[t] = Nothing, NEW e \in Entries,
           \A u \in Readers : ~Owns(u, e), \A u \in Cores : ~Buffered(u, Active(e)),
           Exchange(t, Active(e), TRUE), entry_' = [entry_ EXCEPT ![t] = e], cache' = cache,
           EntriesOf(hazptrs_') = {e} \cup EntriesOf(hazptrs_)
    PROVE  /\ StoresOK(L, V)' /\ Ownership' /\ buffer' = buffer /\ ipis' = ipis
           /\ \A u \in Cores, f \in Entries : Load(u, Ptr(f))' = Load(u, Ptr(f))
<1> USE ZenonT(40)
<1>0. Active(e) \in L /\ \A f \in Entries : Active(f) \in L /\ Ptr(f) \in L
  BY SMT DEF HazptrMemory
<1> /\ StoresOK(L, V)' /\ buffer' = buffer /\ ipis' = ipis
    /\ \A m \in L : memory'[m] = IF m = Active(e) THEN TRUE ELSE memory[m]
    /\ \A u \in Cores, m \in L : m # Active(e) => Load(u, m)' = Load(u, m)
  <2>1. PICK v \in V : v = TRUE /\ Exchange(t, Active(e), v)
    BY DEF HazptrMemory
  <2>2. Exchange(t, Active(e), v)
    BY <2>1, SMT
  <2>3. /\ StoresOK(L, V)' /\ buffer' = buffer /\ ipis' = ipis
        /\ \A m \in L : memory'[m] = IF m = Active(e) THEN v ELSE memory[m]
        /\ \A u \in Cores, m \in L : m # Active(e) => Load(u, m)' = Load(u, m)
    <3>1. StoresOK(L, V)' /\ ExchangeDone(L, t, Active(e), v)
      BY <1>0, <2>2, ExchangeEffect
    <3> QED BY <3>1 DEF ExchangeDone
  <2> QED BY <2>1, <2>3
<1>2. \A u \in Readers, f \in Entries : Owns(u, f)' <=> Owns(u, f) \/ (u = t /\ f = e)
  BY HazptrAssumption DEF Owns, HazptrTypes
<1>3. \A f \in Entries : memory[Active(f)] = TRUE \/ f = e => memory'[Active(f)] = TRUE
  BY <1>0, EntryFields
<1>4. OwnedActive'
  <2> SUFFICES ASSUME NEW r \in Readers, NEW f \in Entries, Owns(r, f)'
               PROVE  /\ f \in EntriesOf(hazptrs_') /\ memory'[Active(f)] = TRUE
                      /\ \A u \in Cores : ~Buffered(u, Active(f))'
    BY DEF OwnedActive, Active
  <2>1. CASE f = e
    BY <2>1, <1>3 DEF Buffered
  <2>2. CASE f # e
    BY <2>2, <1>2, <1>3 DEF Buffered, Ownership, OwnedActive
  <2> QED BY <2>1, <2>2
<1>5. ReleasedActive'
  <2> SUFFICES ASSUME NEW u \in Cores, NEW f \in Entries, Buffered(u, Active(f))
               PROVE  /\ u \in Readers /\ f \in EntriesOf(hazptrs_') /\ memory'[Active(f)] = TRUE
                      /\ Once(buffer[u], Active(f))
                      /\ \A w \in Cores \ {u} : ~Buffered(w, Active(f))
    BY DEF ReleasedActive, Active, Buffered
  <2> QED BY <1>3 DEF Ownership, ReleasedActive
<1>6. PtrStores'
  BY <1>2 DEF Ownership, PtrStores, Buffered, Ptr, Active
<1>7. EntryExclusive'
  <2>1. entry_'[t] = e /\ \A u \in Readers : u # t => entry_'[u] = entry_[u]
    BY DEF HazptrTypes
  <2>2. \A u \in Readers : e \notin cache[u]
    BY DEF Owns
  <2>3. ASSUME NEW u \in Readers, entry_'[u] \in Entries
        PROVE  entry_'[u] \notin cache[u]
    <3>1. CASE u = t
      BY <3>1, <2>1, <2>2
    <3>2. entry_[u] \in Entries => entry_[u] \notin cache[u]
      BY DEF Ownership, EntryExclusive, Owns
    <3> QED BY <3>1, <3>2, <2>1, <2>3
  <2>4. ASSUME NEW u \in Readers, NEW w \in Readers, NEW f \in Entries, Owns(u, f)', Owns(w, f)'
        PROVE  u = w
    <3>1. CASE f = e
      BY <3>1, <2>4, <1>2
    <3>2. CASE f # e
      BY <3>2, <2>4, <1>2 DEF Ownership, EntryExclusive
    <3> QED BY <3>1, <3>2
  <2> QED BY <2>3, <2>4 DEF EntryExclusive
<1>8. \A u \in Cores, f \in Entries : Load(u, Ptr(f))' = Load(u, Ptr(f))
  BY <1>0, EntryFields DEF Ptr
<1> QED BY <1>4, <1>5, <1>6, <1>7, <1>8 DEF Ownership

\* What follows once a reader has its entry.
LEMMA GotStep ==
    ASSUME HazptrInv, NEW t \in Readers, NEW e \in Entries, hpc[t] = "get", Got(t, e),
           UNCHANGED <<objectVars, retired_, ptr, cache, keeps, reclaimVars, buffer, ipis>>,
           hazptrs_' \in Seq(Entries), EntriesOf(hazptrs_) \subseteq EntriesOf(hazptrs_'), Ownership',
           \A u \in Cores, f \in Entries : Load(u, Ptr(f))' = Load(u, Ptr(f))
    PROVE  HazptrInv'
<1> USE HazptrAssumption, ZenonT(40) DEF HazptrInv, At, To
<1>0. t \in HazptrThreads /\ t \in Cores /\ \A s \in Scanners : s # t /\ s \in HazptrThreads
  BY DEF HazptrThreads, Scanners
<1> /\ entry_' = [entry_ EXCEPT ![t] = e] /\ walk' = [walk EXCEPT ![t] = <<>>]
    /\ hpc' = [hpc EXCEPT ![t] = "load"]
  BY DEF Got
<1>2. HazptrTypes'
  <2>1. <<>> \in Seq(Entries)
    BY SMT
  <2>2. walk' \in [HazptrThreads -> Seq(Entries)]
    BY <2>1 DEF HazptrTypes
  <2>3. entry_' \in [Readers -> Entries \cup {Nothing}]
    BY DEF HazptrTypes
  <2> QED BY <2>2, <2>3, <1>0 DEF HazptrTypes, objectVars, reclaimVars
<1>3. /\ walk'[t] = <<>> /\ \A u \in HazptrThreads : u # t => walk'[u] = walk[u]
      /\ entry_'[t] # Nothing /\ \A u \in Readers : u # t => entry_'[u] = entry_[u] /\ u \in Cores
  BY <1>0 DEF HazptrTypes, HazptrThreads
<1>4. EntriesOf(<<>>) = {}
  BY SMT DEF EntriesOf
<1>5. ReaderGoes(t, "load")
  BY <1>3, <1>4 DEF ReaderGoes, WithEntry
<1> QED BY <1>2, <1>5, ReaderGoesTo

\* TryAcquire: an entry whose `active` is false in memory is nobody's.
LEMMA TryAcquireStep ==
    ASSUME NEW L, NEW V, StoresOK(L, V), HazptrMemory(L, V), HazptrInv, NEW t \in Readers, TryAcquire(t)
    PROVE  StoresOK(L, V)' /\ HazptrInv'
<1> USE HazptrAssumption, ZenonT(40) DEF HazptrInv, At, To
<1>0. t \in HazptrThreads /\ t \in Cores /\ \A s \in Scanners : s # t /\ s \in HazptrThreads
  BY SMT DEF HazptrThreads, Scanners
<1> DEFINE e == Head(walk[t])
<1> /\ UNCHANGED <<objectVars, listVars, ptr, cache, keeps, reclaimVars>>
    /\ hpc[t] = "get" /\ walk[t] # <<>>
    /\ \/ Load(t, Active(e)) /\ walk' = [walk EXCEPT ![t] = Tail(@)] /\ UNCHANGED <<storeVars, hpc, entry_>>
       \/ ~Load(t, Active(e)) /\ Exchange(t, Active(e), TRUE) /\ Got(t, e)
  BY DEF TryAcquire
<1>2. e \in Entries /\ e \in EntriesOf(hazptrs_) /\ Tail(walk[t]) \in Seq(Entries)
      /\ EntriesOf(Tail(walk[t])) \subseteq EntriesOf(hazptrs_)
  <2>1. walk[t] \in Seq(Entries) /\ EntriesOf(walk[t]) \subseteq EntriesOf(hazptrs_)
    BY <1>0 DEF HazptrTypes, HazptrSteps
  <2> QED BY <2>1, ListTail, SMT
<1> HIDE DEF e
<1>a. CASE walk' = [walk EXCEPT ![t] = Tail(@)] /\ UNCHANGED <<storeVars, hpc, entry_>>
  <2>1. StoresOK(L, V)'
    BY <1>a, StoresFrame, SMT
  <2>2. HazptrTypes'
    <3>1. walk' \in [HazptrThreads -> Seq(Entries)]
      BY <1>a, <1>2 DEF HazptrTypes
    <3> QED BY <3>1, <1>a, SMT DEF HazptrTypes, objectVars, listVars, reclaimVars
  <2>3. Ownership'
    BY <1>a, OwnershipFrame DEF storeVars, listVars, Ownership, EntryExclusive, Owns
  <2>4. /\ walk'[t] = Tail(walk[t]) /\ \A u \in HazptrThreads : u # t => walk'[u] = walk[u]
        /\ entry_[t] = Nothing
    BY <1>0, <1>a DEF HazptrTypes, HazptrSteps, WithEntry
  <2>5. \A u \in Readers : u # t => /\ buffer'[u] = buffer[u]
                                    /\ \A f \in Entries : Load(u, Ptr(f))' = Load(u, Ptr(f))
    BY <1>a, OthersSee DEF storeVars
  <2>6. HazptrInv'
    BY <1>2, <1>a, <2>2, <2>3, <2>4, <2>5, ReaderAt DEF storeVars, listVars, WithEntry
  <2> QED BY <2>1, <2>6, SMT
<1>b. CASE ~Load(t, Active(e)) /\ Exchange(t, Active(e), TRUE) /\ Got(t, e)
  <2>1. ~Buffered(t, Active(e))
    BY <1>b, ExchangeDrained
  <2>2. memory[Active(e)] # TRUE
    BY <1>b, <2>1, LoadMemory
  <2>3. /\ \A u \in Readers : ~Owns(u, e)
        /\ \A u \in Cores : ~Buffered(u, Active(e))
    BY <2>2, <1>2 DEF Ownership, OwnedActive, ReleasedActive
  <2>4. /\ entry_[t] = Nothing /\ entry_' = [entry_ EXCEPT ![t] = e] /\ cache' = cache
        /\ EntriesOf(hazptrs_') = {e} \cup EntriesOf(hazptrs_) /\ hazptrs_' = hazptrs_
    BY <1>2, <1>b DEF Got, listVars, HazptrSteps, WithEntry
  <2>5. /\ StoresOK(L, V)' /\ Ownership' /\ buffer' = buffer /\ ipis' = ipis
        /\ \A u \in Cores, f \in Entries : Load(u, Ptr(f))' = Load(u, Ptr(f))
    BY <1>0, <1>2, <1>b, <2>3, <2>4, AcquireEffect
  <2>6. hazptrs_' \in Seq(Entries) /\ EntriesOf(hazptrs_) \subseteq EntriesOf(hazptrs_') /\ retired_' = retired_
    BY <2>4, SMT DEF HazptrTypes, listVars
  <2> QED BY <1>2, <1>b, <2>5, <2>6, GotStep, SMT
<1> QED BY <1>a, <1>b

\* GetEntrySlow: a new entry is nobody's, and no walk has to visit it.
LEMMA GetEntrySlowStep ==
    ASSUME NEW L, NEW V, StoresOK(L, V), HazptrMemory(L, V), HazptrInv, NEW t \in Readers, GetEntrySlow(t)
    PROVE  StoresOK(L, V)' /\ HazptrInv'
<1> USE HazptrAssumption, ZenonT(40) DEF HazptrInv, At, To
<1>0. t \in HazptrThreads /\ t \in Cores /\ \A s \in Scanners : s # t /\ s \in HazptrThreads
  BY DEF HazptrThreads, Scanners
<1> PICK e \in Entries \ EntriesOf(hazptrs_) :
        /\ Exchange(t, Active(e), TRUE) /\ hazptrs_' = <<e>> \o hazptrs_ /\ Got(t, e)
  <2> DEFINE e == CHOOSE x \in Entries : x \notin EntriesOf(hazptrs_)
  <2>1. e \in Entries \ EntriesOf(hazptrs_)
    BY DEF GetEntrySlow
  <2>2. Exchange(t, Active(e), TRUE) /\ hazptrs_' = <<e>> \o hazptrs_ /\ Got(t, e)
    BY DEF GetEntrySlow
  <2> QED BY <2>1, <2>2
<1>2. UNCHANGED <<objectVars, retired_, ptr, cache, keeps, reclaimVars>> /\ hpc[t] = "get"
  BY DEF GetEntrySlow
<1>3. /\ \A u \in Readers : ~Owns(u, e)
      /\ \A u \in Cores : ~Buffered(u, Active(e))
  BY DEF Ownership, OwnedActive, ReleasedActive
<1>4. hazptrs_' \in Seq(Entries) /\ EntriesOf(hazptrs_') = {e} \cup EntriesOf(hazptrs_)
  BY ListPush DEF HazptrTypes
<1>5. entry_[t] = Nothing /\ entry_' = [entry_ EXCEPT ![t] = e] /\ cache' = cache
  BY <1>2 DEF Got, HazptrSteps, WithEntry
<1>6. /\ StoresOK(L, V)' /\ Ownership' /\ buffer' = buffer /\ ipis' = ipis
      /\ \A u \in Cores, f \in Entries : Load(u, Ptr(f))' = Load(u, Ptr(f))
  BY <1>0, <1>3, <1>4, <1>5, AcquireEffect
<1> QED BY <1>2, <1>4, <1>6, GotStep

-----------------------------------------------------------------------------
(* Writers, and the reclamation.                                           *)

\* What a scanner that goes to l leaves alone, and what its scan finds or has found.
ScannerGoes(t, l) ==
    /\ hpc'[t] = l /\ \A u \in HazptrThreads : u # t => hpc'[u] = hpc[u] /\ walk'[u] = walk[u]
    /\ \A s \in Scanners : s # t => current'[s] = current[s] /\ kept'[s] = kept[s] /\ ipis'[s] = ipis[s]
    /\ UNCHANGED <<memory, buffer, entry_, cache, hazptrs_>> /\ \A r \in Readers : ptr'[r] = ptr[r]
    /\ installed \subseteq installed'
    /\ l \in {"idle", "retire", "grab", "barrier", "barrier_done", "scan", "scan_ptr"}
    /\ l \in {"idle", "retire", "grab"} => current'[t] = {}
    /\ l = "scan_ptr" => walk'[t] # <<>>
    /\ EntriesOf(walk'[t]) \subseteq EntriesOf(hazptrs_)
    /\ \A r \in Readers : At(r, "use") /\ ptr[r] \in current'[t] =>
           /\ l = "barrier_done" => r \in ipis'[t] \/ ~Buffered(r, Ptr(entry_[r]))
           /\ l \in {"scan", "scan_ptr"} => /\ ~Buffered(r, Ptr(entry_[r]))
                                            /\ entry_[r] \in EntriesOf(walk'[t]) \/ ptr[r] \in kept'[t]
    /\ \A r \in Readers : At(r, "use") => ptr[r] \notin destroyed'

\* A scanner keeps the invariant when it leaves alone what readers use, and its scan finds
\* or has found what they expose.
LEMMA ScannerAt ==
    ASSUME HazptrInv, NEW t \in Scanners, NEW l, HazptrTypes', RetiredInOnePlace', ScannerGoes(t, l)
    PROVE  HazptrInv'
<1> USE ZenonT(40) DEF ScannerGoes
<1>1. /\ t \in HazptrThreads /\ \A s \in Scanners : s \in HazptrThreads
      /\ \A r \in Readers : r \in HazptrThreads /\ r # t
  BY HazptrAssumption DEF HazptrThreads, Scanners
<1>2. HazptrSteps'
  <2>1. ASSUME NEW r \in Readers
        PROVE  hpc'[r] = hpc[r] /\ entry_'[r] = entry_[r] /\ ptr'[r] = ptr[r]
    BY <1>1
  <2>2. ASSUME NEW s \in Scanners
        PROVE  /\ hpc'[s] \in {"idle", "retire", "grab", "barrier", "barrier_done", "scan", "scan_ptr"}
               /\ hpc'[s] \in {"idle", "retire", "grab"} => current'[s] = {}
               /\ At(s, "scan_ptr")' => walk'[s] # <<>>
    BY <1>1 DEF HazptrInv, HazptrSteps, At
  <2>3. \A u \in HazptrThreads : EntriesOf(walk'[u]) \subseteq EntriesOf(hazptrs_)
    BY DEF HazptrInv, HazptrSteps
  <2> QED BY <2>1, <2>2, <2>3 DEF HazptrInv, HazptrSteps
<1>3. Ownership'
  BY OwnershipFrame DEF HazptrInv, Ownership, EntryExclusive, Owns
<1>4. Exposed'
  BY <1>1 DEF HazptrInv, Exposed, Load
<1>5. Scanned'
  <2> SUFFICES ASSUME NEW s \in Scanners, NEW r \in Readers, At(r, "use"), ptr[r] \in current'[s]
               PROVE  /\ At(s, "barrier_done")' => r \in ipis'[s] \/ ~Buffered(r, Ptr(entry_[r]))
                      /\ hpc'[s] \in {"scan", "scan_ptr"} =>
                             /\ ~Buffered(r, Ptr(entry_[r]))
                             /\ entry_[r] \in EntriesOf(walk'[s]) \/ ptr[r] \in kept'[s]
    BY <1>1 DEF Scanned, At, Buffered
  <2>1. CASE s = t
    BY <2>1 DEF At
  <2>2. CASE s # t
    BY <1>1, <2>2 DEF HazptrInv, Scanned, At
  <2> QED BY <2>1, <2>2
<1>6. KeptAlive'
  BY <1>1 DEF KeptAlive, At
<1> QED BY <1>2, <1>3, <1>4, <1>5, <1>6, SMT DEF HazptrInv

\* Objects go from one place to another, of t or shared; those of X have just been replaced.
LEMMA PlacesMove ==
    ASSUME RetiredInOnePlace, NEW t \in Scanners, NEW X, X \cap (installed \ {src}) = {},
           \A u \in Scanners : u # t => Held(u)' = Held(u),
           installed' \ {src'} = (installed \ {src}) \cup X,
           retired_' \cup destroyed' \cup Held(t)' = retired_ \cup destroyed \cup Held(t) \cup X,
           retired_' \cap destroyed' = {}, Held(t)' \cap (retired_' \cup destroyed') = {}
    PROVE  RetiredInOnePlace'
<1> USE ZenonT(40)
<1>1. \A x : x \in installed \ {src} <=>
               x \in retired_ \/ x \in destroyed \/ \E u \in Scanners : x \in Held(u)
  BY SMT DEF RetiredInOnePlace
<1>2. \A x : x \in installed' \ {src'} <=>
               x \in retired_' \/ x \in destroyed' \/ \E u \in Scanners : x \in Held(u)'
  <2> SUFFICES ASSUME NEW x
               PROVE  x \in installed' \ {src'} <=>
                          x \in retired_' \/ x \in destroyed' \/ \E u \in Scanners : x \in Held(u)'
    OBVIOUS
  <2>1. (x \in installed' \ {src'}) <=> (x \in installed \ {src} \/ x \in X)
    OBVIOUS
  <2>2. (x \in retired_' \/ x \in destroyed' \/ x \in Held(t)') <=>
            (x \in retired_ \/ x \in destroyed \/ x \in Held(t) \/ x \in X)
    OBVIOUS
  <2>3. (\E u \in Scanners : x \in Held(u)') <=>
            (x \in Held(t)' \/ \E u \in Scanners : u # t /\ x \in Held(u))
    OBVIOUS
  <2>4. (\E u \in Scanners : x \in Held(u)) <=>
            (x \in Held(t) \/ \E u \in Scanners : u # t /\ x \in Held(u))
    OBVIOUS
  <2> QED BY <1>1, <2>1, <2>2, <2>3, <2>4
<1>3. installed' \ {src'} = retired_' \cup destroyed' \cup UNION {Held(u)' : u \in Scanners}
  BY <1>2, SMT
<1>4. ASSUME NEW u \in Scanners, u # t
      PROVE  /\ Held(u)' \cap (retired_' \cup destroyed') = {}
             /\ Held(u)' \cap Held(t)' = {} /\ Held(t)' \cap Held(u)' = {}
  <2>1. Held(u)' = Held(u) /\ Held(u) \subseteq installed \ {src}
    BY <1>4, <1>1
  <2>2. Held(u) \cap (retired_ \cup destroyed \cup Held(t)) = {}
    BY <1>4 DEF RetiredInOnePlace
  <2> QED BY <2>1, <2>2, SMT
<1>5. \A u, w \in Scanners : u # w => Held(u)' \cap Held(w)' = {}
  BY <1>4, SMT DEF RetiredInOnePlace
<1> QED BY <1>3, <1>4, <1>5 DEF RetiredInOnePlace

\* Install: the object that is replaced is the writer's to retire.
LEMMA InstallStep ==
    ASSUME HazptrInv, NEW t \in Writers, Install(t)
    PROVE  HazptrInv'
<1> USE ZenonT(40) DEF HazptrInv
<1> t \in HazptrThreads /\ t \in Scanners /\ t \notin Readers
  BY HazptrAssumption DEF HazptrThreads, Scanners
<1> /\ UNCHANGED <<memory, buffer, ipis, destroyed, hazptrs_, retired_, entry_, walk, cache, current, kept>>
    /\ hpc[t] = "idle" /\ hpc' = [hpc EXCEPT ![t] = "retire"] /\ ptr' = [ptr EXCEPT ![t] = src]
    /\ installed' = installed \cup {src'}
  BY DEF Install, At, To, storeVars, listVars, reclaimVars
<1>1. src' \in Objects /\ src' \notin installed
  BY DEF Install, Fresh
<1>2. HazptrTypes'
  BY <1>1 DEF HazptrTypes
<1>3. /\ hpc'[t] = "retire" /\ ptr'[t] = src
      /\ \A u \in HazptrThreads : u # t => hpc'[u] = hpc[u]
      /\ \A u \in Readers \cup Writers : u # t => ptr'[u] = ptr[u]
  BY DEF HazptrTypes
<1>4. current[t] = {} /\ EntriesOf(walk[t]) \subseteq EntriesOf(hazptrs_)
  BY DEF HazptrSteps
<1>5. RetiredInOnePlace'
  <2>1. Held(t) = {} /\ Held(t)' = {src}
    BY <1>3, <1>4 DEF Held, At
  <2>2. \A u \in Scanners : u # t => Held(u)' = Held(u)
    BY <1>3 DEF Held, At, Scanners, HazptrThreads
  <2>3. installed' \ {src'} = (installed \ {src}) \cup {src}
    BY <1>1 DEF HazptrTypes
  <2>4. src \notin destroyed /\ src \notin retired_ /\ retired_ \cap destroyed = {}
    BY ReplacedOnly DEF RetiredInOnePlace
  <2> QED BY <2>1, <2>2, <2>3, <2>4, PlacesMove, SMT
<1>6. ScannerGoes(t, "retire")
  BY <1>3, <1>4 DEF ScannerGoes, KeptAlive
<1> QED BY <1>2, <1>5, <1>6, ScannerAt

\* Retire: it moves to the list of the retired objects.
LEMMA RetireStep ==
    ASSUME HazptrInv, NEW t \in Writers, Retire(t)
    PROVE  HazptrInv'
<1> USE ZenonT(40) DEF HazptrInv
<1> t \in HazptrThreads /\ t \in Scanners /\ t \notin Readers
  BY HazptrAssumption, SMT DEF HazptrThreads, Scanners
<1> /\ UNCHANGED <<memory, buffer, ipis, installed, src, destroyed, hazptrs_, entry_, walk, cache, current, kept>>
    /\ hpc[t] = "retire" /\ hpc' = [hpc EXCEPT ![t] = "grab"] /\ ptr' = [ptr EXCEPT ![t] = Nothing]
    /\ retired_' = retired_ \cup {ptr[t]}
  BY SMT DEF Retire, PushRetired, At, To, storeVars, objectVars, reclaimVars
<1>1. HazptrTypes'
  BY DEF HazptrTypes
<1>2. /\ hpc'[t] = "grab"
      /\ \A u \in HazptrThreads : u # t => hpc'[u] = hpc[u]
      /\ \A u \in Readers \cup Writers : u # t => ptr'[u] = ptr[u]
  BY SMT DEF HazptrTypes
<1>3. current[t] = {} /\ EntriesOf(walk[t]) \subseteq EntriesOf(hazptrs_)
  BY DEF HazptrSteps
<1>4. RetiredInOnePlace'
  <2>1. Held(t) = {ptr[t]} /\ Held(t)' = {}
    BY <1>2, <1>3 DEF Held, At
  <2>2. \A u \in Scanners : u # t => Held(u)' = Held(u)
    BY <1>2 DEF Held, At, Scanners, HazptrThreads
  <2>3. Held(t) \cap (retired_ \cup destroyed) = {} /\ retired_ \cap destroyed = {}
    BY SMT DEF RetiredInOnePlace
  <2>4. /\ installed' \ {src'} = (installed \ {src}) \cup {}
        /\ retired_' \cup destroyed' \cup Held(t)' = retired_ \cup destroyed \cup Held(t) \cup {}
        /\ retired_' \cap destroyed' = {} /\ Held(t)' \cap (retired_' \cup destroyed') = {}
        /\ {} \cap (installed \ {src}) = {}
    BY <2>1, <2>3
  <2> QED BY <2>2, <2>4, PlacesMove
<1>5. ScannerGoes(t, "grab")
  BY <1>2, <1>3 DEF ScannerGoes, KeptAlive
<1> QED BY <1>1, <1>4, <1>5, ScannerAt

\* Grab: the whole list moves to one thread.
LEMMA GrabStep ==
    ASSUME HazptrInv, NEW t \in Scanners, Grab(t)
    PROVE  HazptrInv'
<1> USE ZenonT(40) DEF HazptrInv
<1> t \in HazptrThreads
  BY DEF HazptrThreads
<1> /\ UNCHANGED <<memory, buffer, ipis, installed, src, destroyed, hazptrs_, entry_, walk, ptr, cache, kept>>
    /\ hpc[t] \in {"idle", "grab"} /\ hpc' = [hpc EXCEPT ![t] = IF retired_ = {} THEN "idle" ELSE "barrier"]
    /\ current' = [current EXCEPT ![t] = retired_] /\ retired_' = {}
  BY DEF Grab, At, To, storeVars, objectVars, readerVars
<1>1. /\ retired_ \subseteq Objects /\ current[t] = {} /\ EntriesOf(walk[t]) \subseteq EntriesOf(hazptrs_)
      /\ retired_ \cap destroyed = {}
  BY DEF RetiredInOnePlace, HazptrTypes, HazptrSteps
<1>2. HazptrTypes'
  BY <1>1 DEF HazptrTypes
<1>3. /\ hpc'[t] = (IF retired_ = {} THEN "idle" ELSE "barrier") /\ current'[t] = retired_
      /\ \A u \in HazptrThreads : u # t => hpc'[u] = hpc[u]
      /\ \A s \in Scanners : s # t => current'[s] = current[s]
  BY DEF HazptrTypes
<1>4. RetiredInOnePlace'
  <2> hpc[t] # "retire" /\ hpc'[t] # "retire"
    BY <1>3, SMT
  <2>1. Held(t) = {} /\ Held(t)' = retired_
    BY <1>1, <1>3 DEF Held, At
  <2>2. \A u \in Scanners : u # t => Held(u)' = Held(u)
    BY <1>3 DEF Held, At, Scanners, HazptrThreads
  <2>3. /\ installed' \ {src'} = (installed \ {src}) \cup {}
        /\ retired_' \cup destroyed' \cup Held(t)' = retired_ \cup destroyed \cup Held(t) \cup {}
        /\ retired_' \cap destroyed' = {} /\ Held(t)' \cap (retired_' \cup destroyed') = {}
        /\ {} \cap (installed \ {src}) = {}
    BY <1>1, <2>1
  <2> QED BY <2>2, <2>3, PlacesMove
<1>5. CASE retired_ = {}
  <2>1. ScannerGoes(t, "idle")
    BY <1>1, <1>3, <1>5 DEF ScannerGoes, KeptAlive
  <2> QED BY <1>2, <1>4, <2>1, ScannerAt
<1>6. CASE retired_ # {}
  <2>1. ScannerGoes(t, "barrier")
    BY <1>1, <1>3, <1>6 DEF ScannerGoes, KeptAlive
  <2> QED BY <1>2, <1>4, <2>1, ScannerAt
<1> QED BY <1>5, <1>6

\* StartBarrier: whoever exposed a grabbed object has the store in memory, or is waited for.
LEMMA StartBarrierStep ==
    ASSUME NEW L, NEW V, StoresOK(L, V), HazptrInv, NEW t \in Scanners, StartBarrier(t)
    PROVE  StoresOK(L, V)' /\ HazptrInv'
<1> USE ZenonT(40) DEF HazptrInv
<1> /\ t \in HazptrThreads /\ t \in Cores /\ \A r \in Readers : r \in Cores
    /\ \A s \in Scanners : s \in Cores
  BY HazptrAssumption DEF HazptrThreads, Scanners
<1> /\ UNCHANGED <<objectVars, listVars, installed, destroyed, hazptrs_, entry_, walk, ptr, cache, current, kept>>
    /\ hpc[t] = "barrier" /\ hpc' = [hpc EXCEPT ![t] = "barrier_done"] /\ AsymmetricBarrierHeavy(t)
  BY DEF StartBarrier, At, To, objectVars, listVars, readerVars, reclaimVars
<1>1. /\ StoresOK(L, V)' /\ memory' = memory /\ buffer' = buffer
      /\ \A u \in Cores : ipis[u] = {} /\ (u # t => ipis'[u] = {})
      /\ \A m : \A u \in Cores : u \notin ipis'[t] => ~Buffered(u, m)
  BY BarrierEffect
<1>2. HazptrTypes' /\ EntriesOf(walk[t]) \subseteq EntriesOf(hazptrs_)
  BY DEF HazptrTypes, HazptrSteps, objectVars, listVars
<1>3. hpc'[t] = "barrier_done" /\ \A u \in HazptrThreads : u # t => hpc'[u] = hpc[u]
  BY DEF HazptrTypes
<1>4. RetiredInOnePlace'
  BY <1>3, PlacesFrame DEF objectVars, listVars, HazptrThreads, Scanners
<1>5. /\ \A s \in Scanners : s # t => ipis'[s] = ipis[s]
      /\ \A r \in Readers : r \in ipis'[t] \/ ~Buffered(r, Ptr(entry_[r]))
  BY <1>1
<1>6. memory' = memory /\ buffer' = buffer
  BY <1>1
<1>7. ScannerGoes(t, "barrier_done")
  BY <1>2, <1>3, <1>5, <1>6 DEF ScannerGoes, KeptAlive, objectVars, listVars
<1> QED BY <1>1, <1>2, <1>4, <1>7, ScannerAt

\* LoadHazptrs: after the barrier the list has every entry that points to a grabbed object.
LEMMA LoadHazptrsStep ==
    ASSUME HazptrInv, NEW t \in Scanners, LoadHazptrs(t)
    PROVE  HazptrInv'
<1> USE ZenonT(40) DEF HazptrInv
<1> t \in HazptrThreads
  BY SMT DEF HazptrThreads
<1> /\ UNCHANGED <<objectVars, listVars, memory, buffer, ipis, installed, destroyed, hazptrs_,
                   entry_, ptr, cache, current, kept>>
    /\ hpc[t] = "barrier_done" /\ hpc' = [hpc EXCEPT ![t] = "scan"]
    /\ ipis[t] = {} /\ walk' = [walk EXCEPT ![t] = hazptrs_]
  BY DEF LoadHazptrs, BarrierDone, At, To, storeVars, objectVars, listVars, reclaimVars
<1>1. HazptrTypes'
  BY DEF HazptrTypes, objectVars, listVars
<1>2. /\ hpc'[t] = "scan" /\ walk'[t] = hazptrs_
      /\ \A u \in HazptrThreads : u # t => hpc'[u] = hpc[u] /\ walk'[u] = walk[u]
  BY SMT DEF HazptrTypes
<1>3. RetiredInOnePlace'
  BY <1>2, PlacesFrame DEF objectVars, listVars, HazptrThreads, Scanners
<1>4. ASSUME NEW r \in Readers, At(r, "use"), ptr[r] \in current[t]
      PROVE  ~Buffered(r, Ptr(entry_[r])) /\ entry_[r] \in EntriesOf(hazptrs_)
  <2>1. entry_[r] \in Entries /\ Owns(r, entry_[r])
    BY <1>4 DEF HazptrTypes, HazptrSteps, WithEntry, Owns, At
  <2> QED BY <1>4, <2>1 DEF Scanned, Ownership, OwnedActive, At
<1>5. ScannerGoes(t, "scan")
  BY <1>2, <1>4 DEF ScannerGoes, KeptAlive
<1> QED BY <1>1, <1>3, <1>5, ScannerAt

\* ScanActive: an entry that is not active keeps nothing.
LEMMA ScanActiveStep ==
    ASSUME HazptrInv, NEW t \in Scanners, ScanActive(t)
    PROVE  HazptrInv'
<1> USE ZenonT(40) DEF HazptrInv
<1> t \in HazptrThreads /\ t \in Cores
  BY HazptrAssumption, SMT DEF HazptrThreads, Scanners
<1> /\ UNCHANGED <<objectVars, listVars, memory, buffer, ipis, installed, destroyed, hazptrs_,
                   entry_, ptr, cache, current, kept>>
    /\ hpc[t] = "scan" /\ walk[t] # <<>>
    /\ \/ Load(t, Active(Head(walk[t]))) /\ hpc' = [hpc EXCEPT ![t] = "scan_ptr"] /\ walk' = walk
       \/ ~Load(t, Active(Head(walk[t]))) /\ walk' = [walk EXCEPT ![t] = Tail(@)] /\ hpc' = hpc
  BY SMT DEF ScanActive, At, To, storeVars, objectVars, listVars, reclaimVars
<1>1. /\ Head(walk[t]) \in Entries /\ Tail(walk[t]) \in Seq(Entries)
      /\ EntriesOf(walk[t]) = {Head(walk[t])} \cup EntriesOf(Tail(walk[t]))
      /\ EntriesOf(walk[t]) \subseteq EntriesOf(hazptrs_)
  BY ListTail DEF HazptrTypes, HazptrSteps
<1>2. ASSUME NEW r \in Readers, At(r, "use"), ptr[r] \in current[t]
      PROVE  /\ ~Buffered(r, Ptr(entry_[r])) /\ Load(t, Active(entry_[r]))
             /\ entry_[r] \in EntriesOf(walk[t]) \/ ptr[r] \in kept[t]
  <2>1. entry_[r] \in Entries /\ Owns(r, entry_[r])
    BY <1>2 DEF HazptrTypes, HazptrSteps, WithEntry, Owns, At
  <2>2. memory[Active(entry_[r])] = TRUE /\ ~Buffered(t, Active(entry_[r]))
    BY <2>1 DEF Ownership, OwnedActive
  <2> QED BY <1>2, <2>2, LoadMemory DEF Scanned
<1>3. HazptrTypes'
  <2>1. walk' \in [HazptrThreads -> Seq(Entries)]
    BY <1>1 DEF HazptrTypes
  <2> QED BY <2>1 DEF HazptrTypes, objectVars, listVars
<1>4. /\ \A u \in HazptrThreads : u # t => hpc'[u] = hpc[u] /\ walk'[u] = walk[u]
      /\ \/ hpc'[t] = "scan_ptr" /\ walk'[t] = walk[t]
         \/ hpc'[t] = "scan" /\ walk'[t] = Tail(walk[t]) /\ ~Load(t, Active(Head(walk[t])))
  BY DEF HazptrTypes
<1>5. RetiredInOnePlace'
  BY <1>4, PlacesFrame, SMT DEF objectVars, listVars, HazptrThreads, Scanners
<1>6. CASE hpc'[t] = "scan_ptr" /\ walk'[t] = walk[t]
  <2>1. ScannerGoes(t, "scan_ptr")
    BY <1>1, <1>2, <1>4, <1>6 DEF ScannerGoes, KeptAlive
  <2> QED BY <1>3, <1>5, <2>1, ScannerAt
<1>7. CASE hpc'[t] = "scan" /\ walk'[t] = Tail(walk[t]) /\ ~Load(t, Active(Head(walk[t])))
  <2>1. \A r \in Readers : At(r, "use") /\ ptr[r] \in current[t] =>
            entry_[r] \in EntriesOf(Tail(walk[t])) \/ ptr[r] \in kept[t]
    BY <1>1, <1>2, <1>7
  <2>2. ScannerGoes(t, "scan")
    BY <1>1, <1>2, <1>4, <1>7, <2>1 DEF ScannerGoes, KeptAlive
  <2> QED BY <1>3, <1>5, <2>2, ScannerAt
<1> QED BY <1>4, <1>6, <1>7

\* ScanPtr: what the entry points to is remembered as kept.
LEMMA ScanPtrStep ==
    ASSUME HazptrInv, NEW t \in Scanners, ScanPtr(t)
    PROVE  HazptrInv'
<1> USE ZenonT(40) DEF HazptrInv
<1> t \in HazptrThreads /\ t \in Cores /\ \A r \in Readers : r # t
  BY HazptrAssumption, SMT DEF HazptrThreads, Scanners
<1> /\ UNCHANGED <<objectVars, listVars, memory, buffer, ipis, installed, destroyed, hazptrs_,
                   entry_, ptr, cache, current>>
    /\ hpc[t] = "scan_ptr" /\ hpc' = [hpc EXCEPT ![t] = "scan"] /\ walk' = [walk EXCEPT ![t] = Tail(@)]
    /\ kept' = [kept EXCEPT ![t] = (@ \cup {Load(t, Ptr(Head(walk[t])))}) \ {Nothing}]
  BY SMT DEF ScanPtr, At, To, storeVars, objectVars, listVars
<1>1. /\ Head(walk[t]) \in Entries /\ Tail(walk[t]) \in Seq(Entries)
      /\ EntriesOf(walk[t]) = {Head(walk[t])} \cup EntriesOf(Tail(walk[t]))
      /\ EntriesOf(walk[t]) \subseteq EntriesOf(hazptrs_)
  BY ListTail, SMT DEF HazptrTypes, HazptrSteps, At
<1>2. HazptrTypes'
  <2>1. walk' \in [HazptrThreads -> Seq(Entries)]
    BY <1>1 DEF HazptrTypes
  <2> QED BY <2>1 DEF HazptrTypes, objectVars, listVars
<1>3. /\ hpc'[t] = "scan" /\ walk'[t] = Tail(walk[t])
      /\ kept'[t] = (kept[t] \cup {Load(t, Ptr(Head(walk[t])))}) \ {Nothing}
      /\ \A u \in HazptrThreads : u # t => hpc'[u] = hpc[u] /\ walk'[u] = walk[u]
      /\ \A s \in Scanners : s # t => kept'[s] = kept[s]
  BY SMT DEF HazptrTypes
<1>4. RetiredInOnePlace'
  BY <1>3, PlacesFrame, SMT DEF objectVars, listVars, HazptrThreads, Scanners
<1>5. ASSUME NEW r \in Readers, At(r, "use"), ptr[r] \in current[t]
      PROVE  ~Buffered(r, Ptr(entry_[r])) /\ (entry_[r] \in EntriesOf(walk'[t]) \/ ptr[r] \in kept'[t])
  <2>1. entry_[r] \in Entries /\ Owns(r, entry_[r]) /\ ptr[r] # Nothing /\ Load(r, Ptr(entry_[r])) = ptr[r]
    <3>1. entry_[r] \in Entries /\ ptr[r] \in Objects
      BY <1>5 DEF HazptrTypes, HazptrSteps, WithEntry, At
    <3> QED BY <1>5, <3>1, HazptrAssumption DEF Owns, At, Exposed
  <2>2. ~Buffered(r, Ptr(entry_[r])) /\ (entry_[r] \in EntriesOf(walk[t]) \/ ptr[r] \in kept[t])
    BY <1>5 DEF Scanned
  <2>3. ~Buffered(t, Ptr(entry_[r]))
    BY <2>1, HazptrAssumption DEF Ownership, PtrStores, Scanners
  <2>4. Load(t, Ptr(entry_[r])) = ptr[r]
    BY <2>1, <2>2, <2>3, LoadMemory
  <2> QED BY <1>1, <1>3, <2>1, <2>2, <2>4
<1>6. ScannerGoes(t, "scan")
  BY <1>1, <1>3, <1>5 DEF ScannerGoes, KeptAlive
<1> QED BY <1>2, <1>4, <1>6, ScannerAt

\* Reclaim: an object that no entry pointed to is not kept, and never will be again.
LEMMA ReclaimStep ==
    ASSUME HazptrInv, NEW t \in Scanners, Reclaim(t)
    PROVE  HazptrInv'
<1> USE ZenonT(40) DEF HazptrInv
<1> t \in HazptrThreads
  BY SMT DEF HazptrThreads
<1> PICK o \in current[t] :
        /\ \/ o \in kept[t] /\ retired_' = retired_ \cup {o} /\ destroyed' = destroyed
           \/ o \notin kept[t] /\ destroyed' = destroyed \cup {o} /\ retired_' = retired_
        /\ current' = [current EXCEPT ![t] = @ \ {o}]
  BY DEF Reclaim, PushRetired
<1> /\ UNCHANGED <<memory, buffer, ipis, src, installed, hazptrs_, entry_, walk, ptr, cache>>
    /\ hpc[t] = "scan" /\ walk[t] = <<>>
    /\ \/ current'[t] = {} /\ hpc' = [hpc EXCEPT ![t] = "idle"] /\ kept' = [kept EXCEPT ![t] = {}]
       \/ hpc' = hpc /\ kept' = kept
  BY DEF Reclaim, At, To, storeVars, readerVars
<1>1. HazptrTypes' /\ EntriesOf(walk[t]) = {}
  BY SMT DEF HazptrTypes, EntriesOf
<1>2. /\ \A u \in HazptrThreads : u # t => hpc'[u] = hpc[u]
      /\ \A s \in Scanners : s # t => current'[s] = current[s] /\ kept'[s] = kept[s]
      /\ current'[t] = current[t] \ {o}
      /\ \/ hpc'[t] = "idle" /\ current'[t] = {}
         \/ hpc'[t] = "scan" /\ kept'[t] = kept[t]
  BY SMT DEF HazptrTypes
<1>3. RetiredInOnePlace'
  <2>1. Held(t) = current[t] /\ Held(t)' = current[t] \ {o}
    BY <1>2 DEF Held, At
  <2>2. \A u \in Scanners : u # t => Held(u)' = Held(u)
    BY <1>2 DEF Held, At, Scanners, HazptrThreads
  <2>3. retired_ \cap destroyed = {} /\ Held(t) \cap (retired_ \cup destroyed) = {}
    BY SMT DEF RetiredInOnePlace
  <2>4. /\ installed' \ {src'} = (installed \ {src}) \cup {}
        /\ retired_' \cup destroyed' \cup Held(t)' = retired_ \cup destroyed \cup Held(t) \cup {}
        /\ {} \cap (installed \ {src}) = {}
    BY <2>1
  <2>5. retired_' \cap destroyed' = {} /\ Held(t)' \cap (retired_' \cup destroyed') = {}
    BY <2>1, <2>3
  <2> QED BY <2>2, <2>4, <2>5, PlacesMove
<1>4. ASSUME NEW r \in Readers, At(r, "use")
      PROVE  ptr[r] \notin destroyed' /\ (ptr[r] \in current[t] => ~Buffered(r, Ptr(entry_[r])) /\ ptr[r] \in kept[t])
  BY <1>1, <1>4 DEF Scanned, KeptAlive
<1>5. \A r \in Readers : At(r, "use") /\ ptr[r] \in current'[t] =>
          /\ ptr[r] \in kept[t] /\ ~Buffered(r, Ptr(entry_[r])) /\ current'[t] # {}
  BY <1>2, <1>4
<1>6. ScannerGoes(t, hpc'[t])
  BY <1>1, <1>2, <1>4, <1>5 DEF ScannerGoes
<1> QED BY <1>1, <1>3, <1>6, ScannerAt

-----------------------------------------------------------------------------
(* Memory.                                                                 *)

\* Nobody else has a store to the pointer of a reader's entry.
LEMMA OwnPtr ==
    ASSUME Ownership, NEW r \in Readers, entry_[r] \in Entries, NEW u \in Cores, u # r
    PROVE  ~Buffered(u, Ptr(entry_[r]))
<1> USE ZenonT(40)
<1> SUFFICES ASSUME Buffered(u, Ptr(entry_[r]))
             PROVE  FALSE
  OBVIOUS
<1>1. Owns(r, entry_[r])
  BY DEF Owns
<1>2. u \in Readers /\ ~Owns(u, entry_[r])
  BY <1>1 DEF Ownership, PtrStores, EntryExclusive
<1>3. Followed(buffer[u], Ptr(entry_[r]), Active(entry_[r]))
  BY <1>2 DEF Ownership, PtrStores
<1>4. Buffered(u, Active(entry_[r]))
  BY <1>3 DEF Followed, Buffered, Stored
<1> QED BY <1>1, <1>4 DEF Ownership, OwnedActive

\* Stores that reach memory, and those to other locations.
LEMMA MemoryFrame ==
    ASSUME HazptrInv, UNCHANGED hazptrVars,
           \A u \in Cores, e \in Entries :
               /\ Buffered(u, Ptr(e))' => Buffered(u, Ptr(e))
               /\ Buffered(u, Active(e))' =>
                      Buffered(u, Active(e)) /\ memory'[Active(e)] = memory[Active(e)]
               /\ Once(buffer[u], Active(e)) => Once(buffer'[u], Active(e))
               /\ Followed(buffer[u], Ptr(e), Active(e)) => Followed(buffer'[u], Ptr(e), Active(e)),
           \A e \in Entries :
               (\A u \in Cores : ~Buffered(u, Active(e))) => memory'[Active(e)] = memory[Active(e)],
           \A r \in Readers : entry_[r] \in Entries =>
               Load(r, Ptr(entry_[r]))' = Load(r, Ptr(entry_[r])),
           \A s \in Scanners, r \in Readers :
               r \in ipis[s] => r \in ipis'[s] \/ \A m : ~Buffered(r, m)'
    PROVE  HazptrInv'
<1> USE HazptrAssumption, ZenonT(40) DEF HazptrInv, At, hazptrVars
<1>1. HazptrTypes' /\ HazptrSteps'
  BY DEF HazptrTypes, HazptrSteps
<1>2. \A u \in Readers, e \in Entries : Owns(u, e)' <=> Owns(u, e)
  BY DEF Owns
<1>3. OwnedActive'
  <2> SUFFICES ASSUME NEW r \in Readers, NEW f \in Entries, Owns(r, f)
               PROVE  /\ f \in EntriesOf(hazptrs_) /\ memory'[Active(f)] = TRUE
                      /\ \A u \in Cores : ~Buffered(u, Active(f))'
    BY <1>2 DEF OwnedActive, Active
  <2> QED BY DEF Ownership, OwnedActive
<1>4. ReleasedActive'
  <2> SUFFICES ASSUME NEW u \in Cores, NEW f \in Entries, Buffered(u, Active(f))'
               PROVE  /\ u \in Readers /\ f \in EntriesOf(hazptrs_) /\ memory'[Active(f)] = TRUE
                      /\ Once(buffer'[u], Active(f))
                      /\ \A w \in Cores \ {u} : ~Buffered(w, Active(f))'
    BY DEF ReleasedActive, Active
  <2> QED BY DEF Ownership, ReleasedActive
<1>5. PtrStores'
  <2> SUFFICES ASSUME NEW u \in Cores, NEW f \in Entries, Buffered(u, Ptr(f))'
               PROVE  u \in Readers /\ (Owns(u, f) \/ Followed(buffer'[u], Ptr(f), Active(f)))
    BY <1>2 DEF PtrStores
  <2> QED BY DEF Ownership, PtrStores
<1>6. EntryExclusive'
  BY DEF Ownership, EntryExclusive, Owns
<1>7. \A r \in Readers : hpc[r] \in {"check", "use"} => entry_[r] \in Entries
  BY DEF HazptrTypes, HazptrSteps, WithEntry
<1>8. Exposed'
  BY <1>7 DEF Exposed
<1>9. Scanned'
  <2> SUFFICES ASSUME NEW s \in Scanners, NEW r \in Readers, hpc[r] = "use", ptr[r] \in current[s]
               PROVE  /\ hpc[s] = "barrier_done" => r \in ipis'[s] \/ ~Buffered(r, Ptr(entry_[r]))'
                      /\ hpc[s] \in {"scan", "scan_ptr"} =>
                             /\ ~Buffered(r, Ptr(entry_[r]))'
                             /\ entry_[r] \in EntriesOf(walk[s]) \/ ptr[r] \in kept[s]
    BY DEF Scanned
  <2>1. r \in Cores /\ (Buffered(r, Ptr(entry_[r]))' => Buffered(r, Ptr(entry_[r])))
    BY <1>7
  <2> QED BY <2>1 DEF Scanned
<1>10. KeptAlive'
  BY DEF KeptAlive
<1>11. RetiredInOnePlace'
  BY PlacesFrame
<1> QED BY <1>1, <1>3, <1>4, <1>5, <1>6, <1>8, <1>9, <1>10, <1>11 DEF Ownership

\* A store that reaches memory changes nothing for its thread.
LEMMA HazptrDrain ==
    ASSUME NEW L, NEW V, StoresOK(L, V), HazptrMemory(L, V), HazptrInv, NEW t \in Cores, Drain(t),
           UNCHANGED hazptrVars
    PROVE  HazptrInv'
<1> USE HazptrAssumption, ZenonT(40) DEF HazptrInv
<1>0. \A e \in Entries : Active(e) \in L /\ Ptr(e) \in L
  BY SMT DEF HazptrMemory
<1>d. DrainDone(L, t)
  BY DrainEffect
<1>1. /\ ipis' = ipis
      /\ \A u \in Cores : u # t => buffer'[u] = buffer[u]
      /\ \A m : Buffered(t, m)' => Buffered(t, m)
      /\ \A m \in L : Load(t, m)' = Load(t, m)
      /\ \A m, k : Followed(buffer[t], m, k) => Followed(buffer'[t], m, k)
      /\ \A m : Once(buffer[t], m) => Once(buffer'[t], m)
  BY <1>d DEF DrainDone
<1>2. PICK l \in L :
          /\ Buffered(t, l) /\ (Once(buffer[t], l) => ~Buffered(t, l)')
          /\ \A m \in L : m # l => memory'[m] = memory[m]
          /\ \A u \in Cores, m \in L :
                 u # t /\ (m # l \/ Buffered(u, m)) => Load(u, m)' = Load(u, m)
  BY <1>d DEF DrainDone
<1>3. \A m : \A u \in Cores : Buffered(u, m)' => Buffered(u, m)
  BY <1>1 DEF Buffered
<1>4. \A u \in Cores : /\ \A m, k : Followed(buffer[u], m, k) => Followed(buffer'[u], m, k)
                       /\ \A m : Once(buffer[u], m) => Once(buffer'[u], m)
  BY <1>1
<1>5. ASSUME NEW u \in Cores, NEW e \in Entries, Buffered(u, Active(e))'
      PROVE  memory'[Active(e)] = memory[Active(e)]
  <2>1. l # Active(e)
    <3> SUFFICES ASSUME l = Active(e)
                 PROVE  FALSE
      BY SMT
    <3>1. Once(buffer[t], Active(e)) /\ \A w \in Cores \ {t} : ~Buffered(w, Active(e))
      BY <1>2 DEF Ownership, ReleasedActive
    <3> QED BY <3>1, <1>2, <1>3, <1>5
  <2> QED BY <2>1, <1>0, <1>2
<1>6. \A e \in Entries :
          (\A u \in Cores : ~Buffered(u, Active(e))) => memory'[Active(e)] = memory[Active(e)]
  BY <1>0, <1>2
<1>7. ASSUME NEW r \in Readers, entry_[r] \in Entries
      PROVE  Load(r, Ptr(entry_[r]))' = Load(r, Ptr(entry_[r]))
  <2>0. Ptr(entry_[r])' = Ptr(entry_[r]) /\ Ptr(entry_[r]) \in L /\ r \in Cores
    BY <1>0, <1>7 DEF hazptrVars, Ptr
  <2>1. CASE r = t
    BY <2>0, <2>1, <1>1
  <2>2. CASE r # t
    <3>1. ~Buffered(t, Ptr(entry_[r]))
      BY <1>7, <2>2, OwnPtr
    <3> QED BY <3>1, <2>0, <2>2, <1>2
  <2> QED BY <2>1, <2>2
<1> QED BY <1>1, <1>3, <1>4, <1>5, <1>6, <1>7, MemoryFrame

\* Nor do all of them that an interrupt brings there.
LEMMA HazptrInterrupt ==
    ASSUME NEW L, NEW V, StoresOK(L, V), HazptrMemory(L, V), HazptrInv,
           NEW t \in Cores, NEW u \in Cores, Interrupt(t, u), UNCHANGED hazptrVars
    PROVE  HazptrInv'
<1> USE HazptrAssumption, ZenonT(40) DEF HazptrInv
<1>0. \A e \in Entries : Active(e) \in L /\ Ptr(e) \in L
  BY SMT DEF HazptrMemory
<1>i. InterruptDone(L, t, u)
  BY InterruptEffect
<1> /\ ipis' = [ipis EXCEPT ![t] = @ \ {u}]
    /\ \A w \in Cores : w # u => buffer'[w] = buffer[w]
    /\ \A m : ~Buffered(u, m)'
    /\ \A m, k : Followed(buffer'[u], m, k) /\ Once(buffer'[u], m)
    /\ \A m \in L : Load(u, m)' = Load(u, m)
    /\ \A m \in L : ~Buffered(u, m) => memory'[m] = memory[m]
    /\ \A w \in Cores, m \in L : Buffered(w, m) \/ ~Buffered(u, m) => Load(w, m)' = Load(w, m)
  BY <1>i DEF InterruptDone
<1>3. \A m : \A w \in Cores : Buffered(w, m)' => Buffered(w, m) /\ w # u
  BY DEF Buffered
<1>4. \A w \in Cores : /\ \A m, k : Followed(buffer[w], m, k) => Followed(buffer'[w], m, k)
                       /\ \A m : Once(buffer[w], m) => Once(buffer'[w], m)
  OBVIOUS
<1>5. ASSUME NEW w \in Cores, NEW e \in Entries, Buffered(w, Active(e))'
      PROVE  memory'[Active(e)] = memory[Active(e)]
  <2>1. Buffered(w, Active(e)) /\ w # u
    BY <1>3, <1>5
  <2>2. ~Buffered(u, Active(e))
    BY <2>1 DEF Ownership, ReleasedActive
  <2> QED BY <2>2, <1>0
<1>6. \A e \in Entries :
          (\A w \in Cores : ~Buffered(w, Active(e))) => memory'[Active(e)] = memory[Active(e)]
  BY <1>0
<1>7. ASSUME NEW r \in Readers, entry_[r] \in Entries
      PROVE  Load(r, Ptr(entry_[r]))' = Load(r, Ptr(entry_[r]))
  <2>0. Ptr(entry_[r])' = Ptr(entry_[r]) /\ Ptr(entry_[r]) \in L /\ r \in Cores
    BY <1>0, <1>7 DEF hazptrVars, Ptr
  <2>1. CASE r = u
    BY <2>0, <2>1
  <2>2. CASE r # u
    <3>1. ~Buffered(u, Ptr(entry_[r]))
      BY <1>7, <2>2, OwnPtr
    <3> QED BY <3>1, <2>0
  <2> QED BY <2>1, <2>2
<1>8. \A s \in Scanners, r \in Readers :
          r \in ipis[s] => r \in ipis'[s] \/ \A m : ~Buffered(r, m)'
  <2>1. \A s \in Scanners : s \in Cores
    BY DEF Scanners
  <2>2. \A s \in Cores, r \in Readers : r \in ipis[s] => r \in ipis'[s] \/ r = u
    BY DEF StoresOK
  <2> QED BY <2>1, <2>2
<1> QED BY <1>3, <1>4, <1>5, <1>6, <1>7, <1>8, MemoryFrame

\* Stores to other locations, by anybody.
LEMMA HazptrOtherStore ==
    ASSUME HazptrInv, UNCHANGED <<hazptrVars, memory, ipis>>,
           NEW t \in Cores, \A u \in Cores : u # t => buffer'[u] = buffer[u],
           \A e \in Entries : \A m \in {Active(e), Ptr(e)} :
               /\ Buffered(t, m)' <=> Buffered(t, m)
               /\ Load(t, m)' = Load(t, m)
               /\ Once(buffer[t], m) => Once(buffer'[t], m)
               /\ \A k : Followed(buffer[t], m, k) => Followed(buffer'[t], m, k)
    PROVE  HazptrInv'
<1> USE HazptrAssumption, ZenonT(40) DEF HazptrInv
<1>1. \A e \in Entries : \A u \in Cores :
          /\ Buffered(u, Active(e))' <=> Buffered(u, Active(e))
          /\ Buffered(u, Ptr(e))' <=> Buffered(u, Ptr(e))
  BY DEF Buffered
<1>2. \A e \in Entries : \A u \in Cores :
          /\ Once(buffer[u], Active(e)) => Once(buffer'[u], Active(e))
          /\ Followed(buffer[u], Ptr(e), Active(e)) => Followed(buffer'[u], Ptr(e), Active(e))
  OBVIOUS
<1>3. ASSUME NEW r \in Readers, entry_[r] \in Entries
      PROVE  Load(r, Ptr(entry_[r]))' = Load(r, Ptr(entry_[r]))
  <2>0. Ptr(entry_[r])' = Ptr(entry_[r]) /\ r \in Cores
    BY DEF hazptrVars, Ptr
  <2>1. CASE r = t
    BY <2>0, <2>1, <1>3
  <2>2. CASE r # t
    BY <2>0, <2>2 DEF Load
  <2> QED BY <2>1, <2>2
<1> QED BY <1>1, <1>2, <1>3, MemoryFrame

\* A barrier of somebody else: no other is on its way.
LEMMA HazptrOtherBarrier ==
    ASSUME NEW L, NEW V, StoresOK(L, V), HazptrInv, NEW t \in Cores, AsymmetricBarrierHeavy(t),
           UNCHANGED hazptrVars
    PROVE  HazptrInv'
<1> USE HazptrAssumption, ZenonT(40) DEF HazptrInv
<1>1. memory' = memory /\ buffer' = buffer /\ \A u \in Cores : ipis[u] = {}
  BY BarrierEffect
<1>2. \A u, m : (Buffered(u, m)' <=> Buffered(u, m)) /\ Load(u, m)' = Load(u, m)
  BY <1>1 DEF Buffered, Load
<1>3. \A s \in Scanners : s \in Cores
  BY DEF Scanners
<1>4. \A r \in Readers : Load(r, Ptr(entry_[r]))' = Load(r, Ptr(entry_[r]))
  BY <1>2 DEF hazptrVars, Ptr
<1> QED BY <1>1, <1>2, <1>3, <1>4, MemoryFrame

\* Nothing changes.
LEMMA HazptrStutter ==
    ASSUME HazptrInv, UNCHANGED <<storeVars, hazptrVars>>
    PROVE  HazptrInv'
<1>1. \A u, m : (Buffered(u, m)' <=> Buffered(u, m)) /\ Load(u, m)' = Load(u, m)
  BY Zenon DEF Buffered, Load, storeVars
<1>2. \A r \in Readers : Load(r, Ptr(entry_[r]))' = Load(r, Ptr(entry_[r]))
  BY <1>1, Zenon DEF hazptrVars, Ptr
<1> QED BY <1>1, <1>2, MemoryFrame, Zenon DEF storeVars

\* No entry, no object that has been replaced.
LEMMA HazptrBegins ==
    ASSUME NEW contents, NEW default, NEW keepCalls, NEW objects,
           StoresInit(contents), HazptrInit(default, keepCalls, objects)
    PROVE  HazptrInv
<1> USE HazptrAssumption, ZenonT(40)
<1>1. src \in Objects
  BY DEF HazptrInit, Fresh
<1>2. \A u \in Cores : \A m : ~Buffered(u, m)
  BY SMT DEF StoresInit, Buffered, Stored
<1>3. EntriesOf(<<>>) = {}
  BY SMT DEF EntriesOf
<1>4. HazptrTypes
  <2>1. <<>> \in Seq(Entries)
    BY SMT
  <2>2. walk \in [HazptrThreads -> Seq(Entries)] /\ hazptrs_ \in Seq(Entries)
    BY <2>1 DEF HazptrInit
  <2> QED BY <1>1, <2>2 DEF HazptrInit, HazptrTypes
<1>5. HazptrSteps
  BY <1>3 DEF HazptrInit, HazptrSteps, HazptrThreads, WithEntry, At
<1>6. Ownership
  BY <1>2 DEF HazptrInit, Ownership, OwnedActive, ReleasedActive, PtrStores, EntryExclusive, Owns
<1>7. Exposed /\ Scanned /\ KeptAlive
  BY DEF HazptrInit, Exposed, Scanned, KeptAlive, At, HazptrThreads
<1>8. RetiredInOnePlace
  <2>1. \A t \in Scanners : Held(t) = {}
    BY DEF HazptrInit, Held, At, HazptrThreads
  <2>2. UNION {Held(t) : t \in Scanners} = {}
    BY <2>1
  <2> QED BY <2>1, <2>2 DEF HazptrInit, RetiredInOnePlace
<1> QED BY <1>4, <1>5, <1>6, <1>7, <1>8 DEF HazptrInv

-----------------------------------------------------------------------------
(* All the steps of a thread.                                              *)

\* Whatever a reader does keeps the invariant.
LEMMA ReaderMoves ==
    ASSUME NEW L, NEW V, StoresOK(L, V), HazptrMemory(L, V), HazptrInv, NEW t \in Readers,
           ReaderStep(t) \/ GetEntryOf(t) \/ KeepAgain(t) \/ Clear(t)
    PROVE  StoresOK(L, V)' /\ HazptrInv'
<1> USE ZenonT(40)
<1>1. CASE GetEntryOf(t) \/ LoadSrc(t) \/ KeepAgain(t)
  <2>1. StoresOK(L, V)'
    BY <1>1, StoresFrame DEF GetEntryOf, LoadSrc, KeepAgain
  <2> QED BY <1>1, <2>1, GetEntryOfStep, LoadSrcStep, KeepAgainStep
<1>2. CASE TryAcquire(t) \/ GetEntrySlow(t)
  BY <1>2, TryAcquireStep, GetEntrySlowStep
<1>3. CASE Expose(t) \/ TryKeep(t) \/ Clear(t)
  BY <1>3, ExposeStep, TryKeepStep, ClearStep
<1>4. CASE Reset(t) \/ PutEntryOf(t)
  BY <1>4, ResetStep, PutEntryOfStep
<1> QED BY <1>1, <1>2, <1>3, <1>4 DEF ReaderStep

\* So does a reclamation, step by step.
LEMMA ReclaimMoves ==
    ASSUME NEW L, NEW V, StoresOK(L, V), HazptrInv, NEW t \in Scanners, ReclaimBestEffort(t)
    PROVE  StoresOK(L, V)' /\ HazptrInv'
<1> USE ZenonT(40)
<1>1. CASE StartBarrier(t)
  BY <1>1, StartBarrierStep
<1>2. CASE Grab(t) \/ LoadHazptrs(t) \/ ScanActive(t) \/ ScanPtr(t) \/ Reclaim(t)
  <2>1. StoresOK(L, V)'
    BY <1>2, StoresFrame DEF Grab, LoadHazptrs, ScanActive, ScanPtr, Reclaim
  <2> QED BY <1>2, <2>1, GrabStep, LoadHazptrsStep, ScanActiveStep, ScanPtrStep, ReclaimStep
<1> QED BY <1>1, <1>2 DEF ReclaimBestEffort

\* So does whatever a writer does.
LEMMA WriterMoves ==
    ASSUME NEW L, NEW V, StoresOK(L, V), HazptrInv, NEW t \in Writers, WriterStep(t) \/ Install(t)
    PROVE  StoresOK(L, V)' /\ HazptrInv'
<1> USE ZenonT(40)
<1>1. CASE Install(t) \/ Retire(t)
  <2>1. StoresOK(L, V)'
    BY <1>1, StoresFrame DEF Install, Retire
  <2> QED BY <1>1, <2>1, InstallStep, RetireStep
<1>2. CASE ReclaimBestEffort(t)
  BY <1>2, ReclaimMoves DEF Scanners
<1> QED BY <1>1, <1>2 DEF WriterStep
=============================================================================
