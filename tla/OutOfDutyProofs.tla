-------------------------- MODULE OutOfDutyProofs --------------------------
(***************************************************************************)
(* The biased mutex excludes, and a deleted callback is gone, for any       *)
(* number of workers, deleters and callbacks.  The argument for the mutex:  *)
(* a worker that missed the announcement of the slow side was past its look *)
(* when the heavy barrier began, so that the barrier brings its own         *)
(* announcement to memory before the slow side looks.                       *)
(***************************************************************************)
EXTENDS OutOfDutyCallback, StoreBufferProofs

\* The fields of the mutexes are among the locations of memory.
DutyMemory(L, V) ==
    /\ \A w \in Workers : Wants(w, 0) \in L /\ Wants(w, 1) \in L /\ Turn(w) \in L
    /\ {TRUE, FALSE, 0, 1} \subseteq V

Inside == {"locked", "fire", "call"}
Sweeping == {"next", "barrier", "look", "whose", "spin", "locked", "unlock"}

DutyTypes ==
    /\ callbacks \cup deleted \subseteq Callbacks /\ tls_queues \subseteq Workers
    /\ DOMAIN opc = Workers \cup Deleters
    /\ local \in [Workers -> SUBSET Callbacks] /\ due \in [Workers -> SUBSET Callbacks]
    /\ calling \in [Workers -> Callbacks \cup {None}]
    /\ handle \in [Deleters -> Callbacks \cup {None}]
    /\ sweep \in [Deleters -> SUBSET Workers]

\* What a thread has at each step.
DutySteps ==
    /\ \A w \in Workers :
           /\ opc[w] \notin {"fire", "call"} => due[w] = {}
           /\ opc[w] # "call" <=> calling[w] = None
           /\ due[w] \subseteq local[w]
           /\ w \notin tls_queues => opc[w] \in {"idle", "exit", "left"}
           /\ w \notin tls_queues /\ opc[w] = "idle" => local[w] = {}
    /\ \A d \in Deleters :
           /\ opc[d] \in Sweeping <=> init_lock_ = d
           /\ opc[d] \in Sweeping => sweep[d] \subseteq tls_queues
           /\ opc[d] \in Sweeping \ {"next"} => sweep[d] # {}
           /\ opc[d] # "idle" => handle[d] \in Callbacks \ callbacks

\* A callback has one deleter, who deletes it once.
DutyHandles ==
    /\ callbacks \cap deleted = {}
    /\ \A d \in Deleters : /\ handle[d] \notin deleted
                           /\ \A e \in Deleters : handle[d] = handle[e] /\ handle[d] # None => d = e

\* A flag is set in memory.
IsSet(l) == memory[l] = TRUE

\* Each side announces itself by its own stores.
Announced ==
    /\ \A w \in Workers :
           /\ \A u \in Cores : Buffered(u, Wants(w, 0)) => u = w
           /\ \A u \in Cores : Buffered(u, Wants(w, 1)) =>
                  u \in Deleters /\ opc[u] \in {"barrier", "spin", "unlock"} /\ w = Q(u)
           /\ opc[w] \in {"look", "whose"} \cup Inside => Load(w, Wants(w, 0)) = TRUE
    /\ \A d \in Deleters, w \in Workers : w = Q(d) =>
           /\ opc[d] = "barrier" => Load(d, Wants(w, 1)) = TRUE
           /\ opc[d] \in {"look", "whose", "locked"} => IsSet(Wants(w, 1))

\* After the barrier, the announcement of a worker that is inside is in memory.
Noticed ==
    \A d \in Deleters, w \in Workers : w = Q(d) /\ opc[d] \in {"look", "whose"} /\ opc[w] \in Inside =>
        w \in ipis[d] \/ ~Buffered(w, Wants(w, 0))

\* The biased mutex.
Mutex == Announced /\ Noticed /\ BiasedExclusion

\* No queue has a callback that is deleted, and those that the sweep has visited do not
\* have the one that is being deleted.
Clean ==
    /\ \A w \in tls_queues : deleted \cap local[w] = {} /\ calling[w] \notin deleted
    /\ \A d \in Deleters : opc[d] \in Sweeping =>
           \A w \in tls_queues : w \notin sweep[d] \/ (opc[d] = "unlock" /\ w = Q(d)) =>
               handle[d] \notin local[w] /\ calling[w] # handle[d]

\* The inductive invariant.
DutyInv == DutyTypes /\ DutySteps /\ DutyHandles /\ Mutex /\ Clean

-----------------------------------------------------------------------------
(* The mutex.                                                              *)

\* Fields of mutexes are different locations.
LEMMA LockFields ==
    \A v, w : /\ Wants(v, 0) # Wants(w, 1) /\ Wants(v, 0) # Turn(w) /\ Wants(v, 1) # Turn(w)
              /\ Wants(v, 0) = Wants(w, 0) => v = w
              /\ Wants(v, 1) = Wants(w, 1) => v = w
<1> USE ZenonT(40)
<1> SUFFICES ASSUME NEW v, NEW w
             PROVE  /\ Wants(v, 0) # Wants(w, 1) /\ Wants(v, 0) # Turn(w) /\ Wants(v, 1) # Turn(w)
                    /\ Wants(v, 0) = Wants(w, 0) => v = w
                    /\ Wants(v, 1) = Wants(w, 1) => v = w
  OBVIOUS
<1>1. \A u, j : Wants(u, j)[1] = "wants_to_enter_" /\ Wants(u, j)[2] = <<u, j>>
  BY DEF Wants
<1>2. \A u : Turn(u)[1] = "turn_"
  BY DEF Turn
<1>3. \A u, x, j, k : <<u, j>> = <<x, k>> => u = x /\ j = k
  OBVIOUS
<1>4. Wants(v, 0) # Turn(w) /\ Wants(v, 1) # Turn(w)
  BY <1>1, <1>2
<1>5. /\ Wants(v, 0)[2] = <<v, 0>> /\ Wants(w, 0)[2] = <<w, 0>>
      /\ Wants(v, 1)[2] = <<v, 1>> /\ Wants(w, 1)[2] = <<w, 1>>
  BY <1>1
<1>6. <<v, 0>> # <<w, 1>>
  BY SMT
<1> QED BY <1>3, <1>4, <1>5, <1>6, SMT

\* A deleter that is at a queue has one, and is no worker.
LEMMA AtQueue ==
    ASSUME DutyTypes, DutySteps, NEW d \in Deleters
    PROVE  /\ d \in Cores /\ d \notin Workers
           /\ sweep[d] # {} => Q(d) \in sweep[d] /\ Q(d) \in Workers
           /\ opc[d] \in Sweeping \ {"next"} => Q(d) \in sweep[d] /\ Q(d) \in Workers
<1>1. sweep[d] # {} => Q(d) \in sweep[d]
  BY Zenon DEF Q
<1> QED BY <1>1, OutOfDutyAssumption, Zenon DEF DutyTypes, DutySteps

\* A worker goes on without a store.
LEMMA WorkerQuiet ==
    ASSUME DutyTypes, Mutex, NEW w \in Workers, UNCHANGED <<storeVars, sweep>>, NEW to,
           opc' = [opc EXCEPT ![w] = to],
           to \in {"look", "whose"} \cup Inside => opc[w] \in {"look", "whose"} \cup Inside,
           to \in Inside => opc[w] \in Inside \/ ~Load(w, Wants(w, 1))
    PROVE  Mutex'
<1> USE OutOfDutyAssumption DEF Mutex
<1>0. /\ \A d \in Deleters : opc'[d] = opc[d] /\ Q(d)' = Q(d) /\ d # w
      /\ \A v \in Workers : v # w => opc'[v] = opc[v]
      /\ opc'[w] = to
  BY Zenon DEF DutyTypes, Q
<1>1. /\ \A u, m : (Buffered(u, m)' <=> Buffered(u, m)) /\ Load(u, m)' = Load(u, m)
      /\ \A m : IsSet(m)' <=> IsSet(m)
      /\ ipis' = ipis
  BY Zenon DEF storeVars, Buffered, Load, IsSet
<1>2. Announced'
  BY <1>0, <1>1 DEF Announced
<1>3. ASSUME NEW d \in Deleters, opc[d] \in {"look", "whose", "locked"}, Q(d) = w, to \in Inside
      PROVE  opc[w] \in Inside
  <2>1. memory[Wants(w, 1)] = TRUE
    BY <1>3, Zenon DEF Announced, IsSet
  <2>2. ~Buffered(w, Wants(w, 1))
    BY Zenon DEF Announced
  <2> QED BY <2>1, <2>2, <1>3, LoadMemory, Zenon
<1>4. Noticed'
  BY <1>0, <1>1, <1>3 DEF Noticed
<1>5. BiasedExclusion'
  BY <1>0, <1>3 DEF BiasedExclusion, Inside, IsAt
<1> QED BY <1>2, <1>4, <1>5, Zenon

\* A worker stores to its own fields, and is not inside then.
LEMMA WorkerStores ==
    ASSUME DutyTypes, Mutex, NEW w \in Workers, UNCHANGED <<memory, ipis, sweep>>, NEW to,
           \A u \in Cores : u # w => buffer'[u] = buffer[u],
           \A m : m \notin {Wants(w, 0), Turn(w)} => (Buffered(w, m)' <=> Buffered(w, m)),
           opc' = [opc EXCEPT ![w] = to], to \notin Inside,
           to \in {"look", "whose"} => Load(w, Wants(w, 0))' = TRUE
    PROVE  Mutex'
<1> USE OutOfDutyAssumption DEF Mutex
<1>0. /\ \A d \in Deleters : opc'[d] = opc[d] /\ Q(d)' = Q(d) /\ d # w /\ d \in Cores
      /\ \A v \in Workers : v \in Cores /\ (v # w => opc'[v] = opc[v])
      /\ opc'[w] = to
  BY Zenon DEF DutyTypes, Q
<1>1. /\ \A u \in Cores : u # w => \A m : (Buffered(u, m)' <=> Buffered(u, m)) /\ Load(u, m)' = Load(u, m)
      /\ \A m : IsSet(m)' <=> IsSet(m)
  BY Zenon DEF Buffered, Load, IsSet
<1>2. \A v \in Workers : /\ Buffered(w, Wants(v, 1))' <=> Buffered(w, Wants(v, 1))
                         /\ v # w => (Buffered(w, Wants(v, 0))' <=> Buffered(w, Wants(v, 0)))
  <2>1. \A v : Wants(v, 1) # Wants(w, 0) /\ Wants(v, 1) # Turn(w)
    BY LockFields, Zenon
  <2>2. \A v : v # w => Wants(v, 0) # Wants(w, 0) /\ Wants(v, 0) # Turn(w)
    BY LockFields, Zenon
  <2> QED BY <2>1, <2>2, Zenon
<1>3. Announced'
  BY <1>0, <1>1, <1>2 DEF Announced
<1>4. Noticed'
  BY <1>0, <1>1 DEF Noticed
<1>5. BiasedExclusion'
  BY <1>0 DEF BiasedExclusion, Inside, IsAt
<1> QED BY <1>3, <1>4, <1>5, Zenon

\* A deleter stores to the fields of the queue it is at.
LEMMA DeleterStores ==
    ASSUME DutyTypes, Mutex, NEW d \in Deleters, UNCHANGED <<memory, ipis, sweep>>, NEW to,
           \A u \in Cores : u # d => buffer'[u] = buffer[u],
           \A m : m \notin {Wants(Q(d), 1), Turn(Q(d))} => (Buffered(d, m)' <=> Buffered(d, m)),
           opc' = [opc EXCEPT ![d] = to], to \in {"barrier", "spin", "unlock"},
           to = "barrier" => \A w \in Workers : w = Q(d) => Load(d, Wants(w, 1))' = TRUE
    PROVE  Mutex'
<1> USE OutOfDutyAssumption, ZenonT(40) DEF Mutex
<1>0. /\ \A e \in Deleters : (e # d => opc'[e] = opc[e]) /\ Q(e)' = Q(e) /\ e \in Cores
      /\ \A v \in Workers : v \in Cores /\ opc'[v] = opc[v] /\ v # d
      /\ opc'[d] = to
  BY DEF DutyTypes, Q
<1>1. /\ \A u \in Cores : u # d => \A m : (Buffered(u, m)' <=> Buffered(u, m)) /\ Load(u, m)' = Load(u, m)
      /\ \A m : IsSet(m)' <=> IsSet(m)
  BY DEF Buffered, Load, IsSet
<1>2. \A v \in Workers : /\ Buffered(d, Wants(v, 0))' <=> Buffered(d, Wants(v, 0))
                         /\ v # Q(d) => (Buffered(d, Wants(v, 1))' <=> Buffered(d, Wants(v, 1)))
  <2>1. \A v : Wants(v, 0) # Wants(Q(d), 1) /\ Wants(v, 0) # Turn(Q(d))
    BY LockFields
  <2>2. \A v : v # Q(d) => Wants(v, 1) # Wants(Q(d), 1) /\ Wants(v, 1) # Turn(Q(d))
    BY LockFields
  <2> QED BY <2>1, <2>2
<1>3. Announced'
  BY <1>0, <1>1, <1>2, SMT DEF Announced
<1>4. Noticed'
  BY <1>0, <1>1 DEF Noticed
<1>5. BiasedExclusion'
  BY <1>0, SMT DEF BiasedExclusion, IsAt
<1> QED BY <1>3, <1>4, <1>5

\* A deleter with no store on its way is at no queue, or leaves one for another.
LEMMA DeleterQuiet ==
    ASSUME DutyTypes, Mutex, NEW d \in Deleters, UNCHANGED storeVars, NEW to,
           opc' = [opc EXCEPT ![d] = to], to \notin {"barrier", "look", "whose", "locked"},
           \A e \in Deleters : e # d => sweep'[e] = sweep[e],
           opc[d] \notin {"barrier", "spin", "unlock"} \/ Drained(d)
    PROVE  Mutex'
<1> USE OutOfDutyAssumption DEF Mutex
<1> /\ \A e \in Deleters : (e # d => opc'[e] = opc[e] /\ Q(e)' = Q(e)) /\ e \in Cores
    /\ \A v \in Workers : v \in Cores /\ opc'[v] = opc[v] /\ v # d
    /\ opc'[d] = to
  BY Zenon DEF DutyTypes, Q
<1>1. /\ \A u, m : (Buffered(u, m)' <=> Buffered(u, m)) /\ Load(u, m)' = Load(u, m)
      /\ \A m : IsSet(m)' <=> IsSet(m)
      /\ ipis' = ipis
  BY Zenon DEF storeVars, Buffered, Load, IsSet
<1>2. \A w \in Workers : ~Buffered(d, Wants(w, 1))
  <2>1. CASE Drained(d)
    BY <2>1 DEF Drained, Buffered, Stored
  <2>2. CASE opc[d] \notin {"barrier", "spin", "unlock"}
    BY <2>2, Zenon DEF Announced
  <2> QED BY <2>1, <2>2, Zenon
<1>3. Announced'
  BY <1>1, <1>2 DEF Announced
<1>4. Noticed'
  BY <1>1, Zenon DEF Noticed
<1>5. BiasedExclusion'
  BY DEF BiasedExclusion, IsAt
<1> QED BY <1>3, <1>4, <1>5, Zenon

\* The heavy barrier of the slow side.
LEMMA SlowBarrierMutex ==
    ASSUME NEW L, NEW V, StoresOK(L, V), DutyTypes, Mutex, NEW d \in Deleters, SlowBarrier(d)
    PROVE  StoresOK(L, V)' /\ Mutex'
<1> USE OutOfDutyAssumption, ZenonT(40) DEF Mutex
<1> /\ \A e \in Deleters : (e # d => opc'[e] = opc[e]) /\ Q(e)' = Q(e) /\ e \in Cores
    /\ \A v \in Workers : v \in Cores /\ opc'[v] = opc[v] /\ v # d
    /\ opc[d] = "barrier" /\ opc'[d] = "look"
  BY DEF SlowBarrier, IsAt, Goto, DutyTypes, Q, deleterVars
<1> /\ StoresOK(L, V)' /\ memory' = memory /\ buffer' = buffer
    /\ \A u \in Cores : ipis[u] = {} /\ (u # d => ipis'[u] = {})
    /\ \A m : ~Buffered(d, m)
    /\ \A m : \A u \in Cores : u \notin ipis'[d] => ~Buffered(u, m)
  BY BarrierEffect DEF SlowBarrier
<1>2. /\ \A u, m : (Buffered(u, m)' <=> Buffered(u, m)) /\ Load(u, m)' = Load(u, m)
      /\ \A m : IsSet(m)' <=> IsSet(m)
  BY DEF Buffered, Load, IsSet
<1>3. \A w \in Workers : w = Q(d) => IsSet(Wants(w, 1))
  BY LoadMemory, SMT DEF Announced, IsSet
<1>4. Announced'
  BY <1>2, <1>3, SMT DEF Announced
<1>5. Noticed'
  BY <1>2 DEF Noticed
<1>6. BiasedExclusion'
  BY DEF BiasedExclusion, IsAt
<1> QED BY <1>4, <1>5, <1>6

\* The slow side looks, or looks again: an owner who is inside would be seen.
LEMMA SlowLookMutex ==
    ASSUME DutyTypes, Mutex, NEW d \in Deleters, UNCHANGED <<storeVars, sweep>>, NEW to,
           opc' = [opc EXCEPT ![d] = to], opc[d] \in {"look", "whose"}, to \in {"look", "whose", "locked"},
           to = "locked" => ipis[d] = {} /\ ~Load(d, Wants(Q(d), 0))
    PROVE  Mutex'
<1> USE OutOfDutyAssumption, ZenonT(40) DEF Mutex
<1> /\ \A e \in Deleters : (e # d => opc'[e] = opc[e]) /\ Q(e)' = Q(e) /\ e \in Cores
    /\ \A v \in Workers : v \in Cores /\ opc'[v] = opc[v] /\ v # d
    /\ opc'[d] = to
  BY DEF DutyTypes, Q
<1>1. /\ \A u, m : (Buffered(u, m)' <=> Buffered(u, m)) /\ Load(u, m)' = Load(u, m)
      /\ \A m : IsSet(m)' <=> IsSet(m)
      /\ ipis' = ipis
  BY DEF storeVars, Buffered, Load, IsSet
<1>2. Announced'
  BY <1>1, SMT DEF Announced
<1>3. Noticed'
  BY <1>1 DEF Noticed
<1>4. ASSUME NEW w \in Workers, w = Q(d), opc[w] \in Inside, to = "locked"
      PROVE  FALSE
  <2>1. ~Buffered(w, Wants(w, 0)) /\ Load(w, Wants(w, 0)) = TRUE
    BY <1>4 DEF Noticed, Announced
  <2>2. ~Buffered(d, Wants(w, 0))
    BY DEF Announced
  <2>3. Load(d, Wants(w, 0)) = TRUE
    BY <2>1, <2>2, LoadMemory, SMT
  <2> QED BY <2>3, <1>4
<1>5. BiasedExclusion'
  BY <1>4, SMT DEF BiasedExclusion, Inside, IsAt
<1> QED BY <1>2, <1>3, <1>5

\* Stores that reach memory, and those to other locations.
LEMMA MutexMemory ==
    ASSUME Mutex, UNCHANGED <<opc, sweep>>,
           \A u \in Cores, w \in Workers :
               /\ Buffered(u, Wants(w, 0))' => Buffered(u, Wants(w, 0))
               /\ Buffered(u, Wants(w, 1))' => Buffered(u, Wants(w, 1)),
           \A w \in Workers : Load(w, Wants(w, 0))' = Load(w, Wants(w, 0)),
           \A d \in Deleters, w \in Workers : w = Q(d) =>
               /\ opc[d] = "barrier" => Load(d, Wants(w, 1))' = Load(d, Wants(w, 1))
               /\ opc[d] \in {"look", "whose", "locked"} => (IsSet(Wants(w, 1)) => IsSet(Wants(w, 1))'),
           \A d \in Deleters, w \in Workers :
               w \in ipis[d] => w \in ipis'[d] \/ ~Buffered(w, Wants(w, 0))'
    PROVE  Mutex'
<1> USE OutOfDutyAssumption DEF Mutex
<1> \A d \in Deleters : Q(d)' = Q(d)
  BY Zenon DEF Q
<1>1. Announced'
  BY DEF Announced
<1>2. Noticed'
  BY Zenon DEF Noticed
<1>3. BiasedExclusion'
  BY Zenon DEF BiasedExclusion, IsAt
<1> QED BY <1>1, <1>2, <1>3, Zenon

\* Only the holder of the lock of tls_queues is on its way to be the slow side.
LEMMA SoleAnnouncer ==
    ASSUME DutySteps, Mutex, NEW d \in Deleters, opc[d] \in Sweeping, NEW w \in Workers,
           NEW u \in Cores, Buffered(u, Wants(w, 1))
    PROVE  u = d /\ opc[d] \in {"barrier", "spin", "unlock"}
<1>1. u \in Deleters /\ opc[u] \in {"barrier", "spin", "unlock"}
  BY Zenon DEF Mutex, Announced
<1>2. init_lock_ = u /\ init_lock_ = d
  BY <1>1, Zenon DEF DutySteps, Sweeping
<1> QED BY <1>1, <1>2, Zenon

-----------------------------------------------------------------------------
(* Memory.                                                                 *)

\* Queues and callbacks stay what they are.
LEMMA DataFrame ==
    ASSUME DutyInv, UNCHANGED dutyVars
    PROVE  DutyTypes' /\ DutySteps' /\ DutyHandles' /\ Clean'
<1> USE ZenonT(40) DEF DutyInv, dutyVars
<1>1. DutyTypes' /\ DutySteps' /\ DutyHandles'
  BY DEF DutyTypes, DutySteps, DutyHandles
<1>2. \A d \in Deleters : Q(d)' = Q(d)
  BY DEF Q
<1>3. Clean'
  BY <1>2 DEF Clean
<1> QED BY <1>1, <1>3

\* A store that reaches memory changes nothing for its thread.
LEMMA DutyDrain ==
    ASSUME NEW L, NEW V, StoresOK(L, V), DutyMemory(L, V), DutyInv, NEW t \in Cores, Drain(t),
           UNCHANGED dutyVars
    PROVE  DutyInv'
<1> USE OutOfDutyAssumption, ZenonT(40) DEF DutyInv
<1>0. \A w \in Workers : Wants(w, 0) \in L /\ Wants(w, 1) \in L /\ w \in Cores
  BY DEF DutyMemory
<1>d. DrainDone(L, t)
  BY DrainEffect
<1> /\ ipis' = ipis
    /\ \A u \in Cores : u # t => buffer'[u] = buffer[u]
    /\ \A m : Buffered(t, m)' => Buffered(t, m)
    /\ \A m \in L : Load(t, m)' = Load(t, m)
  BY <1>d DEF DrainDone
<1> PICK l \in L :
        /\ Buffered(t, l)
        /\ \A m \in L : m # l => memory'[m] = memory[m]
        /\ \A u \in Cores, m \in L :
               u # t /\ (m # l \/ Buffered(u, m)) => Load(u, m)' = Load(u, m)
  BY <1>d DEF DrainDone
<1>3. \A m : \A u \in Cores : Buffered(u, m)' => Buffered(u, m)
  BY DEF Buffered
<1>4. \A w \in Workers : Load(w, Wants(w, 0))' = Load(w, Wants(w, 0))
  BY <1>0, SMT DEF Mutex, Announced
<1>5. ASSUME NEW d \in Deleters, NEW w \in Workers, opc[d] = "barrier"
      PROVE  Load(d, Wants(w, 1))' = Load(d, Wants(w, 1))
  BY <1>5, <1>0, SoleAnnouncer, SMT DEF Sweeping
<1>6. ASSUME NEW d \in Deleters, NEW w \in Workers, opc[d] \in {"look", "whose", "locked"}
      PROVE  IsSet(Wants(w, 1)) => IsSet(Wants(w, 1))'
  <2>1. l # Wants(w, 1)
    BY <1>6, SoleAnnouncer, SMT DEF Sweeping
  <2>2. \A m \in L : m # l => (IsSet(m) => IsSet(m)')
    BY DEF IsSet
  <2> QED BY <2>1, <2>2, <1>0
<1>7. Mutex'
  BY <1>3, <1>4, <1>5, <1>6, MutexMemory DEF dutyVars
<1> QED BY <1>7, DataFrame

\* Nor do all of them that an interrupt brings there; the barrier has one core less to wait for.
LEMMA DutyInterrupt ==
    ASSUME NEW L, NEW V, StoresOK(L, V), DutyMemory(L, V), DutyInv,
           NEW t \in Cores, NEW u \in Cores, Interrupt(t, u), UNCHANGED dutyVars
    PROVE  DutyInv'
<1> USE OutOfDutyAssumption, ZenonT(40) DEF DutyInv
<1>0. \A w \in Workers : Wants(w, 0) \in L /\ Wants(w, 1) \in L /\ w \in Cores
  BY DEF DutyMemory
<1>i. InterruptDone(L, t, u)
  BY InterruptEffect
<1> /\ ipis' = [ipis EXCEPT ![t] = @ \ {u}]
    /\ \A w \in Cores : w # u => buffer'[w] = buffer[w]
    /\ \A m : ~Buffered(u, m)'
    /\ \A m \in L : Load(u, m)' = Load(u, m)
    /\ \A m \in L : ~Buffered(u, m) => memory'[m] = memory[m]
    /\ \A w \in Cores, m \in L : Buffered(w, m) \/ ~Buffered(u, m) => Load(w, m)' = Load(w, m)
  BY <1>i DEF InterruptDone
<1>3. \A m : \A w \in Cores : Buffered(w, m)' => Buffered(w, m)
  BY DEF Buffered
<1>4. \A w \in Workers : Load(w, Wants(w, 0))' = Load(w, Wants(w, 0))
  BY <1>0 DEF Mutex, Announced
<1>5. ASSUME NEW d \in Deleters, NEW w \in Workers, opc[d] = "barrier"
      PROVE  Load(d, Wants(w, 1))' = Load(d, Wants(w, 1))
  BY <1>5, <1>0, SoleAnnouncer, SMT DEF Sweeping
<1>6. ASSUME NEW d \in Deleters, NEW w \in Workers, opc[d] \in {"look", "whose", "locked"}
      PROVE  IsSet(Wants(w, 1)) => IsSet(Wants(w, 1))'
  <2>1. ~Buffered(u, Wants(w, 1))
    BY <1>6, SoleAnnouncer DEF Sweeping
  <2>2. \A m \in L : ~Buffered(u, m) => (IsSet(m) => IsSet(m)')
    BY DEF IsSet
  <2> QED BY <2>1, <2>2, <1>0
<1>7. \A d \in Deleters, w \in Workers :
          w \in ipis[d] => w \in ipis'[d] \/ ~Buffered(w, Wants(w, 0))'
  <2>1. \A d \in Deleters, w \in Workers : w \in ipis[d] => w \in ipis'[d] \/ w = u
    BY DEF StoresOK
  <2> QED BY <2>1
<1>8. Mutex'
  BY <1>3, <1>4, <1>5, <1>6, <1>7, MutexMemory DEF dutyVars
<1> QED BY <1>8, DataFrame

\* Stores and exchanges at other locations, by anybody.
LEMMA DutyOtherStore ==
    ASSUME DutyInv, UNCHANGED <<dutyVars, ipis>>,
           \A w \in Workers : \A m \in {Wants(w, 0), Wants(w, 1)} :
               /\ memory'[m] = memory[m]
               /\ \A u \in Cores : Buffered(u, m)' => Buffered(u, m)
               /\ \A u \in Cores : Load(u, m)' = Load(u, m)
    PROVE  DutyInv'
<1> USE OutOfDutyAssumption, ZenonT(40) DEF DutyInv
<1>1. \A w \in Workers : IsSet(Wants(w, 1)) => IsSet(Wants(w, 1))'
  <2>1. \A m : memory'[m] = memory[m] => (IsSet(m) => IsSet(m)')
    BY DEF IsSet
  <2> QED BY <2>1
<1>2. Mutex'
  BY <1>1, MutexMemory DEF dutyVars
<1> QED BY <1>2, DataFrame

\* A barrier of somebody else: no other is on its way.
LEMMA DutyOtherBarrier ==
    ASSUME NEW L, NEW V, StoresOK(L, V), DutyInv, NEW t \in Cores, AsymmetricBarrierHeavy(t),
           UNCHANGED dutyVars
    PROVE  DutyInv'
<1> USE OutOfDutyAssumption, ZenonT(40) DEF DutyInv
<1>1. memory' = memory /\ buffer' = buffer /\ \A u \in Cores : ipis[u] = {}
  BY BarrierEffect
<1>2. /\ \A u, m : (Buffered(u, m)' <=> Buffered(u, m)) /\ Load(u, m)' = Load(u, m)
      /\ \A m : IsSet(m)' <=> IsSet(m)
  BY <1>1 DEF Buffered, Load, IsSet
<1>3. Mutex'
  BY <1>1, <1>2, MutexMemory DEF dutyVars
<1> QED BY <1>3, DataFrame

\* Nothing changes.
LEMMA DutyStutter ==
    ASSUME DutyInv, UNCHANGED <<storeVars, dutyVars>>
    PROVE  DutyInv'
BY DutyOtherStore, Zenon DEF storeVars, Buffered, Load

-----------------------------------------------------------------------------
(* Workers.                                                                *)

\* A worker works on its own copy, which gets nothing but what the global list has.
LEMMA WorkerData ==
    ASSUME DutyInv, NEW w \in Workers, UNCHANGED <<globalVars, tls_queues, deleterVars>>, NEW to,
           opc' = [opc EXCEPT ![w] = to],
           local' \in [Workers -> SUBSET Callbacks], due' \in [Workers -> SUBSET Callbacks],
           calling' \in [Workers -> Callbacks \cup {None}],
           \A v \in Workers : v # w => local'[v] = local[v] /\ due'[v] = due[v] /\ calling'[v] = calling[v],
           to \notin {"fire", "call"} => due'[w] = {}, to # "call" <=> calling'[w] = None,
           due'[w] \subseteq local'[w],
           w \notin tls_queues => to \in {"exit", "left"},
           w \in tls_queues =>
               /\ local'[w] \subseteq local[w] \cup {calling[w]} \cup callbacks
               /\ calling'[w] \in local[w] \cup {calling[w], None}
    PROVE  DutyTypes' /\ DutySteps' /\ DutyHandles' /\ Clean'
<1> USE OutOfDutyAssumption DEF DutyInv, globalVars, deleterVars
<1>1. DutyTypes'
  BY Zenon DEF DutyTypes
<1>2. /\ \A d \in Deleters : opc'[d] = opc[d] /\ Q(d)' = Q(d) /\ d # w
      /\ \A v \in Workers : v # w => opc'[v] = opc[v]
      /\ opc'[w] = to
  BY DEF DutyTypes, Q
<1>3. DutySteps'
  BY <1>2 DEF DutyTypes, DutySteps
<1>4. DutyHandles'
  BY Zenon DEF DutyHandles
<1>5. Clean'
  <2>1. None \notin deleted /\ \A d \in Deleters : opc[d] \in Sweeping => handle[d] \in Callbacks \ callbacks
    BY Zenon DEF DutyTypes, DutySteps, Sweeping
  <2>2. \A v \in tls_queues : deleted \cap local'[v] = {} /\ calling'[v] \notin deleted
    BY <2>1 DEF Clean, DutyTypes, DutyHandles
  <2>3. ASSUME NEW d \in Deleters, opc[d] \in Sweeping, NEW v \in tls_queues,
               v \notin sweep[d] \/ (opc[d] = "unlock" /\ v = Q(d))
        PROVE  handle[d] \notin local'[v] /\ calling'[v] # handle[d]
    <3>1. handle[d] \notin local[v] /\ calling[v] # handle[d] /\ handle[d] \notin callbacks /\ handle[d] # None
      BY <2>1, <2>3 DEF Clean
    <3> QED BY <3>1, Zenon DEF DutyTypes
  <2> QED BY <2>2, <2>3, <1>2 DEF Clean
<1> QED BY <1>1, <1>3, <1>4, <1>5, Zenon

\* Announcing, and giving way.
LEMMA WorkerStoreStep ==
    ASSUME NEW L, NEW V, StoresOK(L, V), DutyMemory(L, V), DutyInv, NEW w \in Workers, w \in tls_queues,
           opc[w] \notin {"fire", "call"}, NEW v \in V, NEW to, Store(w, Wants(w, 0), v),
           opc' = [opc EXCEPT ![w] = to], to \in {"look", "spin"}, to = "look" => v = TRUE,
           UNCHANGED <<globalVars, tlsVars, workerVars, deleterVars>>
    PROVE  StoresOK(L, V)' /\ DutyInv'
<1> USE OutOfDutyAssumption, ZenonT(40) DEF DutyInv
<1>0. w \in Cores /\ Wants(w, 0) \in L
  BY SMT DEF DutyMemory
<1>1. /\ StoresOK(L, V)' /\ memory' = memory /\ ipis' = ipis
      /\ \A u \in Cores : u # w => buffer'[u] = buffer[u]
      /\ \A m : Buffered(w, m)' <=> Buffered(w, m) \/ m = Wants(w, 0)
      /\ Load(w, Wants(w, 0))' = v
  <2>s. StoresOK(L, V)' /\ StoreDone(w, Wants(w, 0), v)
    BY <1>0, StoreEffect
  <2> QED BY <2>s DEF StoreDone
<1>2. Mutex'
  BY <1>0, <1>1, WorkerStores DEF deleterVars, Inside
<1>3. DutyTypes' /\ DutySteps' /\ DutyHandles' /\ Clean'
  BY WorkerData DEF DutyTypes, DutySteps, tlsVars, workerVars
<1> QED BY <1>1, <1>2, <1>3

\* Announce: BlessedSide::lock stores its flag.
LEMMA AnnounceStep ==
    ASSUME NEW L, NEW V, StoresOK(L, V), DutyMemory(L, V), DutyInv, NEW w \in Workers, Announce(w)
    PROVE  StoresOK(L, V)' /\ DutyInv'
<1>1. PICK v \in V : v = TRUE /\ Store(w, Wants(w, 0), v)
  BY Zenon DEF Announce, DutyMemory
<1> QED BY <1>1, WorkerStoreStep, Zenon DEF Announce, IsAt, Goto

\* Spin: it stores its flag again when the turn is its own.
LEMMA SpinStep ==
    ASSUME NEW L, NEW V, StoresOK(L, V), DutyMemory(L, V), DutyInv, NEW w \in Workers, Spin(w)
    PROVE  StoresOK(L, V)' /\ DutyInv'
<1>1. PICK v \in V : v = TRUE /\ Store(w, Wants(w, 0), v)
  BY Zenon DEF Spin, DutyMemory
<1>2. w \in tls_queues
  BY Zenon DEF Spin, IsAt, DutyInv, DutySteps
<1> QED BY <1>1, <1>2, WorkerStoreStep, Zenon DEF Spin, IsAt, Goto

\* Whose: it takes its flag back when it is not its turn.
LEMMA WhoseStep ==
    ASSUME NEW L, NEW V, StoresOK(L, V), DutyMemory(L, V), DutyInv, NEW w \in Workers, Whose(w)
    PROVE  StoresOK(L, V)' /\ DutyInv'
<1> USE ZenonT(40)
<1> w \in tls_queues /\ opc[w] = "whose"
  BY DEF Whose, IsAt, DutyInv, DutySteps
<1>2. CASE Load(w, Turn(w)) # 0
  <2>1. PICK v \in V : Store(w, Wants(w, 0), v)
    BY <1>2 DEF Whose, DutyMemory
  <2> QED BY <1>2, <2>1, WorkerStoreStep DEF Whose, Goto
<1>3. CASE Load(w, Turn(w)) = 0
  <2> UNCHANGED <<storeVars, globalVars, tlsVars, workerVars, deleterVars>> /\ opc' = [opc EXCEPT ![w] = "look"]
    BY <1>3 DEF Whose, Goto
  <2>2. Mutex'
    BY WorkerQuiet DEF DutyInv, deleterVars, Inside
  <2>3. DutyTypes' /\ DutySteps' /\ DutyHandles' /\ Clean'
    BY WorkerData DEF DutyInv, DutyTypes, DutySteps, tlsVars, workerVars
  <2> QED BY <2>2, <2>3 DEF DutyInv, StoresOK, storeVars
<1> QED BY <1>2, <1>3

\* The steps without a store.
LEMMA WorkerQuietStep ==
    ASSUME NEW L, NEW V, StoresOK(L, V), DutyInv, NEW w \in Workers,
           Look(w) \/ Refresh(w) \/ Fire(w) \/ Called(w) \/ DestroyQueue(w)
    PROVE  StoresOK(L, V)' /\ DutyInv'
<1> USE OutOfDutyAssumption, ZenonT(40) DEF IsAt, Goto
<1>0. UNCHANGED <<storeVars, globalVars, tls_queues, deleterVars>>
  BY DEF Look, Refresh, Fire, Called, DestroyQueue, tlsVars
<1>1. StoresOK(L, V)'
  BY <1>0 DEF StoresOK, storeVars
<1>2. CASE Look(w)
  <2>1. PICK to \in {"whose", "locked"} : /\ opc' = [opc EXCEPT ![w] = to] /\ opc[w] = "look"
                                          /\ to = "locked" => ~Load(w, Wants(w, 1))
    BY <1>2 DEF Look
  <2>2. Mutex'
    BY <1>0, <2>1, WorkerQuiet DEF DutyInv, deleterVars, Inside
  <2>3. DutyTypes' /\ DutySteps' /\ DutyHandles' /\ Clean'
    BY <1>0, <1>2, <2>1, WorkerData DEF Look, DutyInv, DutyTypes, DutySteps, tlsVars, workerVars
  <2> QED BY <1>1, <2>2, <2>3 DEF DutyInv
<1>3. CASE Refresh(w)
  <2> /\ opc[w] = "locked" /\ opc' = [opc EXCEPT ![w] = "fire"] /\ calling' = calling
      /\ local' \in {local, [local EXCEPT ![w] = callbacks]}
    BY <1>3 DEF Refresh
  <2>2. PICK d \in SUBSET local'[w] : due' = [due EXCEPT ![w] = d]
    BY <1>3 DEF Refresh
  <2>3. Mutex'
    BY <1>0, WorkerQuiet DEF DutyInv, deleterVars, Inside
  <2>4. /\ local' \in [Workers -> SUBSET Callbacks] /\ local'[w] \subseteq local[w] \cup callbacks
        /\ \A v \in Workers : v # w => local'[v] = local[v]
    BY SMT DEF DutyInv, DutyTypes
  <2>5. due' \in [Workers -> SUBSET Callbacks] /\ due'[w] = d /\ \A v \in Workers : v # w => due'[v] = due[v]
    BY <2>2, <2>4 DEF DutyInv, DutyTypes
  <2>6. /\ d \subseteq local'[w] /\ w \in tls_queues /\ calling[w] = None
        /\ calling \in [Workers -> Callbacks \cup {None}]
    BY <2>2 DEF DutyInv, DutyTypes, DutySteps
  <2>7. DutyTypes' /\ DutySteps' /\ DutyHandles' /\ Clean'
    BY <1>0, <2>4, <2>5, <2>6, WorkerData
  <2> QED BY <1>1, <2>3, <2>7 DEF DutyInv
<1>4. CASE Fire(w)
  <2>1. PICK c \in due[w] : /\ due' = [due EXCEPT ![w] = @ \ {c}] /\ local' = [local EXCEPT ![w] = @ \ {c}]
                            /\ calling' = [calling EXCEPT ![w] = c]
    BY <1>4 DEF Fire
  <2> opc[w] = "fire" /\ opc' = [opc EXCEPT ![w] = "call"]
    BY <1>4 DEF Fire
  <2>3. Mutex'
    BY <1>0, WorkerQuiet DEF DutyInv, deleterVars, Inside
  <2>4. c \in Callbacks /\ c \in local[w] /\ w \in tls_queues
    BY DEF DutyInv, DutyTypes, DutySteps
  <2>5. /\ local' \in [Workers -> SUBSET Callbacks] /\ due' \in [Workers -> SUBSET Callbacks]
        /\ calling' \in [Workers -> Callbacks \cup {None}] /\ calling'[w] = c /\ c # None
        /\ \A v \in Workers : v # w => local'[v] = local[v] /\ due'[v] = due[v] /\ calling'[v] = calling[v]
    BY <2>1, <2>4 DEF DutyInv, DutyTypes
  <2>6. due'[w] \subseteq local'[w] /\ local'[w] \subseteq local[w]
    BY <2>1 DEF DutyInv, DutyTypes, DutySteps
  <2>7. DutyTypes' /\ DutySteps' /\ DutyHandles' /\ Clean'
    BY <1>0, <2>4, <2>5, <2>6, WorkerData
  <2> QED BY <1>1, <2>3, <2>7 DEF DutyInv
<1>5. CASE Called(w)
  <2> /\ opc[w] = "call" /\ opc' = [opc EXCEPT ![w] = "fire"] /\ due' = due
      /\ local' = [local EXCEPT ![w] = @ \cup {calling[w]}] /\ calling' = [calling EXCEPT ![w] = None]
    BY <1>5 DEF Called
  <2>2. Mutex'
    BY <1>0, WorkerQuiet DEF DutyInv, deleterVars, Inside
  <2>3. calling[w] \in Callbacks /\ w \in tls_queues
    BY SMT DEF DutyInv, DutyTypes, DutySteps
  <2>4. /\ local' \in [Workers -> SUBSET Callbacks] /\ due' \in [Workers -> SUBSET Callbacks]
        /\ calling' \in [Workers -> Callbacks \cup {None}] /\ calling'[w] = None
        /\ \A v \in Workers : v # w => local'[v] = local[v] /\ due'[v] = due[v] /\ calling'[v] = calling[v]
    BY <2>3 DEF DutyInv, DutyTypes
  <2>5. due'[w] \subseteq local'[w] /\ local'[w] = local[w] \cup {calling[w]}
    BY DEF DutyInv, DutyTypes, DutySteps
  <2>6. DutyTypes' /\ DutySteps' /\ DutyHandles' /\ Clean'
    BY <1>0, <2>3, <2>4, <2>5, WorkerData
  <2> QED BY <1>1, <2>2, <2>6 DEF DutyInv
<1>6. CASE DestroyQueue(w)
  <2>1. /\ opc[w] = "exit" /\ opc' = [opc EXCEPT ![w] = "left"] /\ due' = due /\ calling' = calling
        /\ local' = [local EXCEPT ![w] = {}]
    BY <1>6 DEF DestroyQueue, workerVars
  <2>2. Mutex'
    BY <1>0, <2>1, WorkerQuiet DEF DutyInv, deleterVars, Inside
  <2>3. DutyTypes' /\ DutySteps' /\ DutyHandles' /\ Clean'
    BY <1>0, <2>1, WorkerData DEF DutyInv, DutyTypes, DutySteps
  <2> QED BY <1>1, <2>2, <2>3 DEF DutyInv
<1> QED BY <1>2, <1>3, <1>4, <1>5, <1>6

\* BlessedUnlock: the turn goes to the slow side, and the announcement is taken back.
LEMMA BlessedUnlockStep ==
    ASSUME NEW L, NEW V, StoresOK(L, V), DutyMemory(L, V), DutyInv, NEW w \in Workers, BlessedUnlock(w)
    PROVE  StoresOK(L, V)' /\ DutyInv'
<1> USE OutOfDutyAssumption, ZenonT(40) DEF DutyInv
<1>1. PICK v \in V, x \in V : StoreTwo(w, Turn(w), v, Wants(w, 0), x)
  BY DEF BlessedUnlock, DutyMemory
<1>2. w \in Cores /\ Turn(w) \in L /\ Wants(w, 0) \in L /\ Turn(w) # Wants(w, 0)
  BY LockFields, SMT DEF DutyMemory
<1>3. /\ StoresOK(L, V)' /\ memory' = memory /\ ipis' = ipis
      /\ \A u \in Cores : u # w => buffer'[u] = buffer[u]
      /\ \A m : Buffered(w, m)' <=> Buffered(w, m) \/ m \in {Turn(w), Wants(w, 0)}
  <2>s. StoresOK(L, V)' /\ StoreTwoDone(w, Turn(w), v, Wants(w, 0), x)
    BY <1>1, <1>2, StoreTwoEffect
  <2> QED BY <2>s DEF StoreTwoDone
<1>4. /\ opc[w] = "fire" /\ due[w] = {} /\ opc' = [opc EXCEPT ![w] = "idle"] /\ w \in tls_queues
      /\ UNCHANGED <<globalVars, tlsVars, workerVars, deleterVars>>
  BY DEF BlessedUnlock, IsAt, Goto, DutySteps
<1>5. Mutex'
  BY <1>3, <1>4, WorkerStores DEF deleterVars, Inside
<1>6. DutyTypes' /\ DutySteps' /\ DutyHandles' /\ Clean'
  BY <1>4, WorkerData DEF DutyTypes, DutySteps, tlsVars, workerVars
<1> QED BY <1>3, <1>5, <1>6

\* CreateQueue and LeaveQueues: nobody sweeps, and a new queue is empty.
LEMMA QueuesStep ==
    ASSUME NEW L, NEW V, StoresOK(L, V), DutyInv, NEW w \in Workers, CreateQueue(w) \/ LeaveQueues(w)
    PROVE  StoresOK(L, V)' /\ DutyInv'
<1> USE OutOfDutyAssumption, ZenonT(40) DEF DutyInv
<1> /\ UNCHANGED <<storeVars, globalVars, local, workerVars, deleterVars>>
    /\ init_lock_ = "free" /\ opc[w] = "idle"
  BY DEF CreateQueue, LeaveQueues, IsAt
<1>1. StoresOK(L, V)'
  BY DEF StoresOK, storeVars
<1>2. /\ \A d \in Deleters : opc[d] \notin Sweeping
      /\ due[w] = {} /\ calling[w] = None /\ (w \notin tls_queues => local[w] = {})
  BY DEF DutySteps
<1>3. CASE CreateQueue(w)
  <2> tls_queues' = tls_queues \cup {w} /\ opc' = opc
    BY <1>3 DEF CreateQueue
  <2>2. Mutex'
    BY MutexMemory DEF storeVars, deleterVars, Buffered, Load, IsSet
  <2>3. DutyTypes' /\ DutySteps' /\ DutyHandles'
    BY <1>2 DEF globalVars, workerVars, deleterVars, DutyTypes, DutySteps, DutyHandles
  <2>4. None \notin deleted /\ w \notin tls_queues
    BY <1>3 DEF DutyTypes, CreateQueue
  <2>5. Clean'
    BY <1>2, <2>4 DEF globalVars, workerVars, deleterVars, Clean
  <2> QED BY <1>1, <2>2, <2>3, <2>5
<1>4. CASE LeaveQueues(w)
  <2> tls_queues' = tls_queues \ {w} /\ opc' = [opc EXCEPT ![w] = "exit"]
    BY <1>4 DEF LeaveQueues, Goto
  <2>2. Mutex'
    BY WorkerQuiet DEF deleterVars, Inside
  <2>3. /\ \A d \in Deleters : opc'[d] = opc[d]
        /\ opc'[w] = "exit" /\ \A v \in Workers : v # w => opc'[v] = opc[v]
    BY DEF DutyTypes
  <2>4. DutyTypes' /\ DutyHandles'
    BY DEF globalVars, workerVars, deleterVars, DutyTypes, DutyHandles
  <2>5. DutySteps'
    BY <1>2, <2>3, SMT DEF globalVars, workerVars, deleterVars, DutySteps
  <2>6. Clean'
    BY <1>2, <2>3 DEF globalVars, workerVars, deleterVars, Clean
  <2> QED BY <1>1, <2>2, <2>4, <2>5, <2>6
<1> QED BY <1>3, <1>4

\* Whatever a worker does keeps the invariant.
LEMMA WorkerMoves ==
    ASSUME NEW L, NEW V, StoresOK(L, V), DutyMemory(L, V), DutyInv, NEW w \in Workers,
           WorkerStep(w) \/ Announce(w) \/ CreateQueue(w) \/ LeaveQueues(w)
    PROVE  StoresOK(L, V)' /\ DutyInv'
BY WhoseStep, SpinStep, AnnounceStep, WorkerQuietStep, BlessedUnlockStep, QueuesStep, Zenon DEF WorkerStep

-----------------------------------------------------------------------------
(* Deleters.                                                               *)

\* A deleter goes on at the queue that it visits.
LEMMA DeleterData ==
    ASSUME DutyInv, NEW d \in Deleters, UNCHANGED <<globalVars, tlsVars, workerVars, deleterVars>>,
           NEW to, opc' = [opc EXCEPT ![d] = to], opc[d] \in Sweeping, sweep[d] # {},
           to \in Sweeping \ {"unlock"}
    PROVE  DutyTypes' /\ DutySteps' /\ DutyHandles' /\ Clean'
<1> USE OutOfDutyAssumption DEF DutyInv, globalVars, tlsVars, workerVars, deleterVars
<1>1. /\ opc'[d] = to /\ \A e \in Deleters : e # d => opc'[e] = opc[e]
      /\ \A e \in Deleters : Q(e)' = Q(e)
      /\ \A w \in Workers : opc'[w] = opc[w]
  BY Zenon DEF DutyTypes, Q
<1>2. DutyTypes' /\ DutyHandles'
  BY Zenon DEF DutyTypes, DutyHandles
<1>3. DutySteps'
  <2>1. handle[d] \in Callbacks \ callbacks /\ init_lock_ = d /\ sweep[d] \subseteq tls_queues
    BY Zenon DEF DutySteps, Sweeping
  <2> QED BY <1>1, <2>1 DEF DutySteps
<1>4. Clean'
  BY <1>1 DEF Clean
<1> QED BY <1>2, <1>3, <1>4, Zenon

\* What a deleter that goes to `to' leaves alone, and what its sweep has cleaned.
DeleterGoes(d, to) ==
    /\ opc' = [opc EXCEPT ![d] = to] /\ UNCHANGED <<tls_queues, workerVars>>
    /\ local' \in [Workers -> SUBSET Callbacks]
    /\ \A w \in Workers : due[w] \subseteq local'[w] /\ local'[w] \subseteq local[w]
    /\ callbacks' \subseteq callbacks /\ deleted' \subseteq Callbacks
    /\ handle' \in [Deleters -> Callbacks \cup {None}] /\ sweep' \in [Deleters -> SUBSET Workers]
    /\ \A e \in Deleters : e # d => /\ handle'[e] = handle[e] /\ sweep'[e] = sweep[e]
                                    /\ opc[e] \in Sweeping <=> init_lock_' = e
    /\ to \in Sweeping <=> init_lock_' = d
    /\ to \in Sweeping => sweep'[d] \subseteq tls_queues
    /\ to \in Sweeping \ {"next"} => sweep'[d] # {}
    /\ to # "idle" => handle'[d] \in Callbacks \ callbacks'
    /\ \A w \in tls_queues : deleted' \cap local'[w] = {} /\ calling[w] \notin deleted'
    /\ to \in Sweeping =>
           \A w \in tls_queues : w \notin sweep'[d] \/ (to = "unlock" /\ w = Q(d)') =>
               handle'[d] \notin local'[w] /\ calling[w] # handle'[d]

\* A deleter keeps the queues clean when its sweep has visited those that it leaves behind.
LEMMA DeleterAt ==
    ASSUME DutyTypes, DutySteps, Clean, NEW d \in Deleters, NEW to, DeleterGoes(d, to)
    PROVE  DutyTypes' /\ DutySteps' /\ Clean'
<1> USE OutOfDutyAssumption
<1>1. /\ opc'[d] = to /\ \A e \in Deleters : e # d => opc'[e] = opc[e] /\ Q(e)' = Q(e)
      /\ \A w \in Workers : opc'[w] = opc[w]
  BY DEF DutyTypes, DeleterGoes, Q
<1>2. DutyTypes'
  BY Zenon DEF DutyTypes, DeleterGoes, workerVars
<1>3. ASSUME NEW w \in Workers
      PROVE  /\ opc'[w] \notin {"fire", "call"} => due'[w] = {}
             /\ opc'[w] # "call" <=> calling'[w] = None
             /\ due'[w] \subseteq local'[w]
             /\ w \notin tls_queues' => opc'[w] \in {"idle", "exit", "left"}
             /\ w \notin tls_queues' /\ opc'[w] = "idle" => local'[w] = {}
  BY <1>1, SMTT(30) DEF DutySteps, DeleterGoes, workerVars
<1>4. ASSUME NEW e \in Deleters
      PROVE  /\ opc'[e] \in Sweeping <=> init_lock_' = e
             /\ opc'[e] \in Sweeping => sweep'[e] \subseteq tls_queues'
             /\ opc'[e] \in Sweeping \ {"next"} => sweep'[e] # {}
             /\ opc'[e] # "idle" => handle'[e] \in Callbacks \ callbacks'
  BY <1>1 DEF DutySteps, DeleterGoes
<1>5. DutySteps'
  BY <1>3, <1>4, Zenon DEF DutySteps
<1>6. Clean'
  <2>1. \A w \in tls_queues : deleted' \cap local'[w] = {} /\ calling'[w] \notin deleted'
    BY Zenon DEF DeleterGoes, workerVars
  <2>2. ASSUME NEW e \in Deleters, opc'[e] \in Sweeping, NEW w \in tls_queues, w \in Workers,
               w \notin sweep'[e] \/ (opc'[e] = "unlock" /\ w = Q(e)')
        PROVE  handle'[e] \notin local'[w] /\ calling'[w] # handle'[e]
    <3>1. CASE e = d
      BY <1>1, <2>2, <3>1 DEF DeleterGoes, workerVars
    <3>2. CASE e # d
      <4>1. handle[e] \notin local[w] /\ calling[w] # handle[e]
        BY <1>1, <2>2, <3>2 DEF Clean, DeleterGoes
      <4> QED BY <2>2, <3>2, <4>1, Zenon DEF DeleterGoes, workerVars
    <3> QED BY <3>1, <3>2, Zenon
  <2>3. tls_queues' = tls_queues /\ \A w \in tls_queues : w \in Workers
    BY Zenon DEF DeleterGoes, DutyTypes
  <2> QED BY <2>1, <2>2, <2>3, Zenon DEF Clean
<1> QED BY <1>2, <1>5, <1>6, Zenon

\* The stores of the slow side to its own flag.
LEMMA DeleterStoreStep ==
    ASSUME NEW L, NEW V, StoresOK(L, V), DutyMemory(L, V), DutyInv, NEW d \in Deleters,
           opc[d] \in Sweeping, sweep[d] # {}, NEW v \in V, NEW to, Store(d, Wants(Q(d), 1), v),
           opc' = [opc EXCEPT ![d] = to], to \in {"barrier", "spin"}, to = "barrier" => v = TRUE,
           UNCHANGED <<globalVars, tlsVars, workerVars, deleterVars>>
    PROVE  StoresOK(L, V)' /\ DutyInv'
<1> USE OutOfDutyAssumption, ZenonT(40) DEF DutyInv
<1>0. d \in Cores /\ Wants(Q(d), 1) \in L
  BY AtQueue DEF DutyMemory
<1> /\ StoresOK(L, V)' /\ memory' = memory /\ ipis' = ipis
    /\ \A u \in Cores : u # d => buffer'[u] = buffer[u]
    /\ \A m : Buffered(d, m)' <=> Buffered(d, m) \/ m = Wants(Q(d), 1)
    /\ \A m : m = Wants(Q(d), 1) => Load(d, m)' = v
  <2> PICK l \in L : l = Wants(Q(d), 1)
    BY <1>0
  <2>1. Store(d, l, v)
    BY SMT
  <2>2. /\ StoresOK(L, V)' /\ memory' = memory /\ ipis' = ipis
        /\ \A u \in Cores : u # d => buffer'[u] = buffer[u]
        /\ \A m : Buffered(d, m)' <=> Buffered(d, m) \/ m = l
        /\ \A m : Load(d, m)' = IF m = l THEN v ELSE Load(d, m)
    <3>s. StoresOK(L, V)' /\ StoreDone(d, l, v)
      BY <1>0, <2>1, StoreEffect
    <3> QED BY <3>s DEF StoreDone
  <2> QED BY <2>2
<1>2. \A w \in Workers : w = Q(d) => Load(d, Wants(w, 1))' = v
  OBVIOUS
<1>3. Mutex'
  BY <1>2, DeleterStores DEF deleterVars
<1>4. DutyTypes' /\ DutySteps' /\ DutyHandles' /\ Clean'
  BY DeleterData DEF Sweeping
<1> QED BY <1>3, <1>4

\* SlowAnnounce and SlowSpin: it announces itself, and the barrier is next.
LEMMA SlowAnnounceStep ==
    ASSUME NEW L, NEW V, StoresOK(L, V), DutyMemory(L, V), DutyInv, NEW d \in Deleters,
           SlowAnnounce(d) \/ SlowSpin(d)
    PROVE  StoresOK(L, V)' /\ DutyInv'
<1> USE ZenonT(40)
<1>1. PICK v \in V : v = TRUE /\ Store(d, Wants(Q(d), 1), v)
  BY DEF SlowAnnounce, SlowSpin, DutyMemory
<1>2. opc[d] \in Sweeping /\ sweep[d] # {}
  BY DEF SlowAnnounce, SlowSpin, IsAt, DutyInv, DutySteps, Sweeping
<1>3. opc' = [opc EXCEPT ![d] = "barrier"] /\ UNCHANGED <<globalVars, tlsVars, workerVars, deleterVars>>
  BY DEF SlowAnnounce, SlowSpin, Goto
<1> QED BY <1>1, <1>2, <1>3, DeleterStoreStep

\* SlowWhose: it gives way when it is not its turn.
LEMMA SlowWhoseStep ==
    ASSUME NEW L, NEW V, StoresOK(L, V), DutyMemory(L, V), DutyInv, NEW d \in Deleters, SlowWhose(d)
    PROVE  StoresOK(L, V)' /\ DutyInv'
<1> USE ZenonT(40)
<1> opc[d] = "whose" /\ opc[d] \in Sweeping /\ sweep[d] # {}
  BY DEF SlowWhose, IsAt, DutyInv, DutySteps, Sweeping
<1>2. CASE Load(d, Turn(Q(d))) # 1
  <2>1. PICK v \in V : Store(d, Wants(Q(d), 1), v)
    BY <1>2 DEF SlowWhose, DutyMemory
  <2> QED BY <1>2, <2>1, DeleterStoreStep DEF SlowWhose, Goto
<1>3. CASE Load(d, Turn(Q(d))) = 1
  <2> UNCHANGED <<storeVars, globalVars, tlsVars, workerVars, deleterVars>> /\ opc' = [opc EXCEPT ![d] = "look"]
    BY <1>3 DEF SlowWhose, Goto
  <2>2. Mutex'
    BY SlowLookMutex DEF DutyInv, deleterVars
  <2>3. DutyTypes' /\ DutySteps' /\ DutyHandles' /\ Clean'
    BY DeleterData DEF Sweeping
  <2> QED BY <2>2, <2>3 DEF DutyInv, StoresOK, storeVars
<1> QED BY <1>2, <1>3

\* SlowBarrier and SlowLook: what the barrier has brought to memory is looked at.
LEMMA SlowLookStep ==
    ASSUME NEW L, NEW V, StoresOK(L, V), DutyInv, NEW d \in Deleters, SlowBarrier(d) \/ SlowLook(d)
    PROVE  StoresOK(L, V)' /\ DutyInv'
<1> USE ZenonT(40)
<1>1. CASE SlowBarrier(d)
  <2>1. StoresOK(L, V)' /\ Mutex'
    BY <1>1, SlowBarrierMutex DEF DutyInv
  <2>2. opc[d] \in Sweeping /\ sweep[d] # {} /\ opc' = [opc EXCEPT ![d] = "look"]
    BY <1>1 DEF SlowBarrier, IsAt, Goto, DutyInv, DutySteps, Sweeping
  <2>3. DutyTypes' /\ DutySteps' /\ DutyHandles' /\ Clean'
    BY <1>1, <2>2, DeleterData DEF SlowBarrier, Sweeping
  <2> QED BY <2>1, <2>3 DEF DutyInv
<1>2. CASE SlowLook(d)
  <2> PICK to \in {"whose", "locked"} : /\ opc' = [opc EXCEPT ![d] = to] /\ opc[d] = "look" /\ ipis[d] = {}
                                        /\ to = "locked" => ~Load(d, Wants(Q(d), 0))
    BY <1>2 DEF SlowLook, IsAt, Goto, BarrierDone
  <2> UNCHANGED <<storeVars, globalVars, tlsVars, workerVars, deleterVars>>
    BY <1>2 DEF SlowLook
  <2>3. opc[d] \in Sweeping /\ sweep[d] # {}
    BY DEF DutyInv, DutySteps, Sweeping
  <2>4. Mutex'
    BY SlowLookMutex DEF DutyInv, deleterVars
  <2>5. DutyTypes' /\ DutySteps' /\ DutyHandles' /\ Clean'
    BY <2>3, DeleterData DEF Sweeping
  <2> QED BY <2>4, <2>5 DEF DutyInv, StoresOK, storeVars
<1> QED BY <1>1, <1>2

\* Erase: the owner of the queue is outside, so that its copy and its call are not in use.
LEMMA EraseStep ==
    ASSUME NEW L, NEW V, StoresOK(L, V), DutyMemory(L, V), DutyInv, NEW d \in Deleters, Erase(d)
    PROVE  StoresOK(L, V)' /\ DutyInv'
<1> USE OutOfDutyAssumption, ZenonT(40) DEF DutyInv
<1> PICK q \in Workers : q = Q(d) /\ q \in sweep[d]
  BY AtQueue DEF Erase, IsAt, Sweeping
<1> /\ opc[d] = "locked" /\ opc' = [opc EXCEPT ![d] = "unlock"]
    /\ local' = [local EXCEPT ![q] = @ \ {handle[d]}]
    /\ UNCHANGED <<globalVars, tls_queues, workerVars, deleterVars>>
  BY DEF Erase, IsAt, Goto
<1>2. PICK v \in V, x \in V : StoreTwo(d, Turn(q), v, Wants(q, 1), x)
  BY DEF Erase, SlowUnlock, DutyMemory
<1>3. d \in Cores /\ Turn(q) \in L /\ Wants(q, 1) \in L /\ Turn(q) # Wants(q, 1)
  BY LockFields DEF DutyMemory
<1>4. /\ StoresOK(L, V)' /\ memory' = memory /\ ipis' = ipis
      /\ \A u \in Cores : u # d => buffer'[u] = buffer[u]
      /\ \A m : Buffered(d, m)' <=> Buffered(d, m) \/ m \in {Turn(q), Wants(q, 1)}
  <2>s. StoresOK(L, V)' /\ StoreTwoDone(d, Turn(q), v, Wants(q, 1), x)
    BY <1>2, <1>3, StoreTwoEffect
  <2> QED BY <2>s DEF StoreTwoDone
<1>5. Mutex'
  BY <1>4, DeleterStores DEF deleterVars
<1>6. opc[q] \notin Inside
  BY DEF Mutex, BiasedExclusion, IsAt, Inside
<1>7. /\ due[q] = {} /\ calling[q] = None /\ handle[d] \in Callbacks \ callbacks /\ init_lock_ = d
      /\ q \in tls_queues /\ sweep[d] \subseteq tls_queues
  BY <1>6 DEF DutySteps, Sweeping, Inside
<1>8. /\ opc'[d] = "unlock" /\ \A e \in Deleters : e # d => opc'[e] = opc[e] /\ opc[e] \notin Sweeping
      /\ \A e \in Deleters : Q(e)' = Q(e)
      /\ \A w \in Workers : opc'[w] = opc[w]
  <2>1. opc'[d] = "unlock" /\ \A u \in Workers \cup Deleters : u # d => opc'[u] = opc[u]
    BY DEF DutyTypes
  <2>2. \A e \in Deleters : e # d => opc[e] \notin Sweeping
    BY <1>7 DEF DutySteps
  <2>3. \A e \in Deleters : Q(e)' = Q(e)
    BY DEF Q, deleterVars
  <2>4. d \notin Workers
    OBVIOUS
  <2> QED BY <2>1, <2>2, <2>3, <2>4
<1> /\ local'[q] = local[q] \ {handle[d]} /\ \A w \in Workers : w # q => local'[w] = local[w]
    /\ local' \in [Workers -> SUBSET Callbacks]
  BY DEF DutyTypes
<1>10. DutyHandles'
  BY DEF globalVars, deleterVars, DutyHandles
<1>11. \A w \in Workers : due[w] \subseteq local'[w] /\ local'[w] \subseteq local[w]
  BY <1>7, SMT DEF DutySteps
<1>12. \A w \in tls_queues : deleted \cap local'[w] = {} /\ calling[w] \notin deleted
  BY <1>11, SMT DEF Clean, DutyTypes
<1>13. ASSUME NEW w \in tls_queues, w \notin sweep[d] \/ w = q
       PROVE  handle[d] \notin local'[w] /\ calling[w] # handle[d]
  <2>1. CASE w = q
    BY <1>7, <2>1
  <2>2. w # q => handle[d] \notin local[w] /\ calling[w] # handle[d] /\ w \in Workers
    BY <1>13 DEF Clean, Sweeping, DutyTypes
  <2> QED BY <2>1, <2>2
<1>14. /\ handle \in [Deleters -> Callbacks \cup {None}] /\ sweep \in [Deleters -> SUBSET Workers]
       /\ deleted \subseteq Callbacks
  BY DEF DutyTypes
<1>15. DeleterGoes(d, "unlock")
  BY <1>7, <1>8, <1>11, <1>12, <1>13, <1>14 DEF DeleterGoes, globalVars, workerVars, deleterVars, Sweeping
<1> QED BY <1>4, <1>5, <1>10, <1>15, DeleterAt

\* Visited: the queue that it has swept is clean, and counts as visited.
LEMMA VisitedStep ==
    ASSUME NEW L, NEW V, StoresOK(L, V), DutyInv, NEW d \in Deleters, Visited(d)
    PROVE  StoresOK(L, V)' /\ DutyInv'
<1> USE OutOfDutyAssumption, ZenonT(40) DEF DutyInv
<1> /\ opc[d] = "unlock" /\ opc' = [opc EXCEPT ![d] = "next"] /\ Drained(d)
    /\ sweep' = [sweep EXCEPT ![d] = @ \ {Q(d)}]
    /\ UNCHANGED <<storeVars, globalVars, tlsVars, workerVars, init_lock_, handle>>
  BY DEF Visited, IsAt, Goto
<1> /\ opc'[d] = "next" /\ \A e \in Deleters : e # d => opc'[e] = opc[e]
    /\ \A w \in Workers : opc'[w] = opc[w]
    /\ sweep'[d] = sweep[d] \ {Q(d)} /\ \A e \in Deleters : e # d => sweep'[e] = sweep[e]
    /\ sweep' \in [Deleters -> SUBSET Workers]
  BY DEF DutyTypes
<1>3. Mutex'
  BY DeleterQuiet
<1>4. DutyHandles'
  BY SMT DEF globalVars, DutyHandles
<1>5. /\ init_lock_ = d /\ \A e \in Deleters : e # d => opc[e] \notin Sweeping
      /\ sweep[d] \subseteq tls_queues /\ handle[d] \in Callbacks \ callbacks
      /\ \A w \in Workers : due[w] \subseteq local[w]
  BY SMT DEF DutySteps, Sweeping
<1>6. /\ \A w \in tls_queues : deleted \cap local[w] = {} /\ calling[w] \notin deleted
      /\ \A w \in tls_queues : w \notin sweep[d] \/ w = Q(d) => handle[d] \notin local[w] /\ calling[w] # handle[d]
  BY DEF Clean, Sweeping
<1>7. /\ handle \in [Deleters -> Callbacks \cup {None}] /\ local \in [Workers -> SUBSET Callbacks]
      /\ deleted \subseteq Callbacks
  BY DEF DutyTypes
<1>8. DeleterGoes(d, "next")
  BY <1>5, <1>6, <1>7 DEF DeleterGoes, globalVars, tlsVars, workerVars, Sweeping
<1>9. StoresOK(L, V)'
  BY DEF StoresOK, storeVars
<1> QED BY <1>3, <1>4, <1>8, <1>9, DeleterAt

\* SetThreadOutOfDutyCallback, DeleteGlobal: the global list, under its lock.
LEMMA GlobalListStep ==
    ASSUME NEW L, NEW V, StoresOK(L, V), DutyInv, NEW d \in Deleters,
           SetThreadOutOfDutyCallback(d) \/ DeleteGlobal(d)
    PROVE  StoresOK(L, V)' /\ DutyInv'
<1> USE OutOfDutyAssumption, ZenonT(40) DEF DutyInv
<1> /\ opc[d] = "idle" /\ opc[d] \notin Sweeping
    /\ UNCHANGED <<storeVars, tlsVars, workerVars, init_lock_, sweep, deleted>>
  BY DEF SetThreadOutOfDutyCallback, DeleteGlobal, IsAt, deleterVars, Sweeping
<1>1. StoresOK(L, V)'
  BY DEF StoresOK, storeVars
<1>2. CASE SetThreadOutOfDutyCallback(d)
  <2>1. PICK c \in Callbacks \ (callbacks \cup deleted) :
            /\ \A e \in Deleters : handle[e] # c
            /\ callbacks' = callbacks \cup {c} /\ handle' = [handle EXCEPT ![d] = c]
    BY <1>2 DEF SetThreadOutOfDutyCallback
  <2> opc' = opc
    BY <1>2 DEF SetThreadOutOfDutyCallback
  <2>3. handle'[d] = c /\ \A e \in Deleters : e # d => handle'[e] = handle[e]
    BY <2>1 DEF DutyTypes
  <2>4. Mutex'
    BY MutexMemory DEF storeVars, Buffered, Load, IsSet
  <2>5. DutyTypes' /\ DutySteps' /\ DutyHandles'
    BY <2>1, <2>3, SMT DEF tlsVars, workerVars, DutyTypes, DutySteps, DutyHandles
  <2>6. \A e \in Deleters : Q(e)' = Q(e)
    BY DEF Q
  <2>7. Clean'
    BY <2>3, <2>6 DEF tlsVars, workerVars, Clean
  <2> QED BY <1>1, <2>4, <2>5, <2>7
<1>3. CASE DeleteGlobal(d)
  <2> /\ opc' = [opc EXCEPT ![d] = "foreach"] /\ callbacks' = callbacks \ {handle[d]} /\ handle[d] # None
      /\ handle' = handle
    BY <1>3 DEF DeleteGlobal, Goto, deleterVars
  <2>3. Mutex'
    BY DeleterQuiet
  <2>4. DutyHandles'
    BY DEF DutyHandles
  <2>5. /\ init_lock_ # d /\ \A e \in Deleters : opc[e] \in Sweeping <=> init_lock_ = e
        /\ \A w \in Workers : due[w] \subseteq local[w]
    BY DEF DutySteps
  <2>6. /\ handle \in [Deleters -> Callbacks \cup {None}] /\ local \in [Workers -> SUBSET Callbacks]
        /\ sweep \in [Deleters -> SUBSET Workers] /\ deleted \subseteq Callbacks /\ handle[d] \in Callbacks
        /\ \A w \in tls_queues : deleted \cap local[w] = {} /\ calling[w] \notin deleted
    BY DEF DutyTypes, Clean
  <2>7. DeleterGoes(d, "foreach")
    BY <2>5, <2>6 DEF DeleterGoes, tlsVars, workerVars, Sweeping
  <2> QED BY <1>1, <2>3, <2>4, <2>7, DeleterAt
<1> QED BY <1>2, <1>3

\* ForEach and DeleteReturns: the sweep begins with every queue, and ends with none.
LEMMA SweepStep ==
    ASSUME NEW L, NEW V, StoresOK(L, V), DutyInv, NEW d \in Deleters, ForEach(d) \/ DeleteReturns(d)
    PROVE  StoresOK(L, V)' /\ DutyInv'
<1> USE OutOfDutyAssumption, ZenonT(40) DEF DutyInv
<1> UNCHANGED <<storeVars, callbacks, tlsVars, workerVars>> /\ Drained(d)
  BY DEF ForEach, DeleteReturns, globalVars
<1>1. StoresOK(L, V)'
  BY DEF StoresOK, storeVars
<1>2. CASE ForEach(d)
  <2> /\ opc[d] = "foreach" /\ init_lock_ = "free" /\ opc' = [opc EXCEPT ![d] = "next"]
      /\ init_lock_' = d /\ sweep' = [sweep EXCEPT ![d] = tls_queues] /\ UNCHANGED <<handle, deleted>>
    BY <1>2 DEF ForEach, IsAt, Goto, globalVars
  <2>1. /\ sweep'[d] = tls_queues /\ \A e \in Deleters : e # d => sweep'[e] = sweep[e]
        /\ sweep' \in [Deleters -> SUBSET Workers]
    BY DEF DutyTypes
  <2>2. /\ \A e \in Deleters : opc[e] \notin Sweeping
        /\ handle[d] \in Callbacks \ callbacks /\ \A w \in Workers : due[w] \subseteq local[w]
    BY DEF DutySteps
  <2>3. Mutex'
    BY <2>1, DeleterQuiet
  <2>4. DutyHandles'
    BY DEF DutyHandles
  <2>5. /\ handle \in [Deleters -> Callbacks \cup {None}] /\ local \in [Workers -> SUBSET Callbacks]
        /\ deleted \subseteq Callbacks
        /\ \A w \in tls_queues : deleted \cap local[w] = {} /\ calling[w] \notin deleted
    BY DEF DutyTypes, Clean
  <2>6. DeleterGoes(d, "next")
    BY <2>1, <2>2, <2>5 DEF DeleterGoes, tlsVars, workerVars, Sweeping
  <2> QED BY <1>1, <2>3, <2>4, <2>6, DeleterAt
<1>3. CASE DeleteReturns(d)
  <2> /\ opc[d] = "next" /\ sweep[d] = {} /\ opc' = [opc EXCEPT ![d] = "idle"]
      /\ init_lock_' = "free" /\ deleted' = deleted \cup {handle[d]}
      /\ handle' = [handle EXCEPT ![d] = None] /\ sweep' = sweep
    BY <1>3 DEF DeleteReturns, IsAt, Goto
  <2> /\ handle[d] \in Callbacks \ callbacks /\ init_lock_ = d
      /\ \A e \in Deleters : e # d => opc[e] \notin Sweeping
      /\ \A w \in tls_queues : handle[d] \notin local[w] /\ calling[w] # handle[d]
    BY DEF DutySteps, Sweeping, Clean
  <2>1. /\ handle'[d] = None /\ \A e \in Deleters : e # d => handle'[e] = handle[e]
        /\ handle' \in [Deleters -> Callbacks \cup {None}] /\ None \notin deleted
    BY DEF DutyTypes
  <2>4. Mutex'
    BY DeleterQuiet
  <2>5. /\ local \in [Workers -> SUBSET Callbacks] /\ sweep \in [Deleters -> SUBSET Workers]
        /\ deleted \subseteq Callbacks /\ \A w \in Workers : due[w] \subseteq local[w]
        /\ \A w \in tls_queues : deleted \cap local[w] = {} /\ calling[w] \notin deleted
    BY DEF DutyTypes, DutySteps, Clean
  <2>6. DutyHandles'
    BY <2>1, SMT DEF DutyHandles
  <2>7. /\ deleted' \subseteq Callbacks
        /\ \A w \in tls_queues : deleted' \cap local[w] = {} /\ calling[w] \notin deleted'
    BY <2>5, SMT
  <2>8. \A e \in Deleters : init_lock_' # e
    OBVIOUS
  <2>9. DeleterGoes(d, "idle")
    BY <2>1, <2>5, <2>7, <2>8 DEF DeleterGoes, tlsVars, workerVars, Sweeping
  <2> QED BY <1>1, <2>4, <2>6, <2>9, DeleterAt
<1> QED BY <1>2, <1>3

\* Whatever a deleter does keeps the invariant.
LEMMA DeleterMoves ==
    ASSUME NEW L, NEW V, StoresOK(L, V), DutyMemory(L, V), DutyInv, NEW d \in Deleters,
           DeleteStep(d) \/ SetThreadOutOfDutyCallback(d) \/ DeleteGlobal(d)
    PROVE  StoresOK(L, V)' /\ DutyInv'
BY SlowAnnounceStep, SlowWhoseStep, SlowLookStep, EraseStep, VisitedStep, GlobalListStep, SweepStep, Zenon
   DEF DeleteStep

-----------------------------------------------------------------------------
(* The beginning, and what the invariant is for.                           *)

\* No store is under way at the beginning, and nobody has a queue.
LEMMA DutyBegins ==
    ASSUME NEW contents, StoresInit(contents), OutOfDutyInit
    PROVE  DutyInv
<1> USE OutOfDutyAssumption, ZenonT(40) DEF OutOfDutyInit
<1>1. DutyTypes /\ DutyHandles /\ Clean
  BY DEF DutyTypes, DutyHandles, Clean, Sweeping
<1>2. DutySteps
  BY DEF DutySteps, Sweeping
<1>3. \A u \in Cores : \A m : ~Buffered(u, m)
  BY SMT DEF StoresInit, Buffered, Stored
<1>4. /\ \A w \in Workers : opc[w] = "idle"
      /\ \A d \in Deleters : opc[d] = "idle"
  OBVIOUS
<1>5. Mutex
  BY <1>3, <1>4 DEF Mutex, Announced, Noticed, BiasedExclusion, Inside, IsAt
<1> QED BY <1>1, <1>2, <1>5 DEF DutyInv

\* The invariant implies the properties: the biased mutex excludes, nobody calls a
\* callback whose deletion has returned or is about to, and only a thread that exits may
\* still have it in its copy.
LEMMA DutySafe ==
    ASSUME DutyInv
    PROVE  BiasedExclusion /\ DeletedIsGone
<1> USE ZenonT(40)
<1>1. BiasedExclusion
  BY DEF DutyInv, Mutex
<1>2. DeletedIsGone
  <2> DEFINE gone == deleted \cup {handle[d] : d \in {e \in Deleters : IsAt(e, "next") /\ sweep[e] = {}}}
  <2>1. ASSUME NEW c \in gone, NEW w \in tls_queues
        PROVE  c \notin local[w] /\ calling[w] # c
    <3>1. CASE c \in deleted
      BY <3>1 DEF DutyInv, Clean
    <3>2. ASSUME NEW d \in Deleters, opc[d] = "next", sweep[d] = {}, c = handle[d]
          PROVE  c \notin local[w] /\ calling[w] # c
      BY <3>2 DEF DutyInv, Clean, Sweeping
    <3> QED BY <3>1, <3>2 DEF IsAt
  <2>2. None \notin gone
    BY OutOfDutyAssumption, SMT DEF IsAt, DutyInv, DutyTypes, DutySteps
  <2>3. ASSUME NEW w \in Workers
        PROVE  /\ calling[w] \notin gone
               /\ w \in tls_queues => gone \cap (local[w] \cup due[w]) = {}
    <3>1. due[w] \subseteq local[w] /\ (w \notin tls_queues => calling[w] = None)
      BY DEF DutyInv, DutySteps
    <3> QED BY <2>1, <2>2, <3>1
  <2> QED BY <2>3 DEF DeletedIsGone
<1> QED BY <1>1, <1>2
=============================================================================
