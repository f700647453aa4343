---------------------------- MODULE StoreBuffers ----------------------------
(***************************************************************************)
(* Memory as x86-64 threads see it, and the asymmetric barriers of          *)
(* base/internal/memory_barrier that the hazard pointers and the biased     *)
(* mutex are built on.  A store waits in the buffer of its thread and       *)
(* reaches memory later, in order; a load looks into the thread's own       *)
(* buffer first; a locked instruction waits until the buffer is empty.      *)
(*                                                                         *)
(* AsymmetricBarrierLight generates no code.  AsymmetricBarrierHeavy makes  *)
(* the kernel interrupt every core that runs a thread of the program, and   *)
(* the interrupt empties the core's buffer; it returns when all have been   *)
(* interrupted.  A core whose buffer is empty is not interrupted here: it   *)
(* would change nothing.  A lock makes the heavy barriers take turns.       *)
(***************************************************************************)
EXTENDS Naturals, Sequences

CONSTANTS Cores,            \* the threads of the program
          StoreBufferSize   \* bound: the stores that a thread may have in its buffer

ASSUME StoreBufferAssumption == StoreBufferSize \in Nat \ {0, 1}

VARIABLES
    memory,   \* what the locations hold
    buffer,   \* the stores of each thread that have not reached memory
    ipis      \* the cores that a heavy barrier of the thread still waits for

storeVars == <<memory, buffer, ipis>>

StoresInit(contents) ==
    /\ memory = contents
    /\ buffer = [t \in Cores |-> <<>>]
    /\ ipis = [t \in Cores |-> {}]

\* A store to l is among the stores of a buffer, and the youngest one is the i-th.
Stored(stores, l) == \E i \in DOMAIN stores : stores[i][1] = l
IsYoungest(stores, l, i) ==
    /\ i \in DOMAIN stores /\ stores[i][1] = l
    /\ \A j \in DOMAIN stores : j > i => stores[j][1] # l

\* What l holds for the owner of a buffer.
Seen(stores, contents, l) ==
    IF Stored(stores, l) THEN stores[CHOOSE i \in DOMAIN stores : IsYoungest(stores, l, i)][2]
    ELSE contents[l]

\* A load by t.
Load(t, l) == Seen(buffer[t], memory, l)

\* Room for n more stores in the buffer of t.
Room(t, n) == Len(buffer[t]) + n <= StoreBufferSize

\* A store by t.
Store(t, l, v) ==
    /\ Room(t, 1)
    /\ buffer' = [buffer EXCEPT ![t] = Append(@, <<l, v>>)]
    /\ UNCHANGED <<memory, ipis>>

\* Two stores by t, one after the other.
StoreTwo(t, l, v, m, x) ==
    /\ Room(t, 2)
    /\ buffer' = [buffer EXCEPT ![t] = Append(Append(@, <<l, v>>), <<m, x>>)]
    /\ UNCHANGED <<memory, ipis>>

\* t may execute a locked instruction.
Drained(t) == buffer[t] = <<>>

\* A locked exchange of l with v.
Exchange(t, l, v) ==
    /\ Drained(t)
    /\ memory' = [memory EXCEPT ![l] = v]
    /\ UNCHANGED <<buffer, ipis>>

\* The oldest store of t reaches memory.
Drain(t) ==
    /\ buffer[t] # <<>>
    /\ memory' = [memory EXCEPT ![Head(buffer[t])[1]] = Head(buffer[t])[2]]
    /\ buffer' = [buffer EXCEPT ![t] = Tail(@)]
    /\ UNCHANGED ipis

\* Mutant: only the caller's own stores are waited for.
BarrierOwnStores(t) ==
    /\ Drained(t)
    /\ UNCHANGED storeVars

\* AsymmetricBarrierHeavy is called.
AsymmetricBarrierHeavy(t) ==
    /\ Drained(t) /\ \A u \in Cores : ipis[u] = {}
    /\ ipis' = [ipis EXCEPT ![t] = {u \in Cores : buffer[u] # <<>>}]
    /\ UNCHANGED <<memory, buffer>>

\* It has the core of u interrupted.
Interrupt(t, u) ==
    /\ u \in ipis[t]
    /\ memory' = [l \in DOMAIN memory |-> Load(u, l)]
    /\ buffer' = [buffer EXCEPT ![u] = <<>>]
    /\ ipis' = [ipis EXCEPT ![t] = @ \ {u}]

\* It returns.
BarrierDone(t) == ipis[t] = {}
=============================================================================
