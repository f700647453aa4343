------------------------- MODULE TimerWorkerProofs --------------------------
(***************************************************************************)
(* Proofs about TimerWorker: the inductive invariant; some thread sees to  *)
(* every timer; the timer worker never sleeps past a timer, callbacks are  *)
(* called in time and not after a timer was killed, and the calls of       *)
(* periodic callbacks keep up with the timer.                              *)
(***************************************************************************)
EXTENDS TimerWorker, TLAPS

Firing == wpc \in {"take", "call", "callback"}

\* Timers in a queue, in the heap or being fired have been created; the one that is
\* being fired has expired.
Created ==
    /\ \A t \in Timers : handle[t] = "new" =>
          ~cancelled[t] /\ fired[t] = 0 /\ t \notin timers_ /\ \A p \in Threads : t \notin queue[p]
    /\ Firing => top \in Timers /\ handle[top] # "new" /\ expires_at[top] <= fire_now
    /\ reaped \in Threads /\ (wpc # "reap" => reaped = 0)

\* The worker wakes up at e or before, or some thread is about to see to it.
Cover(e) == next_expires_at_ <= e \/ OnItsWay(e)

\* Every queue is accounted for by its earliest timer, unless the worker is going to
\* collect it; the heap is accounted for when the worker is about to sleep or sleeps.
Covered ==
    /\ \A p \in Threads : \A t \in queue[p] : earliest[p] <= expires_at[t]
    /\ \A p \in Threads :
          \/ earliest[p] = Never
          \/ Cover(earliest[p])
          \/ wpc = "reap" /\ reaped <= p
    /\ wpc \in {"lock", "test", "block", "asleep"} =>
          \A t \in timers_ : Cover(expires_at[t])

\* What lock_ is for: what the worker has read is still true when it sleeps, unless
\* it has been notified.
Asleep ==
    /\ lock_ <=> wpc \in {"test", "block"}
    /\ wpc = "block" \/ (wpc = "asleep" /\ ~notified) =>
          next_expires_at_ = expected /\ ~stopped_
    /\ \A p \in Threads : apc[p] = "cas" => target[p] < r[p]

\* A callback is in its timer, or has been taken out of it to be called, or was called.
CallbackPlace ==
    /\ \A t \in Timers : cancelled[t] => ~cb[t]
    /\ \A t \in Timers \ Periodic : cb[t] => fired[t] = 0
    /\ \A t \in Timers \ Periodic : fired[t] <= 1
    /\ wpc = "call" /\ top \notin Periodic => fired[top] = 0 /\ ~cb[top]

IInv == TypeOK /\ Created /\ Covered /\ Asleep /\ CallbackPlace /\ CallsKeepUp

-----------------------------------------------------------------------------
\* Types, and timers that have been created

\* What the assumptions on the constants say of the times.
LEMMA Constants ==
    /\ Worker \in Threads /\ GroupSize \in Nat
    /\ Interval \in Nat /\ 1 <= Interval /\ MaxTime \in Nat /\ Never \in Nat
    /\ MaxTime + Interval < Never /\ 0 \in Times /\ Never \in Times
  BY GroupAssumption, TimeAssumption DEF Worker, Threads, Times

\* Types hold before the first step.
LEMMA InitTypes ==
    ASSUME Init
    PROVE  TypeOK /\ Created
<1> USE ZenonT(40)
<1>1. 0 \in 0..(Never - 1) /\ 0 \in Threads /\ 0 <= MaxTime
  BY Constants, SMT DEF Threads
<1>2. TypeOK
  <2>1. now \in Nat /\ fire_now \in Nat /\ now <= MaxTime /\ fire_now <= now
    BY <1>1, SMT DEF Init
  <2>2. /\ expires_at \in [Timers -> 0..(Never - 1)] /\ cancelled \in [Timers -> BOOLEAN]
        /\ cb \in [Timers -> BOOLEAN] /\ handle \in [Timers -> {"new", "held", "dropped"}]
    BY <1>1 DEF Init
  <2>3. /\ queue \in [Threads -> SUBSET Timers] /\ earliest \in [Threads -> Times]
        /\ timers_ \subseteq Timers /\ next_expires_at_ \in Times /\ expected \in Times
    BY Constants DEF Init
  <2>4. /\ stopped_ \in BOOLEAN /\ lock_ \in BOOLEAN /\ notified \in BOOLEAN
        /\ top \in Timers \cup {None} /\ reaped \in Nat
        /\ wpc \in {"loop", "left", "reap", "fire", "top", "take", "call", "callback",
                    "rearm", "lock", "test", "block", "asleep"}
    BY DEF Init
  <2>5. /\ apc \in [Threads -> {"idle", "load", "cas"}]
        /\ target \in [Threads -> Times] /\ r \in [Threads -> Times]
    BY Constants DEF Init
  <2>6. /\ fired \in [Timers -> Nat] /\ started \in [Timers -> Nat]
        /\ remaining \in [Timers -> Nat] /\ running \in [Timers -> Nat]
        /\ calls \in [Timers -> Nat]
    BY DEF Init
  <2> QED
    BY <2>1, <2>2, <2>3, <2>4, <2>5, <2>6 DEF TypeOK
<1>3. Created
  BY <1>1 DEF Init, Created, Firing
<1> QED
  BY <1>2, <1>3

\* EnableTimer keeps them.
LEMMA EnableTypes ==
    ASSUME TypeOK, Created, NEW p \in Threads, NEW t \in Timers, EnableTimer(p, t)
    PROVE  TypeOK' /\ Created'
<1>1. PICK at \in 0..MaxTime :
        /\ expires_at' = [expires_at EXCEPT ![t] = CreateTimer(t, at)]
        /\ AddTimer(p, t, CreateTimer(t, at))
  BY Zenon DEF EnableTimer
<1>2. CreateTimer(t, at) \in 0..(Never - 1)
  BY Constants DEF CreateTimer, TypeOK
<1>3. /\ queue' \in [Threads -> SUBSET Timers] /\ earliest' \in [Threads -> Times]
      /\ apc' \in [Threads -> {"idle", "load", "cas"}] /\ target' \in [Threads -> Times]
      /\ \A u \in Timers : u # t => \A q \in Threads : u \in queue'[q] => u \in queue[q]
  <2>1. CreateTimer(t, at) \in Times
    BY <1>2, Constants DEF Times
  <2>2. queue' = [queue EXCEPT ![p] = @ \cup {t}]
    BY <1>1, Zenon DEF AddTimer
  <2>3. \/ /\ earliest' = [earliest EXCEPT ![p] = CreateTimer(t, at)]
           /\ target' = [target EXCEPT ![p] = CreateTimer(t, at)]
           /\ apc' = [apc EXCEPT ![p] = "load"]
        \/ UNCHANGED <<earliest, target, apc>>
    BY <1>1, Zenon DEF AddTimer
  <2>4. /\ earliest' \in [Threads -> Times] /\ target' \in [Threads -> Times]
        /\ apc' \in [Threads -> {"idle", "load", "cas"}]
    BY <2>1, <2>3 DEF TypeOK
  <2> QED
    BY <2>2, <2>4, Zenon DEF TypeOK
<1>4. /\ handle[t] = "new" /\ handle' = [handle EXCEPT ![t] = "held"]
      /\ cb' = [cb EXCEPT ![t] = TRUE]
      /\ UNCHANGED <<now, cancelled, timers_, next_expires_at_, sleepVars, r, wpc,
                     fireVars, fired, runVars>>
  BY Zenon DEF EnableTimer
<1>5. TypeOK'
  BY <1>1, <1>2, <1>3, <1>4 DEF TypeOK, sleepVars, fireVars, runVars
<1>6. Created'
  BY <1>1, <1>3, <1>4 DEF TypeOK, Created, Firing, sleepVars, fireVars, runVars
<1> QED
  BY <1>5, <1>6, Zenon

\* RemoveTimer and DetachTimer keep them.
LEMMA RemoveTypes ==
    ASSUME TypeOK, Created, NEW t \in Timers, RemoveTimer(t) \/ DetachTimer(t)
    PROVE  TypeOK' /\ Created'
<1>1. /\ handle[t] = "held" /\ handle' = [handle EXCEPT ![t] = "dropped"]
      /\ \/ cancelled' = [cancelled EXCEPT ![t] = TRUE] /\ cb' = [cb EXCEPT ![t] = FALSE]
         \/ UNCHANGED <<cancelled, cb>>
      /\ UNCHANGED <<now, expires_at, queueVars, timers_, next_expires_at_, sleepVars,
                     wakeVars, wpc, fireVars, fired, runVars>>
  BY Zenon DEF RemoveTimer, DetachTimer
<1>2. TypeOK'
  <2>1. /\ handle' \in [Timers -> {"new", "held", "dropped"}] /\ cancelled' \in [Timers -> BOOLEAN]
        /\ cb' \in [Timers -> BOOLEAN]
    BY <1>1, Zenon DEF TypeOK
  <2> QED
    BY <1>1, <2>1, Zenon DEF TypeOK, queueVars, sleepVars, wakeVars, fireVars, runVars
<1>3. Created'
  BY <1>1 DEF TypeOK, Created, Firing, queueVars, fireVars
<1> QED
  BY <1>2, <1>3, Zenon

\* Waking the worker keeps them.
LEMMA WakeTypes ==
    ASSUME TypeOK, Created, NEW p \in Threads, WakeStep(p)
    PROVE  TypeOK' /\ Created'
<1>1. /\ apc' \in [Threads -> {"idle", "load", "cas"}] /\ target' \in [Threads -> Times]
      /\ r' \in [Threads -> Times] /\ next_expires_at_' \in Times /\ notified' \in BOOLEAN
  <2>1. 0 \in Times
    BY Constants, Zenon DEF Times
  <2>2. \/ Return(p)
        \/ /\ apc' = [apc EXCEPT ![p] = "cas"]
           /\ r' = [r EXCEPT ![p] = next_expires_at_]
           /\ UNCHANGED target
    BY Zenon DEF WakeStep, WakeLoad, WakeCas, Compare
  <2>3. /\ apc' \in [Threads -> {"idle", "load", "cas"}] /\ target' \in [Threads -> Times]
        /\ r' \in [Threads -> Times]
    BY <2>1, <2>2, SMTT(30) DEF TypeOK, Return
  <2>4. next_expires_at_' \in {next_expires_at_, target[p]}
    BY Zenon DEF WakeStep, WakeLoad, WakeCas
  <2>5. notified' = notified \/ notified' = (notified \/ wpc = "asleep")
    BY Zenon DEF WakeStep, WakeLoad, WakeCas, sleepVars
  <2>6. notified' \in BOOLEAN
    BY <2>5, Zenon DEF TypeOK
  <2> QED
    BY <2>3, <2>4, <2>6 DEF TypeOK
<1>2. UNCHANGED <<now, entryVars, queueVars, timers_, stopped_, lock_, expected, wpc,
                  fireVars, fired, runVars>>
  BY Zenon DEF WakeStep, WakeLoad, WakeCas, sleepVars
<1> QED
  BY <1>1, <1>2 DEF TypeOK, Created, Firing, entryVars, queueVars, fireVars, runVars

\* Firing a timer keeps them.
LEMMA RunTypes ==
    ASSUME TypeOK, Created, NEW t \in Timers, Run(t), remaining[t] >= running[t]
    PROVE  TypeOK' /\ Created'
  BY DEF TypeOK, Created, Firing, Run, RunEnter, RunReturn, entryVars, queueVars,
         sleepVars, wakeVars, fireVars

\* Every step of the worker keeps them.
LEMMA WorkerTypes ==
    ASSUME TypeOK, Created, WorkerProc \/ SpuriousWake \/ Stop \/ Tick
    PROVE  TypeOK' /\ Created'
<1> USE ZenonT(40)
<1>1. CASE Loop
  BY <1>1, Constants DEF Loop, TypeOK, Created, Firing, At, entryVars, queueVars, sleepVars, wakeVars, fireVars, runVars, Times
<1>2. CASE ReapThreadLocalQueues
  <2>1. /\ timers_' = timers_ \cup {t \in queue[reaped] : ~cancelled[t]}
        /\ queue' = [queue EXCEPT ![reaped] = {}]
        /\ earliest' = [earliest EXCEPT ![reaped] = Never]
        /\ \/ reaped = GroupSize /\ wpc' = "fire" /\ reaped' = 0
           \/ reaped # GroupSize /\ reaped' = reaped + 1 /\ wpc' = wpc
        /\ wpc = "reap"
        /\ UNCHANGED <<now, entryVars, next_expires_at_, sleepVars, wakeVars, fire_now,
                       top, fired, runVars>>
    BY <1>2 DEF ReapThreadLocalQueues, At
  <2>2. timers_' \subseteq Timers /\ reaped' \in Threads /\ reaped' \in Nat
    <3>1. reaped \in 0..GroupSize
      BY DEF Created, Threads
    <3>2. reaped' \in 0..GroupSize
      BY <2>1, <3>1, Constants, SMT
    <3>3. queue[reaped] \subseteq Timers
      BY <3>1 DEF TypeOK, Threads
    <3> QED
      BY <2>1, <3>2, <3>3, SMT DEF TypeOK, Threads
  <2>3. queue' \in [Threads -> SUBSET Timers] /\ earliest' \in [Threads -> Times]
    BY <2>1, Constants DEF TypeOK
  <2>4. TypeOK'
    BY <2>1, <2>2, <2>3 DEF TypeOK, entryVars, sleepVars, wakeVars, runVars
  <2>5. ASSUME NEW t \in Timers, handle[t] = "new"
        PROVE  t \notin timers_' /\ \A p \in Threads : t \notin queue'[p]
    <3>1. reaped \in Threads /\ t \notin timers_ /\ \A p \in Threads : t \notin queue[p]
      BY <2>5 DEF Created
    <3> QED
      BY <2>1, <3>1 DEF TypeOK
  <2>6. Created'
    BY <2>1, <2>2, <2>5 DEF Created, Firing, entryVars
  <2> QED
    BY <2>4, <2>6
<1>3. CASE FireTimers
  BY <1>3, Constants, SMT DEF FireTimers, TypeOK, Created, Firing, At, entryVars, queueVars, sleepVars, wakeVars, fireVars, runVars
<1>4. CASE FireTop
  BY <1>4, Constants, SMT DEF FireTop, TypeOK, Created, Firing, At, entryVars, queueVars, sleepVars, wakeVars, fireVars, runVars, IsTop, SkipCancelled, FireEnds, Due
<1>5. CASE FireTake
  BY <1>5, Constants DEF FireTake, TypeOK, Created, Firing, At, entryVars, queueVars, sleepVars, wakeVars, fireVars, runVars
<1>6. CASE FireCall
  BY <1>6, Constants, SMT DEF FireCall, TypeOK, Created, Firing, At, entryVars, queueVars, sleepVars, wakeVars, fireVars, runVars
<1>7. CASE FireAgain
  <2>1. /\ top \in Timers /\ expires_at[top] \in 0..(Never - 1)
        /\ expires_at[top] + Interval \in 0..(Never - 1)
    <3>1. top \in Timers /\ expires_at[top] <= fire_now
      BY <1>7 DEF FireAgain, At, Created, Firing
    <3>2. expires_at[top] \in 0..(Never - 1) /\ fire_now <= MaxTime /\ fire_now \in Nat
      BY <3>1, Constants, SMT DEF TypeOK
    <3> QED
      BY <3>1, <3>2, Constants, SMT
  <2>2. TypeOK'
    BY <1>7, <2>1 DEF FireAgain, TypeOK, At, entryVars, queueVars, sleepVars, wakeVars,
                      fireVars, runVars
  <2>3. Created'
    BY <1>7, <2>1 DEF FireAgain, Created, Firing, TypeOK, At, queueVars, fireVars
  <2> QED
    BY <2>2, <2>3
<1>8. CASE Rearm
  BY <1>8, Constants, SMT DEF Rearm, TypeOK, Created, Firing, At, entryVars, queueVars, sleepVars, wakeVars, fireVars, runVars, IsTop, Times
<1>9. CASE Lock
  BY <1>9, Constants DEF Lock, TypeOK, Created, Firing, At, entryVars, queueVars, sleepVars, wakeVars, fireVars, runVars, Times
<1>10. CASE Test
  <2>1. TypeOK'
    BY <1>10, Constants DEF Test, TypeOK, At, entryVars, queueVars, sleepVars, wakeVars, fireVars, runVars
  <2>2. Created'
    BY <1>10, Constants DEF Test, Created, Firing, TypeOK, At, entryVars, queueVars, sleepVars, wakeVars, fireVars, runVars
  <2> QED
    BY <2>1, <2>2
<1>11. CASE Block
  BY <1>11, Constants DEF Block, TypeOK, Created, Firing, At, entryVars, queueVars, sleepVars, wakeVars, fireVars, runVars
<1>12. CASE Wake
  <2>1. TypeOK'
    BY <1>12, Constants DEF Wake, TypeOK, At, entryVars, queueVars, sleepVars, wakeVars, fireVars, runVars
  <2>2. Created'
    BY <1>12, Constants DEF Wake, Created, Firing, TypeOK, At, entryVars, queueVars, sleepVars, wakeVars, fireVars, runVars
  <2> QED
    BY <2>1, <2>2
<1>13. CASE SpuriousWake
  <2>1. TypeOK'
    BY <1>13, Constants DEF SpuriousWake, TypeOK, At, entryVars, queueVars, sleepVars, wakeVars, fireVars, runVars
  <2>2. Created'
    BY <1>13, Constants DEF SpuriousWake, Created, Firing, TypeOK, At, entryVars, queueVars, sleepVars, wakeVars, fireVars, runVars
  <2> QED
    BY <2>1, <2>2
<1>14. CASE Stop
  BY <1>14, Constants DEF Stop, TypeOK, Created, Firing, At, entryVars, queueVars, sleepVars, wakeVars, fireVars, runVars
<1>15. CASE Tick
  BY <1>15, Constants, SMT DEF Tick, TypeOK, Created, Firing, At, entryVars, queueVars, sleepVars, wakeVars, fireVars, runVars
<1> QED
  BY <1>1, <1>2, <1>3, <1>4, <1>5, <1>6, <1>7, <1>8, <1>9, <1>10, <1>11, <1>12, <1>13, <1>14, <1>15 DEF WorkerProc

-----------------------------------------------------------------------------
\* Every timer is accounted for

\* A step that leaves next_expires_at_ and WakeWorkerIfNeeded alone keeps what is
\* accounted for.
LEMMA CoverFrame ==
    ASSUME UNCHANGED <<next_expires_at_, apc, target>>
    PROVE  \A e : Cover(e)' <=> Cover(e)
  BY Zenon DEF Cover, OnItsWay

\* So does a step of WakeWorkerIfNeeded: whoever returns has seen next_expires_at_
\* early enough, or has made it so.
LEMMA CoverWake ==
    ASSUME TypeOK, Asleep, NEW p \in Threads, WakeStep(p), NEW e \in Nat, Cover(e)
    PROVE  Cover(e)'
<1> USE ZenonT(40)
<1>1. /\ next_expires_at_ \in Nat /\ next_expires_at_' \in Nat /\ target[p] \in Nat
      /\ next_expires_at_' <= next_expires_at_
  <2>1. next_expires_at_ \in Nat /\ target[p] \in Nat /\ r[p] \in Nat
    BY Constants, SMT DEF TypeOK, Times
  <2>2. CASE next_expires_at_' = next_expires_at_
    BY <2>1, <2>2, SMT
  <2>3. CASE next_expires_at_' # next_expires_at_
    <3>1. next_expires_at_' = target[p] /\ next_expires_at_ = r[p] /\ apc[p] = "cas"
      BY <2>3 DEF WakeStep, WakeLoad, WakeCas
    <3> QED
      BY <2>1, <3>1, SMT DEF Asleep
  <2> QED
    BY <2>2, <2>3
<1>2. \/ Return(p) /\ next_expires_at_' <= target[p]
      \/ /\ apc' = [apc EXCEPT ![p] = "cas"]
         /\ UNCHANGED target
  <2>1. CASE WakeLoad(p)
    BY <2>1 DEF WakeLoad, Compare
  <2>2. CASE WakeCas(p)
    BY <1>1, <2>2, SMT DEF WakeCas, Compare
  <2> QED
    BY <2>1, <2>2 DEF WakeStep
<1>3. CASE next_expires_at_ <= e
  BY <1>1, <1>3, SMT DEF Cover
<1>4. CASE OnItsWay(e)
  <2>1. PICK q \in Threads : apc[q] # "idle" /\ target[q] <= e
    BY <1>4 DEF OnItsWay
  <2>2. CASE Return(p) /\ next_expires_at_' <= target[p] /\ q = p
    BY <1>1, <2>1, <2>2, SMT DEF Cover
  <2>3. CASE Return(p) /\ q # p
    <3>1. apc'[q] = apc[q] /\ target'[q] = target[q]
      BY <2>3 DEF Return, TypeOK
    <3> QED
      BY <2>1, <3>1 DEF Cover, OnItsWay
  <2>4. CASE apc' = [apc EXCEPT ![p] = "cas"] /\ UNCHANGED target
    <3>1. apc'[q] # "idle" /\ target'[q] = target[q]
      BY <2>1, <2>4 DEF TypeOK
    <3> QED
      BY <2>1, <3>1 DEF Cover, OnItsWay
  <2> QED
    BY <1>2, <2>2, <2>3, <2>4
<1> QED
  BY <1>3, <1>4 DEF Cover

\* A thread that begins to wake the worker adds to what is accounted for.
LEMMA CoverBegin ==
    ASSUME TypeOK, NEW p \in Threads, apc[p] = "idle", NEW x,
           apc' = [apc EXCEPT ![p] = "load"], target' = [target EXCEPT ![p] = x],
           UNCHANGED next_expires_at_, NEW e, Cover(e) \/ x <= e
    PROVE  Cover(e)'
<1> USE ZenonT(40)
<1>1. CASE next_expires_at_ <= e
  BY <1>1 DEF Cover
<1>2. CASE OnItsWay(e)
  <2>1. PICK q \in Threads : apc[q] # "idle" /\ target[q] <= e
    BY <1>2 DEF OnItsWay
  <2>2. apc'[q] = apc[q] /\ target'[q] = target[q]
    BY <2>1 DEF TypeOK
  <2> QED
    BY <2>1, <2>2 DEF Cover, OnItsWay
<1>3. CASE x <= e
  <2>1. apc'[p] # "idle" /\ target'[p] <= e
    BY <1>3 DEF TypeOK
  <2> QED
    BY <2>1 DEF Cover, OnItsWay
<1> QED
  BY <1>1, <1>2, <1>3 DEF Cover

\* A step that changes neither the queues, nor the heap, nor what is accounted for.
LEMMA CoveredFrame ==
    ASSUME TypeOK, Covered, UNCHANGED <<expires_at, queueVars, timers_>>,
           \A e \in Nat : Cover(e) => Cover(e)',
           wpc = "reap" => wpc' = "reap" /\ reaped' = reaped,
           wpc' \in {"lock", "test", "block", "asleep"} =>
               wpc \in {"lock", "test", "block", "asleep"}
    PROVE  Covered'
<1>1. /\ \A p \in Threads : earliest[p] \in Nat
      /\ \A t \in timers_ : expires_at[t] \in Nat
  BY Constants DEF TypeOK, Times
<1>2. UNCHANGED <<expires_at, queue, earliest, timers_>>
  BY Zenon DEF queueVars
<1> QED
  BY <1>1, <1>2, Zenon DEF Covered

\* Times are ordered.
LEMMA LeqTransitive ==
    ASSUME NEW a \in Nat, NEW b \in Nat, NEW c \in Nat, a <= b, b <= c
    PROVE  a <= c
  OBVIOUS

\* What is not after a time that comes before n is not n.
LEMMA NotAfter ==
    ASSUME NEW a \in Nat, NEW b \in Nat, NEW n \in Nat, a <= b, b < n
    PROVE  a # n
  OBVIOUS

\* After EnableTimer somebody still sees to every timer: its caller is on its way to the worker.
LEMMA EnableCovered ==
    ASSUME TypeOK, Created, Covered, NEW p \in Threads, NEW t \in Timers, EnableTimer(p, t)
    PROVE  Covered'
<1> USE ZenonT(40)
<1>1. PICK at \in 0..MaxTime :
        /\ expires_at' = [expires_at EXCEPT ![t] = CreateTimer(t, at)]
        /\ AddTimer(p, t, CreateTimer(t, at))
  BY DEF EnableTimer
<1>2. PICK e \in Nat : e = CreateTimer(t, at)
  BY Constants, SMT DEF CreateTimer, TypeOK
<1>3. /\ apc[p] = "idle" /\ UNCHANGED <<timers_, next_expires_at_, wpc, reaped>>
      /\ queue' = [queue EXCEPT ![p] = @ \cup {t}]
      /\ expires_at' = [expires_at EXCEPT ![t] = e]
      /\ t \notin timers_ /\ \A q \in Threads : t \notin queue[q]
  BY <1>1, <1>2 DEF EnableTimer, AddTimer, Created, fireVars
<1>4. \/ /\ earliest[p] > e
         /\ earliest' = [earliest EXCEPT ![p] = e]
         /\ target' = [target EXCEPT ![p] = e]
         /\ apc' = [apc EXCEPT ![p] = "load"]
      \/ ~(earliest[p] > e) /\ UNCHANGED <<earliest, target, apc>>
  BY <1>1, <1>2 DEF AddTimer
<1>5. /\ \A x : Cover(x) => Cover(x)'
      /\ \A q \in Threads : earliest'[q] = earliest[q] \/ (q = p /\ earliest'[q] = e /\ Cover(e)')
      /\ earliest'[p] <= e /\ earliest'[p] <= earliest[p]
  <2>0. earliest \in [Threads -> Times] /\ earliest[p] \in Nat
    BY Constants, SMT DEF TypeOK, Times
  <2>1. CASE earliest[p] > e /\ earliest' = [earliest EXCEPT ![p] = e]
             /\ target' = [target EXCEPT ![p] = e] /\ apc' = [apc EXCEPT ![p] = "load"]
    <3>1. \A x : Cover(x) \/ e <= x => Cover(x)'
      BY <1>3, <2>1, CoverBegin
    <3>2. e <= e
      BY <1>2, SMT
    <3> QED
      BY <2>0, <2>1, <3>1, <3>2, SMT
  <2>2. CASE ~(earliest[p] > e) /\ UNCHANGED <<earliest, target, apc>>
    BY <1>3, <2>0, <2>2, CoverFrame, SMT
  <2> QED
    BY <1>4, <2>1, <2>2
<1>6. ASSUME NEW q \in Threads, NEW u \in queue'[q]
      PROVE  earliest'[q] <= expires_at'[u]
  <2>1. u \in Timers /\ (u \in queue[q] \/ (u = t /\ q = p))
    BY <1>3 DEF TypeOK
  <2>2. /\ earliest[q] \in Nat /\ expires_at[u] \in Nat /\ earliest'[q] <= earliest[q]
        /\ earliest'[q] \in Nat
    BY <1>5, <2>1, Constants, SMT DEF TypeOK, Times
  <2>3. CASE u \in queue[q]
    <3>1. expires_at'[u] = expires_at[u] /\ earliest[q] <= expires_at[u]
      BY <1>3, <2>1, <2>3 DEF Covered, TypeOK
    <3> QED
      BY <2>2, <3>1, LeqTransitive
  <2>4. CASE u = t /\ q = p
    BY <1>3, <1>5, <2>4 DEF TypeOK
  <2> QED
    BY <2>1, <2>3, <2>4
<1>7. ASSUME NEW q \in Threads
      PROVE  \/ earliest'[q] = Never
             \/ Cover(earliest[q])'
             \/ wpc' = "reap" /\ reaped' <= q
  BY <1>3, <1>5 DEF Covered
<1>8. ASSUME wpc' \in {"lock", "test", "block", "asleep"}, NEW u \in timers_'
      PROVE  Cover(expires_at[u])'
  <2>1. u \in Timers /\ u \in timers_ /\ u # t /\ wpc \in {"lock", "test", "block", "asleep"}
    BY <1>3, <1>8 DEF TypeOK
  <2>2. expires_at'[u] = expires_at[u]
    BY <1>3, <2>1 DEF TypeOK
  <2> QED
    BY <1>5, <2>1, <2>2 DEF Covered
<1> QED
  BY <1>6, <1>7, <1>8 DEF Covered

\* So it is when AddTimer wakes the worker, or finds that it need not.
LEMMA WakeCovered ==
    ASSUME TypeOK, Asleep, Covered, NEW p \in Threads, WakeStep(p)
    PROVE  Covered'
<1>1. UNCHANGED <<entryVars, queueVars, timers_, wpc, fireVars>>
  BY Zenon DEF WakeStep, WakeLoad, WakeCas
<1> QED
  BY <1>1, CoverWake, CoveredFrame, Zenon DEF entryVars, fireVars

\* Steps that touch no timer and no deadline lose nothing.
LEMMA RestCovered ==
    ASSUME TypeOK, Covered,
           \/ \E t \in Timers : RemoveTimer(t) \/ DetachTimer(t) \/ Run(t)
           \/ Stop \/ Tick
    PROVE  Covered'
<1>1. UNCHANGED <<expires_at, queueVars, timers_, next_expires_at_, apc, target, wpc, reaped>>
  BY Zenon DEF RemoveTimer, DetachTimer, Run, RunEnter, RunReturn, Stop, Tick, entryVars, wakeVars, fireVars
<1> QED
  BY <1>1, CoverFrame, CoveredFrame, Zenon

\* Collecting a thread's queue loses nothing.
LEMMA ReapCovered ==
    ASSUME TypeOK, Created, Covered, ReapThreadLocalQueues
    PROVE  Covered'
<1> USE ZenonT(40)
<1>1. /\ queue' = [queue EXCEPT ![reaped] = {}]
      /\ earliest' = [earliest EXCEPT ![reaped] = Never]
      /\ \/ reaped = GroupSize /\ wpc' = "fire"
         \/ reaped # GroupSize /\ reaped' = reaped + 1 /\ wpc' = "reap"
      /\ UNCHANGED <<expires_at, next_expires_at_, apc, target>>
  BY DEF ReapThreadLocalQueues, At, entryVars, wakeVars
<1>2. reaped \in 0..GroupSize /\ Threads = 0..GroupSize
  BY DEF Created, Threads
<1>3. ASSUME NEW q \in Threads, NEW u \in queue'[q]
      PROVE  earliest'[q] <= expires_at'[u]
  <2>1. q # reaped
    BY <1>1, <1>2 DEF TypeOK
  <2> QED
    BY <1>1, <2>1 DEF Covered, TypeOK
<1>4. ASSUME NEW q \in Threads
      PROVE  \/ earliest'[q] = Never
             \/ Cover(earliest[q])'
             \/ wpc' = "reap" /\ reaped' <= q
  <2>1. CASE q = reaped
    BY <1>1, <2>1 DEF TypeOK
  <2>2. CASE q # reaped
    <3>1. earliest'[q] = earliest[q]
      BY <1>1, <2>2 DEF TypeOK
    <3>2. earliest[q] = Never \/ Cover(earliest[q]) \/ reaped <= q
      BY DEF Covered
    <3>3. reaped <= q => wpc' = "reap" /\ reaped' <= q
      BY <1>1, <1>2, <2>2, Constants, SMT
    <3> QED
      BY <1>1, <3>1, <3>2, <3>3, CoverFrame
  <2> QED
    BY <2>1, <2>2
<1> QED
  BY <1>1, <1>3, <1>4 DEF Covered

\* No step of the worker loses a timer.
LEMMA WorkerCovered ==
    ASSUME TypeOK, Created, Covered, WorkerProc \/ SpuriousWake
    PROVE  Covered'
<1> USE ZenonT(40)
<1>1. CASE Loop
  <2>1. CASE stopped_
    <3>1. /\ wpc = "loop" /\ wpc' = "left"
          /\ UNCHANGED <<expires_at, queueVars, timers_, next_expires_at_, apc, target>>
      BY <1>1, <2>1 DEF Loop, At, entryVars, wakeVars
    <3> QED
      BY <3>1, CoverFrame, CoveredFrame
  <2>2. CASE ~stopped_
    <3>1. /\ wpc' = "reap" /\ reaped' = 0
          /\ UNCHANGED <<expires_at, queue, earliest>>
      BY <1>1, <2>2 DEF Loop, At, Created, entryVars, queueVars, fireVars
    <3>2. \A p \in Threads : 0 <= p
      BY Constants, SMT DEF Threads
    <3> QED
      BY <3>1, <3>2 DEF Covered
  <2> QED
    BY <2>1, <2>2
<1>2. CASE ReapThreadLocalQueues
  BY <1>2, ReapCovered
<1>3. CASE FireTimers \/ FireTop \/ FireTake \/ FireCall
  <2>1. /\ wpc \in {"fire", "top", "take", "call"}
        /\ wpc' \in {"top", "rearm", "take", "call", "callback"}
        /\ UNCHANGED <<expires_at, queue, earliest, next_expires_at_, apc, target>>
    BY <1>3 DEF FireTimers, FireTop, FireTake, FireCall, FireEnds, SkipCancelled, At,
                entryVars, queueVars, wakeVars
  <2> QED
    BY <2>1, CoverFrame DEF Covered
<1>4. CASE FireAgain
  <2>1. /\ wpc = "callback" /\ wpc' = "top"
        /\ UNCHANGED <<queue, earliest, next_expires_at_, apc, target>>
        /\ expires_at' = expires_at \/ expires_at' = [expires_at EXCEPT ![top] = @ + Interval]
    BY <1>4 DEF FireAgain, At, queueVars, wakeVars
  <2>2. ASSUME NEW q \in Threads, NEW u \in queue[q]
        PROVE  earliest[q] <= expires_at'[u]
    <3>1. /\ earliest[q] \in Nat /\ u \in Timers /\ expires_at[u] \in Nat
          /\ earliest[q] <= expires_at[u]
      BY Constants, SMT DEF TypeOK, Times, Covered
    <3>2. expires_at'[u] = expires_at[u] \/ expires_at'[u] = expires_at[u] + Interval
      BY <2>1, <3>1, SMT DEF TypeOK
    <3> QED
      BY <3>1, <3>2, Constants, SMT
  <2> QED
    BY <2>1, <2>2, CoverFrame DEF Covered
<1>5. CASE Rearm
  <2>1. /\ wpc = "rearm" /\ wpc' = "lock" /\ apc[Worker] = "idle"
        /\ UNCHANGED <<expires_at, queue, earliest, timers_, next_expires_at_>>
    BY <1>5 DEF Rearm, At, entryVars, queueVars
  <2>2. /\ \A x : Cover(x) => Cover(x)'
        /\ \A u \in timers_ : Cover(expires_at[u])'
    <3>1. CASE timers_ = {} /\ UNCHANGED <<apc, target>>
      BY <2>1, <3>1, CoverFrame
    <3>2. CASE \E t \in Timers : /\ IsTop(t)
                                 /\ apc' = [apc EXCEPT ![Worker] = "load"]
                                 /\ target' = [target EXCEPT ![Worker] = expires_at[t]]
      <4>1. PICK t \in Timers : /\ IsTop(t)
                                /\ apc' = [apc EXCEPT ![Worker] = "load"]
                                /\ target' = [target EXCEPT ![Worker] = expires_at[t]]
        BY <3>2
      <4>2. \A x : Cover(x) \/ expires_at[t] <= x => Cover(x)'
        BY <2>1, <4>1, Constants, CoverBegin
      <4>3. \A u \in timers_ : expires_at[t] <= expires_at'[u]
        BY <2>1, <4>1 DEF IsTop
      <4> QED
        BY <4>2, <4>3
    <3> QED
      BY <1>5, <3>1, <3>2 DEF Rearm
  <2> QED
    BY <2>1, <2>2 DEF Covered
<1>6. CASE Lock \/ Test \/ Block \/ Wake \/ SpuriousWake
  <2>1. /\ wpc \in {"lock", "test", "block", "asleep"}
        /\ UNCHANGED <<expires_at, queueVars, timers_, next_expires_at_, apc, target>>
    BY <1>6 DEF Lock, Test, Block, Wake, SpuriousWake, At, entryVars, wakeVars
  <2> QED
    BY <2>1, CoverFrame, CoveredFrame
<1> QED
  BY <1>1, <1>2, <1>3, <1>4, <1>5, <1>6 DEF WorkerProc

-----------------------------------------------------------------------------
\* The worker sleeps on what it has read

\* What the worker has read under lock_ stays true while it sleeps, whatever AddTimer does.
LEMMA AsleepStep ==
    ASSUME TypeOK, Asleep, Next
    PROVE  Asleep'
<1> USE ZenonT(40)
<1>1. CASE UserStep
  <2>1. UNCHANGED <<next_expires_at_, sleepVars, r, wpc>>
    BY <1>1 DEF UserStep, EnableTimer, RemoveTimer, DetachTimer, wakeVars
  <2>2. ASSUME NEW p \in Threads, apc'[p] = "cas"
        PROVE  apc[p] = "cas" /\ target'[p] = target[p]
    <3>1. CASE UNCHANGED <<apc, target>>
      BY <2>2, <3>1
    <3>2. CASE \E q \in Threads, e \in Nat : /\ apc' = [apc EXCEPT ![q] = "load"]
                                             /\ target' = [target EXCEPT ![q] = e]
      BY <2>2, <3>2 DEF TypeOK
    <3>3. ASSUME NEW q \in Threads, NEW t \in Timers, EnableTimer(q, t)
          PROVE  \/ UNCHANGED <<apc, target>>
                 \/ \E e \in Nat : /\ apc' = [apc EXCEPT ![q] = "load"]
                                   /\ target' = [target EXCEPT ![q] = e]
      <4>1. PICK at \in 0..MaxTime : AddTimer(q, t, CreateTimer(t, at))
        BY <3>3 DEF EnableTimer
      <4>2. CreateTimer(t, at) \in Nat
        BY Constants, SMT DEF CreateTimer, TypeOK
      <4> QED
        BY <4>1, <4>2 DEF AddTimer
    <3> QED
      BY <1>1, <3>1, <3>2, <3>3 DEF UserStep, RemoveTimer, DetachTimer, wakeVars
  <2> QED
    BY <2>1, <2>2 DEF Asleep, sleepVars
<1>2. ASSUME NEW p \in Threads, WakeStep(p)
      PROVE  Asleep'
  <2>1. UNCHANGED <<stopped_, lock_, expected, wpc>>
    BY <1>2 DEF WakeStep, WakeLoad, WakeCas, sleepVars
  <2>2. \/ UNCHANGED <<next_expires_at_, notified>>
        \/ ~lock_ /\ notified' = (notified \/ wpc = "asleep")
    BY <1>2 DEF WakeStep, WakeLoad, WakeCas, sleepVars
  <2>3. wpc' = "block" \/ (wpc' = "asleep" /\ ~notified') =>
          next_expires_at_' = expected' /\ ~stopped_'
    BY <2>1, <2>2 DEF Asleep, TypeOK
  <2>4. ASSUME NEW q \in Threads, apc'[q] = "cas"
        PROVE  target'[q] < r'[q]
    <3>0. next_expires_at_ \in Nat /\ target[p] \in Nat
      BY Constants, SMT DEF TypeOK, Times
    <3>1. \/ Return(p)
          \/ /\ apc' = [apc EXCEPT ![p] = "cas"] /\ UNCHANGED target
             /\ r' = [r EXCEPT ![p] = next_expires_at_] /\ ~(next_expires_at_ <= target[p])
      BY <1>2 DEF WakeStep, WakeLoad, WakeCas, Compare
    <3>2. CASE q = p
      BY <2>4, <3>0, <3>1, <3>2, SMT DEF Return, TypeOK
    <3>3. CASE q # p
      <4>1. apc'[q] = apc[q] /\ target'[q] = target[q] /\ r'[q] = r[q]
        BY <3>1, <3>3 DEF Return, TypeOK
      <4> QED
        BY <2>4, <4>1 DEF Asleep
    <3> QED
      BY <3>2, <3>3
  <2> QED
    BY <2>1, <2>3, <2>4 DEF Asleep
<1>3. CASE Loop \/ ReapThreadLocalQueues \/ FireTimers \/ FireTop \/ FireTake \/ FireCall
           \/ FireAgain \/ Rearm
  <2>1. /\ wpc \in {"loop", "reap", "fire", "top", "take", "call", "callback", "rearm"}
        /\ wpc' \notin {"test", "block", "asleep"}
        /\ lock_' = lock_ /\ r' = r
    BY <1>3 DEF Loop, ReapThreadLocalQueues, FireTimers, FireTop, FireTake, FireCall, FireAgain,
                Rearm, FireEnds, SkipCancelled, At, sleepVars, wakeVars
  <2>2. ASSUME NEW p \in Threads, apc'[p] = "cas"
        PROVE  apc[p] = "cas" /\ target'[p] = target[p]
    BY <1>3, <2>2 DEF Loop, ReapThreadLocalQueues, FireTimers, FireTop, FireTake, FireCall,
                FireAgain, Rearm, At, wakeVars, TypeOK
  <2> QED
    BY <2>1, <2>2 DEF Asleep
<1>4. CASE Lock \/ Test \/ Block \/ Wake \/ SpuriousWake \/ Stop
  <2>1. UNCHANGED <<apc, target, r, next_expires_at_>>
    BY <1>4 DEF Lock, Test, Block, Wake, SpuriousWake, Stop, wakeVars
  <2>2. lock_' <=> wpc' \in {"test", "block"}
    BY <1>4, SMT DEF Lock, Test, Block, Wake, SpuriousWake, Stop, At, Asleep
  <2>3. wpc' = "block" \/ (wpc' = "asleep" /\ ~notified') =>
          next_expires_at_' = expected' /\ ~stopped_'
    BY <1>4 DEF Lock, Test, Block, Wake, SpuriousWake, Stop, At, Asleep
  <2> QED
    BY <2>1, <2>2, <2>3 DEF Asleep
<1>5. CASE (\E t \in Periodic : Run(t)) \/ Tick
  <2>1. UNCHANGED <<next_expires_at_, sleepVars, wakeVars, wpc>>
    BY <1>5 DEF Run, RunEnter, RunReturn, Tick
  <2> QED
    BY <2>1 DEF Asleep, sleepVars, wakeVars
<1> QED
  BY <1>1, <1>2, <1>3, <1>4, <1>5 DEF Next, WorkerProc

-----------------------------------------------------------------------------
\* Where callbacks are, and how often they are called

\* A callback stays in one place: in its timer, taken out of it, or called.
LEMMA CallbackStep ==
    ASSUME TypeOK, Created, CallbackPlace, Next
    PROVE  CallbackPlace'
<1> USE ZenonT(40)
<1>1. ASSUME NEW p \in Threads, NEW t \in Timers, EnableTimer(p, t)
      PROVE  CallbackPlace'
  <2>1. /\ handle[t] = "new" /\ cb' = [cb EXCEPT ![t] = TRUE]
        /\ UNCHANGED <<cancelled, wpc, top, fired>>
    BY <1>1 DEF EnableTimer, fireVars
  <2>2. ~cancelled[t] /\ fired[t] = 0 /\ (wpc = "call" => top # t)
    BY <2>1 DEF Created, Firing
  <2>3. cb'[t] /\ \A u \in Timers \ {t} : cb'[u] = cb[u]
    BY <2>1 DEF TypeOK
  <2>4. wpc = "call" => top \in Timers
    BY DEF Created, Firing
  <2> QED
    BY <2>1, <2>2, <2>3, <2>4 DEF CallbackPlace
<1>2. ASSUME NEW t \in Timers, RemoveTimer(t) \/ DetachTimer(t)
      PROVE  CallbackPlace'
  <2>1. /\ UNCHANGED <<wpc, top, fired>>
        /\ \A u \in Timers : (cancelled'[u] => cancelled[u] \/ ~cb'[u]) /\ (cb'[u] => cb[u])
    BY <1>2 DEF RemoveTimer, DetachTimer, fireVars, TypeOK
  <2>2. wpc = "call" => top \in Timers
    BY DEF Created, Firing
  <2> QED
    BY <2>1, <2>2 DEF CallbackPlace
<1>3. CASE FireTop \/ FireTake
  <2>1. /\ UNCHANGED <<cancelled, fired>> /\ wpc # "call"
        /\ \/ wpc' # "call" /\ \A u \in Timers : cb'[u] => cb[u]
           \/ /\ wpc = "take" /\ wpc' = "call" /\ UNCHANGED top /\ cb[top]
              /\ cb' = [cb EXCEPT ![top] = FALSE]
    BY <1>3 DEF FireTop, FireTake, FireEnds, SkipCancelled, At, entryVars, fireVars, TypeOK
  <2>2. wpc = "take" => top \in Timers
    BY DEF Created, Firing
  <2>3. /\ \A u \in Timers : cb'[u] => cb[u]
        /\ wpc' = "call" => UNCHANGED top /\ cb[top] /\ top \in Timers /\ ~cb'[top]
    BY <2>1, <2>2 DEF TypeOK
  <2> QED
    BY <2>1, <2>3 DEF CallbackPlace
<1>4. CASE FireCall
  <2>1. /\ wpc = "call" /\ wpc' = "callback" /\ UNCHANGED <<cancelled, cb>>
        /\ fired' = [fired EXCEPT ![top] = @ + 1] /\ top \in Timers
    BY <1>4 DEF FireCall, At, entryVars, Created, Firing
  <2>2. \A u \in Timers \ Periodic :
           fired'[u] = fired[u] \/ (fired[u] = 0 /\ fired'[u] = 1 /\ ~cb[u])
    BY <2>1, SMT DEF CallbackPlace, TypeOK
  <2> QED
    BY <2>1, <2>2, SMT DEF CallbackPlace
<1>5. CASE FireAgain
  <2>1. /\ wpc' = "top" /\ UNCHANGED <<cancelled, fired>> /\ top \in Timers
        /\ \/ top \in Periodic /\ ~cancelled[top] /\ cb' = [cb EXCEPT ![top] = TRUE]
           \/ UNCHANGED cb
    BY <1>5 DEF FireAgain, At, entryVars, Created, Firing
  <2>2. \A u \in Timers : cb'[u] = cb[u] \/ (u \in Periodic /\ ~cancelled[u])
    BY <2>1 DEF TypeOK
  <2> QED
    BY <2>1, <2>2 DEF CallbackPlace
<1>6. CASE \/ \E p \in Threads : WakeStep(p)
           \/ Loop \/ ReapThreadLocalQueues \/ FireTimers \/ Rearm \/ Lock \/ Test \/ Block
           \/ Wake \/ SpuriousWake \/ Stop \/ (\E t \in Periodic : Run(t)) \/ Tick
  <2>1. /\ UNCHANGED <<cancelled, cb, fired>>
        /\ wpc' = "call" => wpc = "call" /\ UNCHANGED top
    BY <1>6 DEF WakeStep, WakeLoad, WakeCas, Loop, ReapThreadLocalQueues, FireTimers, Rearm,
                Lock, Test, Block, Wake, SpuriousWake, Stop, Run, RunEnter, RunReturn, Tick,
                At, entryVars, fireVars
  <2> QED
    BY <2>1 DEF CallbackPlace
<1> QED
  BY <1>1, <1>2, <1>3, <1>4, <1>5, <1>6 DEF Next, UserStep, WorkerProc

\* The calls of a periodic callback stay in step with its timer.
LEMMA KeepUpStep ==
    ASSUME TypeOK, Created, CallsKeepUp, Next
    PROVE  CallsKeepUp'
<1> USE ZenonT(40)
<1>0. Periodic \subseteq Timers
  BY TimersAssumption
<1>1. CASE FireCall
  <2>1. /\ UNCHANGED <<remaining, running, calls>> /\ top \in Timers
        /\ fired' = [fired EXCEPT ![top] = @ + 1]
        /\ started' = IF top \in Periodic THEN [started EXCEPT ![top] = @ + 1] ELSE started
    BY <1>1 DEF FireCall, At, Created, Firing
  <2> SUFFICES ASSUME NEW u \in Periodic
               PROVE  started'[u] + remaining[u] + calls[u] = fired'[u]
    BY <2>1 DEF CallsKeepUp
  <2>2. /\ started[u] \in Nat /\ remaining[u] \in Nat /\ calls[u] \in Nat /\ fired[u] \in Nat
        /\ started[u] + remaining[u] + calls[u] = fired[u]
    BY <1>0 DEF TypeOK, CallsKeepUp
  <2>3. \/ started'[u] = started[u] + 1 /\ fired'[u] = fired[u] + 1
        \/ started'[u] = started[u] /\ fired'[u] = fired[u]
    BY <1>0, <2>1 DEF TypeOK
  <2> QED
    BY <2>2, <2>3, SMT
<1>2. ASSUME NEW t \in Periodic, Run(t)
      PROVE  CallsKeepUp'
  <2>1. /\ UNCHANGED fired
        /\ \A u \in Periodic \ {t} : /\ started'[u] = started[u] /\ remaining'[u] = remaining[u]
                                    /\ running'[u] = running[u] /\ calls'[u] = calls[u]
    BY <1>0, <1>2, SMT DEF Run, RunEnter, RunReturn, TypeOK
  <2>2. /\ started[t] \in Nat /\ remaining[t] \in Nat /\ calls[t] \in Nat /\ fired[t] \in Nat
        /\ started[t] + remaining[t] + calls[t] = fired[t]
        /\ running[t] = IF remaining[t] = 0 THEN 0 ELSE 1
    BY <1>0 DEF TypeOK, CallsKeepUp
  <2>3. \/ /\ started[t] > 0 /\ started'[t] = started[t] - 1 /\ remaining'[t] = remaining[t] + 1
           /\ running'[t] = IF remaining[t] = 0 THEN running[t] + 1 ELSE running[t]
           /\ calls'[t] = calls[t]
        \/ /\ running[t] > 0 /\ started'[t] = started[t] /\ remaining'[t] = remaining[t] - 1
           /\ running'[t] = IF remaining[t] # 1 THEN running[t] ELSE running[t] - 1
           /\ calls'[t] = calls[t] + 1
    BY <1>0, <1>2 DEF Run, RunEnter, RunReturn, TypeOK
  <2>4. /\ running'[t] = IF remaining'[t] = 0 THEN 0 ELSE 1
        /\ started'[t] + remaining'[t] + calls'[t] = fired[t]
    BY <2>2, <2>3, SMT
  <2> QED
    BY <2>1, <2>4, SMT DEF CallsKeepUp
<1>3. CASE ~FireCall /\ ~\E t \in Periodic : Run(t)
  <2>1. UNCHANGED <<fired, runVars>>
    BY <1>3 DEF Next, UserStep, WorkerProc, EnableTimer, RemoveTimer, DetachTimer, WakeStep,
                WakeLoad, WakeCas, Loop, ReapThreadLocalQueues, FireTimers, FireTop, FireTake,
                FireAgain, Rearm, Lock, Test, Block, Wake, SpuriousWake, Stop, Tick
  <2> QED
    BY <2>1 DEF CallsKeepUp, runVars
<1> QED
  BY <1>1, <1>2, <1>3

-----------------------------------------------------------------------------
\* The inductive invariant

\* The invariant of the timer worker holds before the first step.
LEMMA InitInv ==
    ASSUME Init
    PROVE  IInv
<1>1. Covered
  BY Zenon DEF Init, Covered
<1>2. Asleep /\ CallbackPlace
  BY DEF Init, Asleep, CallbackPlace
<1>3. CallsKeepUp
  BY TimersAssumption DEF Init, CallsKeepUp
<1> QED
  BY <1>1, <1>2, <1>3, InitTypes, Zenon DEF IInv

\* Every step of the users and of the worker keeps it.
LEMMA NextInv ==
    ASSUME IInv, Next
    PROVE  IInv'
<1> USE ZenonT(40) DEF IInv
<1>1. CASE \E p \in Threads, t \in Timers : EnableTimer(p, t)
  BY <1>1, EnableTypes, EnableCovered, AsleepStep, CallbackStep, KeepUpStep
<1>2. CASE \E t \in Timers : RemoveTimer(t) \/ DetachTimer(t)
  BY <1>2, RemoveTypes, RestCovered, AsleepStep, CallbackStep, KeepUpStep
<1>3. CASE \E p \in Threads : WakeStep(p)
  BY <1>3, WakeTypes, WakeCovered, AsleepStep, CallbackStep, KeepUpStep
<1>4. CASE WorkerProc \/ SpuriousWake
  BY <1>4, WorkerTypes, WorkerCovered, AsleepStep, CallbackStep, KeepUpStep
<1>5. CASE Stop \/ Tick
  BY <1>5, WorkerTypes, RestCovered, AsleepStep, CallbackStep, KeepUpStep
<1>6. CASE \E t \in Periodic : Run(t)
  <2>1. PICK t \in Periodic : Run(t)
    BY <1>6
  <2>2. t \in Timers
    BY TimersAssumption
  <2>3. remaining[t] >= running[t]
    <3>1. remaining[t] \in Nat /\ running[t] = IF remaining[t] = 0 THEN 0 ELSE 1
      BY <2>2 DEF TypeOK, CallsKeepUp
    <3> QED
      BY <3>1, SMT
  <2> QED
    BY <2>1, <2>2, <2>3, RunTypes, RestCovered, AsleepStep, CallbackStep, KeepUpStep
<1> QED
  BY <1>1, <1>2, <1>3, <1>4, <1>5, <1>6 DEF Next, UserStep

\* Steps of others keep it.
LEMMA StutterInv ==
    ASSUME IInv, UNCHANGED vars
    PROVE  IInv'
<1> USE DEF vars, entryVars, queueVars, sleepVars, wakeVars, fireVars, runVars
<1>1. TypeOK' /\ Created'
  BY DEF IInv, TypeOK, Created, Firing
<1>2. Covered'
  BY CoverFrame, Zenon DEF IInv, Covered
<1>3. Asleep' /\ CallbackPlace' /\ CallsKeepUp'
  BY Zenon DEF IInv, Asleep, CallbackPlace, CallsKeepUp
<1> QED
  BY <1>1, <1>2, <1>3, Zenon DEF IInv

\* The invariant of the whole timer worker.
THEOREM Invariant == Spec => []IInv
<1>1. Init => IInv
  BY InitInv, Zenon
<1>2. IInv /\ [Next]_vars => IInv'
  BY NextInv, StutterInv, Zenon
<1> QED
  BY <1>1, <1>2, PTL DEF Spec

-----------------------------------------------------------------------------
\* Types: every variable of TimerWorker keeps its type; an expiration time stays below
\* Never, which is what next_expires_at_ holds when there is no timer.
THEOREM TypeCorrect == Spec => []TypeOK
<1>1. IInv => TypeOK
  BY Zenon DEF IInv
<1> QED
  BY <1>1, Invariant, PTL

\* TimerWorker::WorkerProc sleeps through no timer and not through Stop, whatever the
\* number of threads that add timers and wherever they are in AddTimer.
THEOREM NeverMissesATimer == Spec => []NoMissedTimer
<1>1. IInv => NoMissedTimer
  <2> SUFFICES ASSUME IInv, wpc = "asleep", ~notified
               PROVE  /\ ~stopped_
                      /\ \A t \in timers_ \cup UNION {queue[p] : p \in Threads} :
                            expected <= expires_at[t] \/ OnItsWay(expires_at[t])
    BY Zenon DEF NoMissedTimer
  <2>1. next_expires_at_ = expected /\ ~stopped_
    BY Zenon DEF IInv, Asleep
  <2>2. ASSUME NEW t \in timers_
        PROVE  expected <= expires_at[t] \/ OnItsWay(expires_at[t])
    BY <2>1, Zenon DEF IInv, Covered, Cover
  <2>3. ASSUME NEW p \in Threads, NEW t \in queue[p]
        PROVE  expected <= expires_at[t] \/ OnItsWay(expires_at[t])
    <3>1. /\ earliest[p] \in Nat /\ expires_at[t] \in Nat /\ expires_at[t] < Never
          /\ expected \in Nat /\ \A q \in Threads : target[q] \in Nat
      BY Constants DEF IInv, TypeOK, Times
    <3>2. earliest[p] <= expires_at[t]
      BY Zenon DEF IInv, Covered
    <3>3. earliest[p] # Never
      BY <3>1, <3>2, Constants, NotAfter, Zenon
    <3>4. Cover(earliest[p])
      BY <3>3, Zenon DEF IInv, Covered
    <3>5. CASE expected <= earliest[p]
      BY <3>1, <3>2, <3>5, LeqTransitive, Zenon
    <3>6. CASE OnItsWay(earliest[p])
      BY <3>1, <3>2, <3>6, LeqTransitive, Zenon DEF OnItsWay
    <3> QED
      BY <2>1, <3>4, <3>5, <3>6, Zenon DEF Cover
  <2> QED
    BY <2>1, <2>2, <2>3, Zenon
<1> QED
  BY <1>1, Invariant, PTL

\* A killed timer holds no callback, although FireTimers puts that of a periodic timer
\* back after each call.
THEOREM CallbackIsReleased == Spec => []CallbackReleased
<1>1. IInv => CallbackReleased
  BY Zenon DEF IInv, CallbackPlace, CallbackReleased
<1> QED
  BY <1>1, Invariant, PTL

\* FireTimers calls no callback before its time, and that of a one-shot timer once.
THEOREM FiresOnTime == Spec => []FiredOnTime
<1>1. IInv => FiredOnTime
  <2> SUFFICES ASSUME IInv
               PROVE  FiredOnTime
    BY Zenon
  <2>1. \A t \in Timers \ Periodic : fired[t] <= 1
    BY Zenon DEF IInv, CallbackPlace
  <2>2. ASSUME wpc = "call"
        PROVE  expires_at[top] <= now /\ (top \notin Periodic => fired[top] = 0)
    <3>1. top \in Timers /\ expires_at[top] <= fire_now
      BY <2>2, Zenon DEF IInv, Created, Firing
    <3>2. expires_at[top] \in Nat /\ fire_now \in Nat /\ now \in Nat /\ fire_now <= now
      BY <3>1, Constants DEF IInv, TypeOK
    <3>3. expires_at[top] <= now
      BY <3>1, <3>2
    <3> QED
      BY <2>2, <3>3, Zenon DEF IInv, CallbackPlace
  <2> QED
    BY <2>1, <2>2, Zenon DEF FiredOnTime
<1> QED
  BY <1>1, Invariant, PTL

\* UserCallback::Run of a periodic timer: one fiber at most calls the user's callback,
\* and no call is lost or made twice.
THEOREM PeriodicCallsKeepUp == Spec => []CallsKeepUp
<1>1. IInv => CallsKeepUp
  BY Zenon DEF IInv
<1> QED
  BY <1>1, Invariant, PTL

\* After RemoveTimer the worker takes the callback out of the timer no more.
THEOREM NotTakenAfterRemoval == Spec => NotTakenAfterRemove
<1>1. ASSUME IInv, [Next]_vars
      PROVE  [\A t \in Timers : cancelled[t] /\ ~(wpc = "call" /\ top = t) =>
                 ~(wpc' = "call" /\ top' = t)]_vars
  <2> SUFFICES ASSUME Next, NEW t \in Timers, cancelled[t], wpc' = "call", top' = t
               PROVE  wpc = "call" /\ top = t
    BY <1>1, Zenon
  <2>1. CASE FireTake
    <3>1. cb[t]
      BY <2>1, Zenon DEF FireTake, fireVars
    <3> QED
      BY <1>1, <3>1, Zenon DEF IInv, CallbackPlace
  <2>2. CASE ~FireTake
    BY <2>2, Zenon DEF Next, UserStep, WorkerProc, EnableTimer, RemoveTimer, DetachTimer, WakeStep,
                WakeLoad, WakeCas, Loop, ReapThreadLocalQueues, FireTimers, FireTop, FireCall,
                FireAgain, Rearm, Lock, Test, Block, Wake, SpuriousWake, Stop, Tick, Run,
                RunEnter, RunReturn, FireEnds, SkipCancelled, At, fireVars
  <2> QED
    BY <2>1, <2>2, Zenon
<1> QED
  BY <1>1, Invariant, PTL DEF Spec, NotTakenAfterRemove
=============================================================================
