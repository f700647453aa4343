------------------------- MODULE StoreBufferProofs -------------------------
(***************************************************************************)
(* What one step of memory does to what the threads see, for any number of  *)
(* threads, locations and values.  The proofs about the hazard pointers and *)
(* the biased mutex use these lemmas and never look into a buffer.          *)
(***************************************************************************)
EXTENDS StoreBuffers, Integers, TLAPS

\* Among the stores to one location there is a youngest.
Ranked(stores) == \A i \in DOMAIN stores : \E j \in DOMAIN stores : IsYoungest(stores, stores[i][1], j)

\* z is s without its first element, and n long.
Shorter(z, s, n) ==
    DOMAIN s = 1..(n + 1) /\ DOMAIN z = 1..n /\ \A i \in 1..n : z[i] = s[i + 1]

\* Every store to l is followed by one to m.
Followed(stores, l, m) ==
    \A i \in DOMAIN stores :
        stores[i][1] = l => \E j \in DOMAIN stores : j > i /\ stores[j][1] = m

\* There is at most one store to l.
Once(stores, l) ==
    \A i, j \in DOMAIN stores : stores[i][1] = l /\ stores[j][1] = l => i = j

-----------------------------------------------------------------------------
(* Buffers.                                                                *)

\* A load returns the youngest store.
LEMMA SeenYoungest ==
    ASSUME NEW s, NEW n \in Nat, DOMAIN s = 1..n, NEW l, NEW c, NEW i, IsYoungest(s, l, i)
    PROVE  Stored(s, l) /\ Seen(s, c, l) = s[i][2]
<1>1. ASSUME NEW j \in DOMAIN s, IsYoungest(s, l, j)
      PROVE  j = i
  <2>1. i \in Int /\ j \in Int
    BY DEF IsYoungest
  <2>2. ~(j > i) /\ ~(i > j)
    BY <1>1 DEF IsYoungest
  <2> QED BY <2>1, <2>2
<1>2. i \in DOMAIN s
  BY DEF IsYoungest
<1>3. (CHOOSE j \in DOMAIN s : IsYoungest(s, l, j)) = i
  BY <1>1, <1>2
<1>4. Stored(s, l)
  BY DEF Stored, IsYoungest
<1> QED BY <1>3, <1>4, Zenon DEF Seen

\* Of memory only the location itself matters, and only if there is no store to it.
LEMMA SeenElsewhere ==
    \A s, c, d, m : Stored(s, m) \/ c[m] = d[m] => Seen(s, c, m) = Seen(s, d, m)
BY DEF Seen

\* One store more.
LEMMA AppendStore ==
    ASSUME NEW s, NEW n \in Nat, DOMAIN s = 1..n, Ranked(s), NEW l, NEW v,
           NEW z, DOMAIN z = 1..(n + 1), z[n + 1] = <<l, v>>, \A i \in 1..n : z[i] = s[i]
    PROVE  /\ Ranked(z)
           /\ \A m : Stored(z, m) <=> Stored(s, m) \/ m = l
           /\ \A c, m : Seen(z, c, m) = IF m = l THEN v ELSE Seen(s, c, m)
           /\ \A m, k : l # m /\ Followed(s, m, k) => Followed(z, m, k)
           /\ \A m : l # m => Followed(z, m, l)
           /\ \A m : l # m /\ Once(s, m) => Once(z, m)
           /\ ~Stored(s, l) => Once(z, l)
<1>1. /\ n + 1 \in 1..(n + 1) /\ n + 1 \in Nat
      /\ \A i \in 1..n : i \in 1..(n + 1) /\ i \in Nat /\ n + 1 > i /\ i # n + 1
      /\ \A i \in 1..(n + 1) : ~(i > n + 1) /\ i \in Nat /\ (i = n + 1 \/ i \in 1..n)
  OBVIOUS
<1>2. z[n + 1][1] = l /\ z[n + 1][2] = v
  OBVIOUS
<1>3. \A m, i : m # l /\ IsYoungest(s, m, i) => IsYoungest(z, m, i)
  BY <1>1, <1>2 DEF IsYoungest
<1>4. IsYoungest(z, l, n + 1)
  BY <1>1, <1>2 DEF IsYoungest
<1>5. Ranked(z)
  BY <1>1, <1>2, <1>3, <1>4, SMTT(30) DEF Ranked
<1>6. \A m : Stored(z, m) <=> Stored(s, m) \/ m = l
  BY <1>1, <1>2 DEF Stored
<1>7. ASSUME NEW c, NEW m
      PROVE  Seen(z, c, m) = IF m = l THEN v ELSE Seen(s, c, m)
  <2>1. CASE m = l
    BY <2>1, <1>1, <1>2, <1>4, SeenYoungest
  <2>2. CASE m # l /\ ~Stored(s, m)
    BY <2>2, <1>6 DEF Seen
  <2>3. CASE m # l /\ Stored(s, m)
    <3>1. PICK i \in DOMAIN s : IsYoungest(s, m, i)
      BY <2>3 DEF Stored, Ranked
    <3>2. IsYoungest(z, m, i) /\ z[i] = s[i]
      BY <3>1, <2>3, <1>3
    <3>3. Seen(s, c, m) = s[i][2]
      BY <3>1, SeenYoungest
    <3>4. Seen(z, c, m) = z[i][2]
      BY <3>2, <1>1, SeenYoungest
    <3> QED BY <3>2, <3>3, <3>4, <2>3
  <2> QED BY <2>1, <2>2, <2>3
<1>8. ASSUME NEW m, NEW k, l # m, Followed(s, m, k)
      PROVE  Followed(z, m, k)
  BY <1>8, <1>1, <1>2 DEF Followed
<1>9. \A m : l # m => Followed(z, m, l)
  BY <1>1, <1>2 DEF Followed
<1>10. ASSUME NEW m, l # m, Once(s, m)
       PROVE  Once(z, m)
  BY <1>10, <1>1, <1>2 DEF Once
<1>11. ~Stored(s, l) => Once(z, l)
  BY <1>1, <1>2 DEF Once, Stored
<1> QED BY <1>5, <1>6, <1>7, <1>8, <1>9, <1>10, <1>11

\* The oldest store leaves, for contents d that have it in place of what c had.
LEMMA RemoveStore ==
    ASSUME NEW s, NEW z, NEW n \in Nat, Shorter(z, s, n), Ranked(s), NEW l, NEW v, s[1] = <<l, v>>
    PROVE  /\ Ranked(z) /\ Stored(s, l)
           /\ \A m : Stored(z, m) => Stored(s, m)
           /\ \A m : m # l => (Stored(z, m) <=> Stored(s, m))
           /\ \A c, d, m : d[m] = (IF m = l THEN v ELSE c[m]) => Seen(z, d, m) = Seen(s, c, m)
           /\ \A m, k : Followed(s, m, k) => Followed(z, m, k)
           /\ \A m : Once(s, m) => Once(z, m)
           /\ Once(s, l) => ~Stored(z, l)
<1> USE DEF Shorter
<1>1. /\ 1 \in 1..(n + 1)
      /\ \A i \in 1..n : i \in Nat /\ i + 1 \in 1..(n + 1) /\ i + 1 # 1 /\ (i + 1) - 1 = i
      /\ \A i \in 1..(n + 1) : i \in Nat /\ (i = 1 \/ (i - 1 \in 1..n /\ (i - 1) + 1 = i))
      /\ \A i, j \in 1..n : (j > i <=> j + 1 > i + 1) /\ (i + 1 = j + 1 => i = j)
      /\ \A i, j \in 1..(n + 1) : i # 1 => (j > i => j # 1)
      /\ \A i \in 1..n : i + 1 > 1
  OBVIOUS
<1>2. s[1][1] = l /\ s[1][2] = v
  OBVIOUS
<1>3. ASSUME NEW m, NEW i \in 1..n, IsYoungest(s, m, i + 1)
      PROVE  IsYoungest(z, m, i)
  <2>1. s[i + 1][1] = m /\ \A j \in 1..(n + 1) : j > i + 1 => s[j][1] # m
    BY <1>3 DEF IsYoungest
  <2>2. ASSUME NEW j \in 1..n, j > i
        PROVE  z[j][1] # m
    <3>1. j + 1 \in 1..(n + 1) /\ j + 1 > i + 1
      BY <2>2
    <3> QED BY <3>1, <2>1
  <2> QED BY <2>1, <2>2 DEF IsYoungest
<1>a. ASSUME NEW i \in 1..(n + 1), i # 1
      PROVE  i - 1 \in 1..n /\ z[i - 1] = s[i]
  <2>1. i - 1 \in 1..n /\ (i - 1) + 1 = i
    BY <1>1, <1>a
  <2> QED BY <2>1
<1>4. \A m : Stored(z, m) => Stored(s, m)
  BY <1>1 DEF Stored
<1>5. \A m : m # l => (Stored(z, m) <=> Stored(s, m))
  <2> SUFFICES ASSUME NEW m, m # l, NEW i \in 1..(n + 1), s[i][1] = m
               PROVE  Stored(z, m)
    BY <1>4, Zenon DEF Stored
  <2>1. i - 1 \in 1..n /\ z[i - 1] = s[i]
    BY <1>a, <1>2
  <2> QED BY <2>1, SMTT(30) DEF Stored
<1>6. Stored(s, l)
  BY <1>1, <1>2 DEF Stored
<1>7. ASSUME NEW m, Stored(z, m)
      PROVE  \E i \in 1..n : IsYoungest(s, m, i + 1) /\ IsYoungest(z, m, i)
  <2>1. PICK j \in DOMAIN s : IsYoungest(s, m, j)
    BY <1>4, <1>7, Zenon DEF Stored, Ranked
  <2>2. PICK i \in 1..n : z[i][1] = m
    BY <1>7 DEF Stored
  <2>a. i + 1 \in DOMAIN s /\ i + 1 > 1 /\ s[i + 1][1] = m
    BY <2>2, <1>1
  <2>3. j # 1
    BY <2>1, <2>a, SMTT(30) DEF IsYoungest
  <2>4. j - 1 \in 1..n /\ (j - 1) + 1 = j
    BY <2>3, <1>1
  <2> QED BY <2>1, <2>4, <1>3
<1>8. Ranked(z)
  <2> SUFFICES ASSUME NEW i \in DOMAIN z
               PROVE  \E j \in DOMAIN z : IsYoungest(z, z[i][1], j)
    BY DEF Ranked
  <2>1. Stored(z, z[i][1])
    BY DEF Stored
  <2> QED BY <2>1, <1>7, Zenon
<1>9. ASSUME NEW c, NEW d, NEW m, d[m] = (IF m = l THEN v ELSE c[m])
      PROVE  Seen(z, d, m) = Seen(s, c, m)
  <2>1. CASE Stored(z, m)
    <3>1. PICK i \in 1..n : IsYoungest(s, m, i + 1) /\ IsYoungest(z, m, i)
      BY <2>1, <1>7
    <3>2. Seen(z, d, m) = z[i][2]
      BY <3>1, SeenYoungest
    <3>3. n + 1 \in Nat
      OBVIOUS
    <3>4. Seen(s, c, m) = s[i + 1][2]
      BY <3>1, <3>3, SeenYoungest
    <3> QED BY <3>2, <3>4
  <2>2. CASE ~Stored(z, m) /\ m # l
    BY <2>2, <1>5, <1>9 DEF Seen
  <2>3. CASE ~Stored(z, m) /\ m = l
    <3>1. IsYoungest(s, l, 1)
      <4>1. \A j \in 1..(n + 1) : j > 1 => s[j][1] # l
        <5> SUFFICES ASSUME NEW j \in 1..(n + 1), j > 1
                     PROVE  s[j][1] # l
          OBVIOUS
        <5>1. j # 1
          OBVIOUS
        <5>2. j - 1 \in DOMAIN z /\ z[j - 1] = s[j]
          BY <5>1, <1>a
        <5> QED BY <5>2, <2>3, SMTT(30) DEF Stored
      <4> QED BY <4>1, <1>1, <1>2 DEF IsYoungest
    <3>2. n + 1 \in Nat
      OBVIOUS
    <3>3. Seen(s, c, l) = v
      BY <3>1, <3>2, <1>2, SeenYoungest
    <3> QED BY <3>3, <2>3, <1>9 DEF Seen
  <2> QED BY <2>1, <2>2, <2>3
<1>10. ASSUME NEW m, NEW k, Followed(s, m, k)
       PROVE  Followed(z, m, k)
  <2> SUFFICES ASSUME NEW i \in 1..n, z[i][1] = m
               PROVE  \E j \in 1..n : j > i /\ z[j][1] = k
    BY Zenon DEF Followed
  <2>1. PICK j \in 1..(n + 1) : j > i + 1 /\ s[j][1] = k
    BY <1>1, <1>10, Zenon DEF Followed
  <2>2. j - 1 \in 1..n /\ (j - 1) + 1 = j /\ j - 1 > i
    BY <2>1
  <2> QED BY <2>1, <2>2, Zenon
<1>11. ASSUME NEW m, Once(s, m)
       PROVE  Once(z, m)
  <2> SUFFICES ASSUME NEW i \in 1..n, NEW j \in 1..n, z[i][1] = m, z[j][1] = m
               PROVE  i = j
    BY DEF Once
  <2>1. i + 1 \in 1..(n + 1) /\ j + 1 \in 1..(n + 1)
    OBVIOUS
  <2>2. i + 1 = j + 1
    BY <2>1, <1>11, Zenon DEF Once
  <2> QED BY <2>2
<1>12. Once(s, l) => ~Stored(z, l)
  BY <1>1, <1>2 DEF Once, Stored
<1> QED BY <1>4, <1>5, <1>6, <1>8, <1>9, <1>10, <1>11, <1>12

-----------------------------------------------------------------------------
(* Threads.                                                                *)

\* L are the locations and V the values.
StoresOK(L, V) ==
    /\ buffer \in [Cores -> Seq(L \X V)]
    /\ ipis \in [Cores -> SUBSET Cores]
    /\ DOMAIN memory = L
    /\ \A t \in Cores : Ranked(buffer[t])

\* t has a store to l in its buffer.
Buffered(t, l) == Stored(buffer[t], l)

\* Whoever has no store to a location sees what memory holds.
LEMMA LoadMemory ==
    \A t, l : ~Buffered(t, l) => Load(t, l) = memory[l]
BY DEF Buffered, Load, Seen

\* What t's store of v to l changes, for t and for the others.
StoreDone(t, l, v) ==
    /\ memory' = memory /\ ipis' = ipis
    /\ \A u \in Cores : u # t => buffer'[u] = buffer[u]
    /\ \A m : Buffered(t, m)' <=> Buffered(t, m) \/ m = l
    /\ \A m : Load(t, m)' = IF m = l THEN v ELSE Load(t, m)
    /\ \A m, k : l # m /\ Followed(buffer[t], m, k) => Followed(buffer'[t], m, k)
    /\ \A m : l # m => Followed(buffer'[t], m, l)
    /\ \A m : l # m /\ Once(buffer[t], m) => Once(buffer'[t], m)
    /\ ~Buffered(t, l) => Once(buffer'[t], l)

\* The same for a store of v to l and then of x to h.
StoreTwoDone(t, l, v, h, x) ==
    /\ memory' = memory /\ ipis' = ipis
    /\ \A u \in Cores : u # t => buffer'[u] = buffer[u]
    /\ \A m : Buffered(t, m)' <=> Buffered(t, m) \/ m \in {l, h}
    /\ \A m : Load(t, m)' = IF m = h THEN x ELSE IF m = l THEN v ELSE Load(t, m)
    /\ \A m, k : m \notin {l, h} /\ Followed(buffer[t], m, k) => Followed(buffer'[t], m, k)
    /\ \A m : m \notin {l, h} /\ Once(buffer[t], m) => Once(buffer'[t], m)

\* A store is what its thread sees from then on, and nobody else sees it yet.
LEMMA StoreEffect ==
    ASSUME NEW L, NEW V, StoresOK(L, V), NEW t \in Cores, NEW l \in L, NEW v \in V, Store(t, l, v)
    PROVE  StoresOK(L, V)' /\ StoreDone(t, l, v)
<1>1. PICK n \in Nat : n = Len(buffer[t]) /\ DOMAIN buffer[t] = 1..n
  BY DEF StoresOK
<1>2. /\ buffer'[t] \in Seq(L \X V) /\ Len(buffer'[t]) = n + 1 /\ buffer'[t][n + 1] = <<l, v>>
      /\ \A i \in 1..n : buffer'[t][i] = buffer[t][i]
  BY <1>1 DEF Store, StoresOK
<1>3. DOMAIN buffer'[t] = 1..(n + 1)
  BY <1>2
<1>4. /\ memory' = memory /\ ipis' = ipis /\ buffer' \in [Cores -> Seq(L \X V)]
      /\ \A u \in Cores : u # t => buffer'[u] = buffer[u]
  BY <1>2 DEF Store, StoresOK
<1>5. /\ Ranked(buffer'[t])
      /\ \A m : Stored(buffer'[t], m) <=> Stored(buffer[t], m) \/ m = l
      /\ \A c, m : Seen(buffer'[t], c, m) = IF m = l THEN v ELSE Seen(buffer[t], c, m)
      /\ \A m, k : l # m /\ Followed(buffer[t], m, k) => Followed(buffer'[t], m, k)
      /\ \A m : l # m => Followed(buffer'[t], m, l)
      /\ \A m : l # m /\ Once(buffer[t], m) => Once(buffer'[t], m)
      /\ ~Stored(buffer[t], l) => Once(buffer'[t], l)
  <2>1. Ranked(buffer[t])
    BY DEF StoresOK
  <2>2. n \in Nat /\ DOMAIN buffer[t] = 1..n
    BY <1>1
  <2>3. buffer'[t][n + 1] = <<l, v>> /\ \A i \in 1..n : buffer'[t][i] = buffer[t][i]
    BY <1>2, Zenon
  <2> QED BY <2>1, <2>2, <2>3, <1>3, AppendStore, ZenonT(40)
<1>6. StoresOK(L, V)'
  BY <1>4, <1>5, Zenon DEF StoresOK
<1> QED BY <1>4, <1>5, <1>6 DEF StoreDone, Buffered, Load

\* The same for two stores.
LEMMA StoreTwoEffect ==
    ASSUME NEW L, NEW V, StoresOK(L, V), NEW t \in Cores, NEW l \in L, NEW v \in V,
           NEW h \in L, NEW x \in V, l # h, StoreTwo(t, l, v, h, x)
    PROVE  StoresOK(L, V)' /\ StoreTwoDone(t, l, v, h, x)
<1>1. PICK n \in Nat : n = Len(buffer[t]) /\ DOMAIN buffer[t] = 1..n
  BY DEF StoresOK
<1> DEFINE b == Append(buffer[t], <<l, v>>)
<1>2. /\ b \in Seq(L \X V) /\ Len(b) = n + 1 /\ b[n + 1] = <<l, v>>
      /\ \A i \in 1..n : b[i] = buffer[t][i]
  BY <1>1 DEF StoresOK
<1>3. DOMAIN b = 1..(n + 1) /\ n + 1 \in Nat
  BY <1>2
<1>4. buffer' = [buffer EXCEPT ![t] = Append(b, <<h, x>>)]
  BY DEF StoreTwo
<1> HIDE DEF b
<1>5. /\ buffer'[t] \in Seq(L \X V) /\ Len(buffer'[t]) = (n + 1) + 1
      /\ buffer'[t][(n + 1) + 1] = <<h, x>> /\ \A i \in 1..(n + 1) : buffer'[t][i] = b[i]
  <2>1. buffer'[t] = Append(b, <<h, x>>)
    BY <1>4 DEF StoresOK
  <2> QED BY <1>2, <1>3, <2>1
<1>6. DOMAIN buffer'[t] = 1..((n + 1) + 1)
  BY <1>5
<1>7. /\ memory' = memory /\ ipis' = ipis /\ buffer' \in [Cores -> Seq(L \X V)]
      /\ \A u \in Cores : u # t => buffer'[u] = buffer[u]
  BY <1>4, <1>5 DEF StoreTwo, StoresOK
<1>8. /\ Ranked(b)
      /\ \A m : Stored(b, m) <=> Stored(buffer[t], m) \/ m = l
      /\ \A c, m : Seen(b, c, m) = IF m = l THEN v ELSE Seen(buffer[t], c, m)
      /\ \A m, k : l # m /\ Followed(buffer[t], m, k) => Followed(b, m, k)
      /\ \A m : l # m /\ Once(buffer[t], m) => Once(b, m)
  <2>1. Ranked(buffer[t])
    BY DEF StoresOK
  <2>2. n \in Nat /\ DOMAIN buffer[t] = 1..n
    BY <1>1
  <2>3. b[n + 1] = <<l, v>> /\ \A i \in 1..n : b[i] = buffer[t][i]
    BY <1>2
  <2> QED BY <2>1, <2>2, <2>3, <1>3, AppendStore
<1>9. /\ Ranked(buffer'[t])
      /\ \A m : Stored(buffer'[t], m) <=> Stored(b, m) \/ m = h
      /\ \A c, m : Seen(buffer'[t], c, m) = IF m = h THEN x ELSE Seen(b, c, m)
      /\ \A m, k : h # m /\ Followed(b, m, k) => Followed(buffer'[t], m, k)
      /\ \A m : h # m /\ Once(b, m) => Once(buffer'[t], m)
  BY <1>3, <1>5, <1>6, <1>8, AppendStore
<1>10. StoresOK(L, V)'
  BY <1>7, <1>9, Zenon DEF StoresOK
<1> QED BY <1>7, <1>8, <1>9, <1>10 DEF StoreTwoDone, Buffered, Load

\* A thread has no store in its buffer when it exchanges.
LEMMA ExchangeDrained ==
    ASSUME NEW t, NEW l, NEW v, Exchange(t, l, v)
    PROVE  \A m : ~Buffered(t, m)
BY DEF Exchange, Drained, Buffered, Stored

\* What an exchange changes.
ExchangeDone(L, t, l, v) ==
    /\ buffer' = buffer /\ ipis' = ipis
    /\ \A m : ~Buffered(t, m)
    /\ \A m \in L : memory'[m] = IF m = l THEN v ELSE memory[m]
    /\ \A u \in Cores, m \in L : m # l => Load(u, m)' = Load(u, m)
    /\ \A m : \A u \in Cores : Buffered(u, m) => Load(u, m)' = Load(u, m)

\* What a drained thread stores at once.
LEMMA ExchangeEffect ==
    ASSUME NEW L, NEW V, StoresOK(L, V), NEW t \in Cores, NEW l \in L, NEW v \in V, Exchange(t, l, v)
    PROVE  StoresOK(L, V)' /\ ExchangeDone(L, t, l, v)
<1>1. StoresOK(L, V)' /\ buffer' = buffer /\ ipis' = ipis
  BY DEF Exchange, StoresOK
<1>2. \A m : ~Buffered(t, m)
  BY ExchangeDrained
<1>3. \A m \in L : memory'[m] = IF m = l THEN v ELSE memory[m]
  BY DEF Exchange, StoresOK
<1>4. \A u \in Cores, m \in L : m # l => Load(u, m)' = Load(u, m)
  BY <1>1, <1>3 DEF Load, Seen
<1>5. \A m : \A u \in Cores : Buffered(u, m) => Load(u, m)' = Load(u, m)
  BY <1>1 DEF Load, Seen, Buffered
<1> QED BY <1>1, <1>2, <1>3, <1>4, <1>5 DEF ExchangeDone

\* What it changes that the oldest store of t reaches memory.
DrainDone(L, t) ==
    /\ ipis' = ipis
    /\ \A u \in Cores : u # t => buffer'[u] = buffer[u]
    /\ \A m : Buffered(t, m)' => Buffered(t, m)
    /\ \A m \in L : Load(t, m)' = Load(t, m)
    /\ \A m, k : Followed(buffer[t], m, k) => Followed(buffer'[t], m, k)
    /\ \A m : Once(buffer[t], m) => Once(buffer'[t], m)
    /\ \E l \in L :
           /\ Buffered(t, l) /\ (Once(buffer[t], l) => ~Buffered(t, l)')
           /\ \A m \in L : m # l => memory'[m] = memory[m]
           /\ \A u \in Cores, m \in L :
                  u # t /\ (m # l \/ Buffered(u, m)) => Load(u, m)' = Load(u, m)

\* A store that reaches memory changes nothing for its thread, and nothing for anybody
\* at other locations.
LEMMA DrainEffect ==
    ASSUME NEW L, NEW V, StoresOK(L, V), NEW t \in Cores, Drain(t)
    PROVE  StoresOK(L, V)' /\ DrainDone(L, t)
<1>1. buffer[t] \in Seq(L \X V) /\ buffer[t] # <<>> /\ Ranked(buffer[t])
  BY DEF StoresOK, Drain
<1>2. PICK n \in Nat : Len(buffer[t]) = n + 1 /\ DOMAIN buffer[t] = 1..(n + 1)
  <2>1. Len(buffer[t]) \in Nat \ {0} /\ DOMAIN buffer[t] = 1..Len(buffer[t])
    BY <1>1
  <2>2. Len(buffer[t]) - 1 \in Nat /\ Len(buffer[t]) = (Len(buffer[t]) - 1) + 1
    BY <2>1
  <2> QED BY <2>1, <2>2
<1>3. PICK l \in L, v \in V : buffer[t][1] = <<l, v>>
  BY <1>1, <1>2
<1>4. buffer'[t] = Tail(buffer[t])
  BY DEF Drain, StoresOK
<1>5. /\ buffer'[t] \in Seq(L \X V) /\ DOMAIN buffer'[t] = 1..n
      /\ \A i \in 1..n : buffer'[t][i] = buffer[t][i + 1]
  <2>1. Tail(buffer[t]) \in Seq(L \X V) /\ Len(Tail(buffer[t])) = n
    BY <1>1, <1>2
  <2>2. \A i \in 1..n : Tail(buffer[t])[i] = buffer[t][i + 1]
    BY <1>1, <1>2
  <2> QED BY <2>1, <2>2, <1>4
<1>6. /\ buffer' \in [Cores -> Seq(L \X V)] /\ ipis' = ipis
      /\ \A u \in Cores : u # t => buffer'[u] = buffer[u]
  BY <1>4, <1>5 DEF Drain, StoresOK
<1>7. /\ DOMAIN memory' = L
      /\ \A m \in L : memory'[m] = IF m = l THEN v ELSE memory[m]
  <2>1. Head(buffer[t])[1] = l /\ Head(buffer[t])[2] = v
    BY <1>1, <1>3
  <2>2. memory' = [memory EXCEPT ![l] = v]
    BY <2>1, Zenon DEF Drain
  <2> QED BY <2>2 DEF StoresOK
<1>8. /\ Ranked(buffer'[t]) /\ Stored(buffer[t], l)
      /\ \A m : Stored(buffer'[t], m) => Stored(buffer[t], m)
      /\ \A c, d, m : d[m] = (IF m = l THEN v ELSE c[m]) => Seen(buffer'[t], d, m) = Seen(buffer[t], c, m)
      /\ \A m, k : Followed(buffer[t], m, k) => Followed(buffer'[t], m, k)
      /\ \A m : Once(buffer[t], m) => Once(buffer'[t], m)
      /\ Once(buffer[t], l) => ~Stored(buffer'[t], l)
  <2>1. Ranked(buffer[t]) /\ n \in Nat
    BY <1>1, <1>2
  <2>2. Shorter(buffer'[t], buffer[t], n)
    BY <1>2, <1>5 DEF Shorter
  <2> QED BY <2>1, <2>2, <1>3, RemoveStore
<1>9. StoresOK(L, V)'
  BY <1>6, <1>7, <1>8, Zenon DEF StoresOK
<1>10. \A m \in L : Load(t, m)' = Load(t, m)
  BY <1>7, <1>8 DEF Load
<1>11. \A u \in Cores, m \in L : u # t /\ (m # l \/ Buffered(u, m)) => Load(u, m)' = Load(u, m)
  BY <1>6, <1>7, SeenElsewhere DEF Load, Buffered
<1> QED BY <1>6, <1>7, <1>8, <1>9, <1>10, <1>11 DEF DrainDone, Buffered

\* A heavy barrier need not wait for a core that has nothing in its buffer.
LEMMA BarrierEffect ==
    ASSUME NEW L, NEW V, StoresOK(L, V), NEW t \in Cores, AsymmetricBarrierHeavy(t)
    PROVE  /\ StoresOK(L, V)' /\ memory' = memory /\ buffer' = buffer
           /\ \A u \in Cores : ipis[u] = {} /\ (u # t => ipis'[u] = {})
           /\ \A m : ~Buffered(t, m)
           /\ \A m : \A u \in Cores : u \notin ipis'[t] => ~Buffered(u, m)
<1>1. /\ memory' = memory /\ buffer' = buffer /\ \A u \in Cores : ipis[u] = {}
      /\ ipis' = [ipis EXCEPT ![t] = {u \in Cores : buffer[u] # <<>>}]
  BY DEF AsymmetricBarrierHeavy
<1>2. ipis' \in [Cores -> SUBSET Cores]
  BY <1>1 DEF StoresOK
<1>3. StoresOK(L, V)'
  BY <1>1, <1>2 DEF StoresOK
<1>4. \A m : ~Stored(<<>>, m)
  BY DEF Stored
<1>5. \A u \in Cores : u \notin ipis'[t] => buffer[u] = <<>>
  BY <1>1 DEF StoresOK
<1>6. buffer[t] = <<>>
  BY DEF AsymmetricBarrierHeavy, Drained
<1>7. \A u \in Cores : u # t => ipis'[u] = {}
  BY <1>1 DEF StoresOK
<1> QED BY <1>1, <1>3, <1>4, <1>5, <1>6, <1>7 DEF Buffered

\* What it changes that the barrier of t interrupts u.
InterruptDone(L, t, u) ==
    /\ ipis' = [ipis EXCEPT ![t] = @ \ {u}]
    /\ \A w \in Cores : w # u => buffer'[w] = buffer[w]
    /\ \A m : ~Buffered(u, m)'
    /\ \A m, k : Followed(buffer'[u], m, k) /\ Once(buffer'[u], m)
    /\ \A m \in L : memory'[m] = Load(u, m) /\ Load(u, m)' = Load(u, m)
    /\ \A m \in L : ~Buffered(u, m) => memory'[m] = memory[m]
    /\ \A w \in Cores, m \in L :
           Buffered(w, m) \/ ~Buffered(u, m) => Load(w, m)' = Load(w, m)

\* An interrupted core has what its thread sees in memory, and an empty buffer.
LEMMA InterruptEffect ==
    ASSUME NEW L, NEW V, StoresOK(L, V), NEW t \in Cores, NEW u \in Cores, Interrupt(t, u)
    PROVE  StoresOK(L, V)' /\ InterruptDone(L, t, u)
<1>1. /\ ipis' = [ipis EXCEPT ![t] = @ \ {u}] /\ buffer' = [buffer EXCEPT ![u] = <<>>]
      /\ memory' = [l \in DOMAIN memory |-> Load(u, l)]
  BY DEF Interrupt
<1>2. buffer'[u] = <<>> /\ \A w \in Cores : w # u => buffer'[w] = buffer[w]
  BY <1>1 DEF StoresOK
<1>3. /\ \A m : ~Stored(<<>>, m)
      /\ \A m, k : Followed(<<>>, m, k) /\ Once(<<>>, m)
      /\ Ranked(<<>>)
  BY DEF Stored, Followed, Once, Ranked
<1>4. DOMAIN memory' = L /\ \A m \in L : memory'[m] = Load(u, m)
  BY <1>1 DEF StoresOK
<1>5. StoresOK(L, V)'
  <2>1. \A w \in Cores : Ranked(buffer'[w])
    BY <1>2, <1>3 DEF StoresOK
  <2>2. ipis' \in [Cores -> SUBSET Cores] /\ buffer' \in [Cores -> Seq(L \X V)]
    BY <1>1 DEF StoresOK
  <2> QED BY <2>1, <2>2, <1>4 DEF StoresOK
<1>6. \A m \in L : Load(u, m)' = Load(u, m)
  BY <1>2, <1>3, <1>4 DEF Load, Seen
<1>7. \A m \in L : ~Buffered(u, m) => memory'[m] = memory[m]
  BY <1>4, LoadMemory
<1>8. \A w \in Cores, m \in L : Buffered(w, m) \/ ~Buffered(u, m) => Load(w, m)' = Load(w, m)
  BY <1>2, <1>6, <1>7, SeenElsewhere DEF Load, Buffered
<1> QED BY <1>1, <1>2, <1>3, <1>4, <1>5, <1>6, <1>7, <1>8 DEF InterruptDone, Buffered
=============================================================================
