--------------------------- MODULE MbufPathProofs ---------------------------
(* Proofs about MbufPath, for any pools, ports, routes and copies: its type  *)
(* invariant, and where the buffers are.                                     *)
EXTENDS MbufPath, FiniteSetTheorems, SequenceTheorems, TLAPS

(* --- sequences and sets -------------------------------------------------------- *)

LEMMA MinOfTwo ==
  ASSUME NEW m \in Nat, NEW n \in Nat
  PROVE  Min({m, n}) \in {m, n} /\ Min({m, n}) <= m /\ Min({m, n}) <= n
<1>1. \E x \in {m, n} : \A y \in {m, n} : x =< y
  <2>1. CASE m <= n
    BY <2>1
  <2>2. CASE n <= m
    BY <2>2
  <2> QED BY <2>1, <2>2
<1> QED BY <1>1 DEF Min

\* The empty sequence.
LEMMA NothingInIt == ToSet(<<>>) = {} /\ IsInjective(<<>>)
BY DEF ToSet, IsInjective

LEMMA NotEmpty ==
  ASSUME NEW T, NEW s \in Seq(T), s # <<>>
  PROVE  s[1] \in ToSet(s) /\ s[1] \in T /\ 1 \in DOMAIN s
<1>1. Len(s) \in Nat \ {0}
  BY EmptySeq
<1>2. 1 \in DOMAIN s /\ s \in [1..Len(s) -> T]
  BY <1>1, LenProperties
<1> QED BY <1>2 DEF ToSet

LEMMA ToSetTyped ==
  ASSUME NEW T, NEW s \in Seq(T)
  PROVE  ToSet(s) \subseteq T
BY LenProperties DEF ToSet

\* A burst taken from a pool has each buffer once.
LEMMA SetToSeqProperties ==
  ASSUME NEW T, NEW S \in SUBSET T, IsFiniteSet(S)
  PROVE  SetToSeq(S) \in Seq(T) /\ ToSet(SetToSeq(S)) = S /\ IsInjective(SetToSeq(S))
<1> DEFINE n == Cardinality(S)
<1>1. n \in Nat /\ ExistsBijection(1..n, S)
  BY FS_CardinalityType
<1>2. \E f \in [1..n -> S] : IsInjective(f)
  BY <1>1 DEF ExistsBijection, Bijection, Injection
<1>3. SetToSeq(S) \in [1..n -> S] /\ IsInjective(SetToSeq(S))
  BY <1>2 DEF SetToSeq
<1> DEFINE f == SetToSeq(S)
<1>4. f \in Seq(T)
  BY <1>1, <1>3, SeqDef
<1>5. f \in Injection(1..n, S)
  BY <1>3 DEF Injection
<1>6. f \in Surjection(1..n, S)
  <2>1. Cardinality(1..n) = n
    BY <1>1, FS_Interval
  <2> HIDE DEF f
  <2> QED BY <1>5, <2>1, FS_Injection
<1>7. ToSet(f) = S
  BY <1>3, <1>6 DEF Surjection, ToSet
<1> QED BY <1>3, <1>4, <1>7

\* A burst cut in two.
LEMMA Cut ==
  ASSUME NEW T, NEW s \in Seq(T), NEW n \in 0..Len(s)
  PROVE  LET l == SubSeq(s, 1, n) IN LET h == SubSeq(s, n + 1, Len(s)) IN
         /\ l \in Seq(T) /\ h \in Seq(T)
         /\ Len(l) = n /\ Len(h) = Len(s) - n
         /\ ToSet(s) = ToSet(l) \cup ToSet(h)
         /\ IsInjective(s) => /\ IsInjective(l) /\ IsInjective(h)
                              /\ ToSet(l) \cap ToSet(h) = {}
<1> DEFINE l == SubSeq(s, 1, n)
           h == SubSeq(s, n + 1, Len(s))
           m == Len(s)
<1>1. m \in Nat /\ n \in Nat /\ n <= m /\ s \in [1..m -> T] /\ DOMAIN s = 1..m
  BY LenProperties
<1>2. /\ l \in Seq(T) /\ Len(l) = (IF 1 <= n THEN n - 1 + 1 ELSE 0)
      /\ \A i \in 1..n - 1 + 1 : l[i] = s[1 + i - 1]
  BY <1>1, SubSeqProperties
<1>3. /\ h \in Seq(T) /\ Len(h) = (IF n + 1 <= m THEN m - (n + 1) + 1 ELSE 0)
      /\ \A i \in 1..m - (n + 1) + 1 : h[i] = s[n + 1 + i - 1]
  BY <1>1, SubSeqProperties
<1> HIDE DEF l, h, m
<1>4. /\ Len(l) = n /\ DOMAIN l = 1..n /\ \A i \in 1..n : l[i] = s[i]
  BY <1>1, <1>2, LenProperties
<1>5. /\ Len(h) = m - n /\ DOMAIN h = 1..(m - n) /\ \A i \in 1..(m - n) : h[i] = s[n + i]
  BY <1>1, <1>3, LenProperties
<1>6. ToSet(s) = ToSet(l) \cup ToSet(h)
  <2>1. ASSUME NEW i \in 1..m PROVE s[i] \in ToSet(l) \cup ToSet(h)
    <3>1. CASE i <= n
      <4>1. i \in DOMAIN l /\ l[i] = s[i]
        BY <1>1, <1>4, <3>1
      <4> QED BY <4>1 DEF ToSet
    <3>2. CASE i > n
      <4>1. i - n \in 1..(m - n) /\ n + (i - n) = i
        BY <1>1, <3>2
      <4>2. h[i - n] = s[i]
        BY <1>5, <4>1
      <4> QED BY <1>5, <4>1, <4>2 DEF ToSet
    <3> QED BY <1>1, <3>1, <3>2
  <2>2. ToSet(s) \subseteq ToSet(l) \cup ToSet(h)
    BY <1>1, <2>1 DEF ToSet
  <2>3. ToSet(l) \subseteq ToSet(s)
    <3>1. \A i \in DOMAIN l : i \in DOMAIN s /\ l[i] = s[i]
      BY <1>1, <1>4
    <3> QED BY <3>1 DEF ToSet
  <2>4. ASSUME NEW i \in 1..(m - n) PROVE h[i] \in ToSet(s)
    <3>1. n + i \in DOMAIN s /\ h[i] = s[n + i]
      BY <1>1, <1>5
    <3> QED BY <3>1 DEF ToSet
  <2>5. ToSet(h) \subseteq ToSet(s)
    BY <1>5, <2>4 DEF ToSet
  <2> QED BY <2>2, <2>3, <2>5
<1>7. ASSUME IsInjective(s)
      PROVE  IsInjective(l) /\ IsInjective(h) /\ ToSet(l) \cap ToSet(h) = {}
  <2>1. IsInjective(l)
    BY <1>1, <1>4, <1>7 DEF IsInjective
  <2>2. IsInjective(h)
    <3> SUFFICES ASSUME NEW i \in 1..(m - n), NEW j \in 1..(m - n), h[i] = h[j]
                 PROVE  i = j
      BY <1>5 DEF IsInjective
    <3>1. n + i \in 1..m /\ n + j \in 1..m /\ s[n + i] = s[n + j]
      BY <1>1, <1>5
    <3>2. n + i = n + j
      BY <1>1, <1>7, <3>1 DEF IsInjective
    <3> QED BY <1>1, <3>2
  <2>3. ASSUME NEW i \in 1..n, NEW j \in 1..(m - n), l[i] = h[j] PROVE FALSE
    <3>1. i \in 1..m /\ n + j \in 1..m /\ s[i] = s[n + j] /\ i # n + j
      BY <1>1, <1>4, <1>5, <2>3
    <3> QED BY <1>1, <1>7, <3>1 DEF IsInjective
  <2>4. ToSet(l) \cap ToSet(h) = {}
    BY <1>4, <1>5, <2>3 DEF ToSet
  <2> QED BY <2>1, <2>2, <2>4
<1> QED BY <1>2, <1>3, <1>4, <1>5, <1>6, <1>7 DEF l, h, m

\* A burst behind what a ring holds.
LEMMA Join ==
  ASSUME NEW T, NEW s \in Seq(T), NEW t \in Seq(T)
  PROVE  /\ s \o t \in Seq(T) /\ Len(s \o t) = Len(s) + Len(t)
         /\ ToSet(s \o t) = ToSet(s) \cup ToSet(t)
         /\ IsInjective(s) /\ IsInjective(t) /\ ToSet(s) \cap ToSet(t) = {}
              => IsInjective(s \o t)
<1> DEFINE u == s \o t
           m == Len(s)
           n == Len(t)
<1>1. /\ m \in Nat /\ DOMAIN s = 1..m /\ n \in Nat /\ DOMAIN t = 1..n
  BY LenProperties
<1>2. /\ u \in Seq(T) /\ Len(u) = m + n
      /\ \A i \in 1..m + n : u[i] = IF i <= m THEN s[i] ELSE t[i - m]
  BY ConcatProperties
<1> HIDE DEF u, m, n
<1>3. DOMAIN u = 1..(m + n)
  BY <1>2, LenProperties
<1>4. \A i \in 1..m : i \in 1..(m + n) /\ u[i] = s[i]
  BY <1>1, <1>2
<1>5. ASSUME NEW i \in 1..n PROVE m + i \in 1..(m + n) /\ u[m + i] = t[i]
  <2>1. m + i \in 1..(m + n) /\ ~(m + i <= m) /\ (m + i) - m = i
    BY <1>1
  <2> QED BY <1>2, <2>1
<1>6. ASSUME NEW i \in 1..(m + n), i > m PROVE i - m \in 1..n /\ u[i] = t[i - m]
  BY <1>1, <1>2, <1>6
<1>7. ToSet(u) = ToSet(s) \cup ToSet(t)
  <2>1. ToSet(s) \subseteq ToSet(u)
    BY <1>1, <1>3, <1>4 DEF ToSet
  <2>2. ToSet(t) \subseteq ToSet(u)
    BY <1>1, <1>3, <1>5 DEF ToSet
  <2>3. ASSUME NEW i \in 1..(m + n) PROVE u[i] \in ToSet(s) \cup ToSet(t)
    <3>1. CASE i <= m
      BY <1>1, <1>4, <3>1 DEF ToSet
    <3>2. CASE i > m
      BY <1>1, <1>6, <3>2 DEF ToSet
    <3> QED BY <1>1, <3>1, <3>2
  <2>4. ToSet(u) \subseteq ToSet(s) \cup ToSet(t)
    BY <1>3, <2>3 DEF ToSet
  <2> QED BY <2>1, <2>2, <2>4
<1>8. ASSUME IsInjective(s), IsInjective(t), ToSet(s) \cap ToSet(t) = {}
      PROVE  IsInjective(u)
  <2>0. ASSUME NEW i \in 1..m, NEW j \in 1..n PROVE s[i] # t[j]
    BY <1>1, <1>8 DEF ToSet
  <2> SUFFICES ASSUME NEW i \in 1..(m + n), NEW j \in 1..(m + n), u[i] = u[j]
               PROVE  i = j
    BY <1>3 DEF IsInjective
  <2>1. CASE i <= m /\ j <= m
    BY <1>1, <1>4, <1>8, <2>1 DEF IsInjective
  <2>2. CASE i > m /\ j > m
    <3>1. i - m = j - m
      BY <1>1, <1>6, <1>8, <2>2 DEF IsInjective
    <3> QED BY <1>1, <3>1
  <2>3. CASE i <= m /\ j > m
    BY <1>1, <1>4, <1>6, <2>0, <2>3
  <2>4. CASE i > m /\ j <= m
    BY <1>1, <1>4, <1>6, <2>0, <2>4
  <2> QED BY <1>1, <2>1, <2>2, <2>3, <2>4
<1> QED BY <1>2, <1>7, <1>8 DEF u, m, n

(* --- what the steps do --------------------------------------------------------- *)

\* l and h are the buffers of s, cut in two.
Parts(s, l, h) ==
  /\ l \in Seq(Bufs) /\ h \in Seq(Bufs)
  /\ Len(l) <= Len(s) /\ Len(h) <= Len(s)
  /\ ToSet(s) = ToSet(l) \cup ToSet(h)
  /\ IsInjective(s) => /\ IsInjective(l) /\ IsInjective(h)
                       /\ ToSet(l) \cap ToSet(h) = {}

LEMMA CutParts ==
  ASSUME NEW s \in Seq(Bufs), NEW n \in 0..Len(s)
  PROVE  /\ Parts(s, SubSeq(s, 1, n), SubSeq(s, n + 1, Len(s)))
         /\ Len(SubSeq(s, 1, n)) = n
<1> DEFINE l == SubSeq(s, 1, n)
           h == SubSeq(s, n + 1, Len(s))
<1>1. /\ l \in Seq(Bufs) /\ h \in Seq(Bufs)
      /\ Len(l) = n /\ Len(h) = Len(s) - n
      /\ ToSet(s) = ToSet(l) \cup ToSet(h)
      /\ IsInjective(s) => /\ IsInjective(l) /\ IsInjective(h)
                           /\ ToSet(l) \cap ToSet(h) = {}
  BY Cut
<1>2. Len(s) \in Nat
  BY LenProperties
<1> HIDE DEF l, h
<1>3. Len(l) <= Len(s) /\ Len(h) <= Len(s)
  BY <1>1, <1>2
<1>4. Parts(s, l, h)
  BY <1>1, <1>3 DEF Parts
<1> QED BY <1>1, <1>4 DEF l, h

LEMMA RouteTyped ==
  ASSUME NEW r \in Routes
  PROVE  /\ In(r) \in Ports /\ Out(r) \in Ports
         /\ RxPool[In(r)] \in Pools /\ TxPools[Out(r)] \in Pools
BY MbufAssumption DEF In, Out

LEMMA PutTyped ==
  /\ NoPut \in [Pools -> SUBSET Bufs]
  /\ \A S \in SUBSET Bufs : Own(S) \in [Pools -> SUBSET Bufs]
  /\ \A t \in Seq(Bufs) : OfFirst(t) \in [Pools -> SUBSET Bufs]
<1>1. NoPut \in [Pools -> SUBSET Bufs]
  BY DEF NoPut
<1>2. ASSUME NEW S \in SUBSET Bufs PROVE Own(S) \in [Pools -> SUBSET Bufs]
  BY DEF Own
<1>3. ASSUME NEW t \in Seq(Bufs) PROVE OfFirst(t) \in [Pools -> SUBSET Bufs]
  BY ToSetTyped DEF OfFirst
<1> QED BY <1>1, <1>2, <1>3

\* Taking from a pool what it holds and putting buffers into pools.
LEMMA MovedPool ==
  ASSUME TypeOK, NEW p \in Pools, NEW S \in SUBSET Free(p),
         NEW P \in [Pools -> SUBSET Bufs]
  PROVE  /\ Moved(p, S, P) \in [Pools -> [Bufs -> Nat]]
         /\ \A q \in Pools, b \in Bufs :
              Moved(p, S, P)[q][b] = (pool[q][b] - (IF q = p /\ b \in S THEN 1 ELSE 0))
                                     + (IF b \in P[q] THEN 1 ELSE 0)
<1>1. ASSUME NEW q \in Pools, NEW b \in Bufs
      PROVE  (pool[q][b] - (IF q = p /\ b \in S THEN 1 ELSE 0))
             + (IF b \in P[q] THEN 1 ELSE 0) \in Nat
  <2>1. pool[q][b] \in Nat
    BY DEF TypeOK
  <2>2. q = p /\ b \in S => pool[q][b] > 0
    BY DEF Free
  <2> QED BY <2>1, <2>2
<1> QED BY <1>1 DEF Moved

\* A NIC or vhost port takes different buffers from its pool.
LEMMA RxAllocDoes ==
  ASSUME TypeOK, NEW r \in Routes, RxAlloc(r)
  PROVE  \E S \in SUBSET Free(RxPool[In(r)]) : \E s \in Seq(Bufs) :
           /\ ToSet(s) = S /\ IsInjective(s)
           /\ pool' = Moved(RxPool[In(r)], S, NoPut)
           /\ refcnt' = [b \in Bufs |-> IF b \in S THEN 1 ELSE refcnt[b]]
           /\ Received(r, s) /\ Idle(r) /\ Kind[In(r)] # "ring"
           /\ UNCHANGED <<ring, copying>>
<1>1. PICK S \in SUBSET Free(RxPool[In(r)]) \ {{}} :
        /\ pool' = Moved(RxPool[In(r)], S, NoPut)
        /\ refcnt' = [b \in Bufs |-> IF b \in S THEN 1 ELSE refcnt[b]]
        /\ Received(r, SetToSeq(S))
  BY DEF RxAlloc
<1>2. S \in SUBSET Bufs /\ IsFiniteSet(S)
  BY MbufAssumption, FS_Subset DEF Free
<1>3. /\ SetToSeq(S) \in Seq(Bufs) /\ ToSet(SetToSeq(S)) = S
      /\ IsInjective(SetToSeq(S))
  BY <1>2, SetToSeqProperties
<1>4. Idle(r) /\ Kind[In(r)] # "ring" /\ UNCHANGED <<ring, copying>>
  BY DEF RxAlloc
<1> QED BY <1>1, <1>3, <1>4

\* A ring gives its first buffers.
LEMMA RxRingDoes ==
  ASSUME TypeOK, NEW r \in Routes, RxRing(r)
  PROVE  \E l, h \in Seq(Bufs) :
           /\ Parts(ring[In(r)], l, h) /\ Received(r, l)
           /\ ring' = [ring EXCEPT ![In(r)] = h]
           /\ Idle(r) /\ Kind[In(r)] = "ring" /\ UNCHANGED <<pool, refcnt, copying>>
<1> DEFINE q == ring[In(r)]
           n == Min({MaxBurst, Len(q)})
<1>1. q \in Seq(Bufs) /\ Len(q) \in Nat
  BY RouteTyped, LenProperties DEF TypeOK
<1>2. n \in 0..Len(q)
  <2>1. MaxBurst \in Nat
    BY MbufAssumption
  <2>2. n \in {MaxBurst, Len(q)} /\ n <= Len(q)
    BY <1>1, <2>1, MinOfTwo
  <2> HIDE DEF n, q
  <2> QED BY <1>1, <2>1, <2>2
<1>3. Parts(q, SubSeq(q, 1, n), SubSeq(q, n + 1, Len(q)))
  BY <1>1, <1>2, CutParts
<1>4. /\ ring' = [ring EXCEPT ![In(r)] = SubSeq(q, n + 1, Len(q))]
      /\ Received(r, SubSeq(q, 1, n)) /\ Idle(r) /\ Kind[In(r)] = "ring"
      /\ UNCHANGED <<pool, refcnt, copying>>
  BY DEF RxRing
<1> HIDE DEF n
<1> QED BY <1>3, <1>4 DEF Parts

\* copy_mbufs puts the originals and takes copies, or none.
LEMMA CopyDoes ==
  ASSUME TypeOK, NEW r \in Routes, Copy(r) \/ CopyFails(r)
  PROVE  \E S \in SUBSET Free(TxPools[Out(r)]) : \E s \in Seq(Bufs) :
           /\ S # {} => ToSet(s) = S /\ IsInjective(s) /\ tx' = [tx EXCEPT ![r] = s]
           /\ S = {} => tx' = tx
           /\ rx[r] # <<>> /\ rx' = [rx EXCEPT ![r] = <<>>]
           /\ pool' = Moved(TxPools[Out(r)], S, OfFirst(rx[r]))
           /\ UNCHANGED <<refcnt, ring, copying>>
<1>1. CASE CopyFails(r)
  <2>1. /\ tx' = tx /\ rx[r] # <<>> /\ rx' = [rx EXCEPT ![r] = <<>>]
        /\ pool' = Moved(TxPools[Out(r)], {}, OfFirst(rx[r]))
        /\ UNCHANGED <<refcnt, ring, copying>>
    BY <1>1 DEF CopyFails
  <2>2. <<>> \in Seq(Bufs)
    BY EmptySeq
  <2> QED BY <2>1, <2>2
<1>2. CASE Copy(r)
  <2>1. PICK S \in SUBSET Free(TxPools[Out(r)]) :
          /\ Cardinality(S) = Len(rx[r])
          /\ pool' = Moved(TxPools[Out(r)], S, OfFirst(rx[r]))
          /\ tx' = [tx EXCEPT ![r] = SetToSeq(S)]
    BY <1>2 DEF Copy
  <2>2. S \in SUBSET Bufs /\ IsFiniteSet(S)
    BY MbufAssumption, FS_Subset DEF Free
  <2>3. /\ SetToSeq(S) \in Seq(Bufs) /\ ToSet(SetToSeq(S)) = S
        /\ IsInjective(SetToSeq(S))
    BY <2>2, SetToSeqProperties
  <2>4. rx[r] # <<>> /\ rx' = [rx EXCEPT ![r] = <<>>] /\ UNCHANGED <<refcnt, ring, copying>>
    BY <1>2 DEF Copy
  <2>5. S # {}
    <3>1. Len(rx[r]) # 0
      BY <2>4, EmptySeq DEF TypeOK
    <3> QED BY <2>1, <3>1, FS_EmptySet
  <2> QED BY <2>1, <2>3, <2>4, <2>5
<1> QED BY <1>1, <1>2

\* A port sends the first buffers of the burst and the others go back.
LEMMA TxFreeDoes ==
  ASSUME TypeOK, NEW r \in Routes, TxFree(r)
  PROVE  \E l, h \in Seq(Bufs) :
           /\ Parts(tx[r], l, h) /\ tx' = [tx EXCEPT ![r] = <<>>]
           /\ pool' = Moved(Home[tx[r][1]], {},
                         Own({b \in ToSet(l) : CountDown(refcnt[b]) = 0} \cup ToSet(h)))
           /\ refcnt' = [b \in Bufs |->
                IF b \in ToSet(l) THEN CountDown(refcnt[b]) ELSE refcnt[b]]
           /\ tx[r] # <<>> /\ UNCHANGED <<ring, rx, copying>>
<1>1. PICK n \in 0..Len(tx[r]) :
        /\ pool' = Moved(Home[tx[r][1]], {},
                      Own({b \in Sent(r, n) : CountDown(refcnt[b]) = 0} \cup Unsent(r, n)))
        /\ refcnt' = [b \in Bufs |->
             IF b \in Sent(r, n) THEN CountDown(refcnt[b]) ELSE refcnt[b]]
  BY DEF TxFree
<1>2. tx[r] \in Seq(Bufs)
  BY DEF TypeOK
<1>3. Parts(tx[r], SubSeq(tx[r], 1, n), SubSeq(tx[r], n + 1, Len(tx[r])))
  BY <1>2, CutParts
<1>4. /\ tx[r] # <<>> /\ tx' = [tx EXCEPT ![r] = <<>>] /\ UNCHANGED <<ring, rx, copying>>
  BY DEF TxFree
<1>5. /\ Sent(r, n) = ToSet(SubSeq(tx[r], 1, n))
      /\ Unsent(r, n) = ToSet(SubSeq(tx[r], n + 1, Len(tx[r])))
  BY DEF Sent, Unsent
<1> QED BY <1>1, <1>3, <1>4, <1>5 DEF Parts

LEMMA TxRingDoes ==
  ASSUME TypeOK, NEW r \in Routes, TxRing(r)
  PROVE  \E l, h \in Seq(Bufs) :
           /\ Parts(tx[r], l, h) /\ tx' = [tx EXCEPT ![r] = <<>>]
           /\ Len(ring[Out(r)]) + Len(l) <= Capacity
           /\ ring' = [ring EXCEPT ![Out(r)] = ring[Out(r)] \o l]
           /\ pool' = Moved(Home[tx[r][1]], {}, Own(ToSet(h)))
           /\ tx[r] # <<>> /\ Kind[Out(r)] = "ring" /\ UNCHANGED <<refcnt, rx, copying>>
<1> DEFINE q == ring[Out(r)]
           k == Capacity - Len(q)
           n == Min({Len(tx[r]), k})
<1>1. /\ q \in Seq(Bufs) /\ Len(q) \in Nat /\ Len(q) <= Capacity
      /\ tx[r] \in Seq(Bufs) /\ Len(tx[r]) \in Nat
  BY RouteTyped, LenProperties DEF TypeOK
<1>2. k \in Nat
  BY <1>1, MbufAssumption
<1> HIDE DEF k
<1>3. n \in 0..Len(tx[r]) /\ n <= k
  BY <1>1, <1>2, MinOfTwo
<1>4. /\ Parts(tx[r], SubSeq(tx[r], 1, n), SubSeq(tx[r], n + 1, Len(tx[r])))
      /\ Len(SubSeq(tx[r], 1, n)) = n
  BY <1>1, <1>3, CutParts
<1>5. /\ ring' = [ring EXCEPT ![Out(r)] = q \o SubSeq(tx[r], 1, n)]
      /\ pool' = Moved(Home[tx[r][1]], {}, Own(Unsent(r, n)))
      /\ tx' = [tx EXCEPT ![r] = <<>>]
      /\ tx[r] # <<>> /\ Kind[Out(r)] = "ring" /\ UNCHANGED <<refcnt, rx, copying>>
  BY DEF TxRing, k
<1> HIDE DEF n
<1>6. Unsent(r, n) = ToSet(SubSeq(tx[r], n + 1, Len(tx[r])))
  BY DEF Unsent
<1>7. Len(q) + Len(SubSeq(tx[r], 1, n)) <= Capacity
  <2>1. \A a, c, x \in Nat : x <= c - a => a + x <= c
    OBVIOUS
  <2>2. n \in Nat /\ n <= Capacity - Len(q) /\ Capacity \in Nat
    BY <1>3, MbufAssumption DEF k
  <2>3. Len(q) + n <= Capacity
    BY <1>1, <2>1, <2>2
  <2> QED BY <1>4, <2>3
<1> QED BY <1>4, <1>5, <1>6, <1>7 DEF Parts

(* --- the type invariant ---------------------------------------------------------- *)

LEMMA RefModIs == RefMod \in Nat /\ 1 < RefMod
BY SMT DEF RefMod

\* Counting down modulo d.
LEMMA DownOne ==
  ASSUME NEW d \in Nat, 1 < d, NEW c \in 0..d - 1
  PROVE  (c + d - 1) % d = IF c = 0 THEN d - 1 ELSE c - 1
<1>1. c + d - 1 = (IF c = 0 THEN 0 ELSE 1) * d + (IF c = 0 THEN d - 1 ELSE c - 1)
  OBVIOUS
<1>2. ASSUME NEW q \in Int, NEW r \in 0..(d - 1) PROVE (q * d + r) % d = r
  OBVIOUS
<1> QED BY <1>1, <1>2

LEMMA CountDownIs ==
  ASSUME NEW c \in 0..RefMod - 1
  PROVE  /\ CountDown(c) \in 0..RefMod - 1
         /\ c = 0 => CountDown(c) = RefMod - 1
         /\ c = 1 => CountDown(c) = 0
<1>1. CountDown(c) = IF c = 0 THEN RefMod - 1 ELSE c - 1
  BY DownOne, RefModIs DEF CountDown
<1> QED BY <1>1, RefModIs

LEMMA SmallCount == RefMod \in Nat /\ 0 \in 0..RefMod - 1 /\ 1 \in 0..RefMod - 1
BY RefModIs

LEMMA ReceivedTyped ==
  ASSUME TypeOK, NEW r \in Routes, NEW s \in Seq(Bufs), Received(r, s)
  PROVE  rx' \in [Routes -> Seq(Bufs)] /\ tx' \in [Routes -> Seq(Bufs)]
BY DEF TypeOK, Received

LEMMA MbufTypeStep == TypeOK /\ [Next]_vars => TypeOK'
<1> SUFFICES ASSUME TypeOK, [Next]_vars PROVE TypeOK'
  OBVIOUS
<1>0. <<>> \in Seq(Bufs)
  BY EmptySeq
<1>1. ASSUME NEW r \in Routes, RxAlloc(r) PROVE TypeOK'
  <2>1. PICK S \in SUBSET Free(RxPool[In(r)]), s \in Seq(Bufs) :
           /\ pool' = Moved(RxPool[In(r)], S, NoPut)
           /\ refcnt' = [b \in Bufs |-> IF b \in S THEN 1 ELSE refcnt[b]]
           /\ Received(r, s) /\ UNCHANGED <<ring, copying>>
    BY <1>1, RxAllocDoes
  <2>2. pool' \in [Pools -> [Bufs -> Nat]]
    BY <2>1, RouteTyped, PutTyped, MovedPool
  <2>3. rx' \in [Routes -> Seq(Bufs)] /\ tx' \in [Routes -> Seq(Bufs)]
    BY <2>1, ReceivedTyped
  <2>4. refcnt' \in [Bufs -> 0..RefMod - 1]
    BY <2>1, SmallCount DEF TypeOK
  <2> QED BY <2>1, <2>2, <2>3, <2>4 DEF TypeOK
<1>2. ASSUME NEW r \in Routes, RxRing(r) PROVE TypeOK'
  <2>1. PICK l, h \in Seq(Bufs) :
           /\ Parts(ring[In(r)], l, h) /\ Received(r, l)
           /\ ring' = [ring EXCEPT ![In(r)] = h] /\ UNCHANGED <<pool, refcnt, copying>>
    BY <1>2, RxRingDoes
  <2>2. ring' \in [Ports -> Seq(Bufs)]
    BY <2>1, RouteTyped DEF TypeOK
  <2>3. \A p \in Ports : Len(ring'[p]) <= Capacity
    <3>1. ASSUME NEW p \in Ports PROVE Len(ring'[p]) <= Capacity
      <4>1. CASE p = In(r)
        <5>1. Len(h) <= Len(ring[p]) /\ Len(ring[p]) <= Capacity /\ ring'[p] = h
          BY <2>1, <4>1 DEF TypeOK, Parts
        <5>2. Len(h) \in Nat /\ Len(ring[p]) \in Nat /\ Capacity \in Nat
          BY LenProperties, MbufAssumption DEF TypeOK
        <5> QED BY <5>1, <5>2
      <4>2. CASE p # In(r)
        BY <2>1, <4>2 DEF TypeOK
      <4> QED BY <4>1, <4>2
    <3> QED BY <3>1
  <2>4. rx' \in [Routes -> Seq(Bufs)] /\ tx' \in [Routes -> Seq(Bufs)]
    BY <2>1, ReceivedTyped
  <2> QED BY <2>1, <2>2, <2>3, <2>4 DEF TypeOK
<1>3. ASSUME NEW r \in Routes, Copy(r) \/ CopyFails(r) PROVE TypeOK'
  <2>1. PICK S \in SUBSET Free(TxPools[Out(r)]), s \in Seq(Bufs) :
           /\ S # {} => tx' = [tx EXCEPT ![r] = s]
           /\ S = {} => tx' = tx
           /\ rx' = [rx EXCEPT ![r] = <<>>]
           /\ pool' = Moved(TxPools[Out(r)], S, OfFirst(rx[r]))
           /\ UNCHANGED <<refcnt, ring, copying>>
    BY <1>3, CopyDoes
  <2>2. rx[r] \in Seq(Bufs)
    BY DEF TypeOK
  <2>3. TxPools[Out(r)] \in Pools /\ OfFirst(rx[r]) \in [Pools -> SUBSET Bufs]
    BY <2>2, RouteTyped, PutTyped
  <2>4. pool' \in [Pools -> [Bufs -> Nat]]
    BY <2>1, <2>3, MovedPool
  <2> QED BY <1>0, <2>1, <2>4 DEF TypeOK
<1>4. ASSUME NEW r \in Routes, TxFree(r) PROVE TypeOK'
  <2>1. PICK l, h \in Seq(Bufs) :
           /\ tx' = [tx EXCEPT ![r] = <<>>]
           /\ pool' = Moved(Home[tx[r][1]], {},
                         Own({b \in ToSet(l) : CountDown(refcnt[b]) = 0} \cup ToSet(h)))
           /\ refcnt' = [b \in Bufs |->
                IF b \in ToSet(l) THEN CountDown(refcnt[b]) ELSE refcnt[b]]
           /\ tx[r] # <<>> /\ UNCHANGED <<ring, rx, copying>>
    BY <1>4, TxFreeDoes
  <2>2. {b \in ToSet(l) : CountDown(refcnt[b]) = 0} \cup ToSet(h) \in SUBSET Bufs
    BY ToSetTyped
  <2>3. Home[tx[r][1]] \in Pools
    BY <2>1, NotEmpty, MbufAssumption DEF TypeOK
  <2>4. pool' \in [Pools -> [Bufs -> Nat]]
    <3> DEFINE P == Own({b \in ToSet(l) : CountDown(refcnt[b]) = 0} \cup ToSet(h))
    <3>1. P \in [Pools -> SUBSET Bufs]
      BY <2>2, PutTyped
    <3>2. pool' = Moved(Home[tx[r][1]], {}, P)
      BY <2>1
    <3> HIDE DEF P
    <3> QED BY <2>3, <3>1, <3>2, MovedPool
  <2>5. refcnt' \in [Bufs -> 0..RefMod - 1]
    <3>1. \A b \in Bufs : refcnt[b] \in 0..RefMod - 1
      BY DEF TypeOK
    <3>2. \A b \in Bufs : CountDown(refcnt[b]) \in 0..RefMod - 1
      BY <3>1, CountDownIs
    <3> QED BY <2>1, <3>1, <3>2
  <2> QED BY <1>0, <2>1, <2>4, <2>5 DEF TypeOK
<1>5. ASSUME NEW r \in Routes, TxRing(r) PROVE TypeOK'
  <2>1. PICK l, h \in Seq(Bufs) :
           /\ tx' = [tx EXCEPT ![r] = <<>>]
           /\ Len(ring[Out(r)]) + Len(l) <= Capacity
           /\ ring' = [ring EXCEPT ![Out(r)] = ring[Out(r)] \o l]
           /\ pool' = Moved(Home[tx[r][1]], {}, Own(ToSet(h)))
           /\ tx[r] # <<>> /\ UNCHANGED <<refcnt, rx, copying>>
    BY <1>5, TxRingDoes
  <2>2. Home[tx[r][1]] \in Pools /\ ToSet(h) \in SUBSET Bufs
    BY <2>1, NotEmpty, ToSetTyped, MbufAssumption DEF TypeOK
  <2>3. pool' \in [Pools -> [Bufs -> Nat]]
    BY <2>1, <2>2, PutTyped, MovedPool
  <2>4. Out(r) \in Ports /\ ring[Out(r)] \in Seq(Bufs)
    BY RouteTyped DEF TypeOK
  <2>5. /\ ring[Out(r)] \o l \in Seq(Bufs)
        /\ Len(ring[Out(r)] \o l) = Len(ring[Out(r)]) + Len(l)
    BY <2>4, Join
  <2>6. ring' \in [Ports -> Seq(Bufs)]
    BY <2>1, <2>5 DEF TypeOK
  <2>7. \A p \in Ports : Len(ring'[p]) <= Capacity
    BY <2>1, <2>4, <2>5 DEF TypeOK
  <2> QED BY <1>0, <2>1, <2>3, <2>6, <2>7 DEF TypeOK
<1>6. CASE UNCHANGED vars
  BY <1>6 DEF vars, TypeOK
<1> QED BY <1>1, <1>2, <1>3, <1>4, <1>5, <1>6 DEF Next, Forward, Tx

LEMMA MbufTypeInit == Init => TypeOK
<1> SUFFICES ASSUME Init PROVE TypeOK
  OBVIOUS
<1>1. <<>> \in Seq(Bufs) /\ Len(<<>>) = 0
  BY EmptySeq
<1>2. pool \in [Pools -> [Bufs -> Nat]]
  BY DEF Init
<1> QED BY <1>1, <1>2, SmallCount, MbufAssumption DEF Init, TypeOK

\* The mempools, rings, bursts and 16-bit counts keep their types in every run.
THEOREM MbufTypeCorrect == Spec => []TypeOK
BY MbufTypeInit, MbufTypeStep, PTL DEF Spec

(* --- the inductive invariant ------------------------------------------------------ *)

\* The pools, rings and bursts that hold buffer b.
InPool(b) == {p \in Pools : pool[p][b] > 0}
InRing(b) == {p \in Ports : b \in ToSet(ring[p])}
InRx(b) == {r \in Routes : b \in ToSet(rx[r])}
InTx(b) == {r \in Routes : b \in ToSet(tx[r])}
Spread(A, B, C, D) == ({"pool"} \X A) \cup ({"ring"} \X B) \cup ({"rx"} \X C) \cup ({"tx"} \X D)
Where(b) == Spread(InPool(b), InRing(b), InRx(b), InTx(b))

\* One of them holds a buffer, and it holds it once.
OneHolder == \A b \in Bufs : \A x, y \in Where(b) : x = y
Once ==
  /\ \A p \in Pools, b \in Bufs : pool[p][b] <= 1
  /\ \A p \in Ports : IsInjective(ring[p])
  /\ \A r \in Routes : IsInjective(rx[r]) /\ IsInjective(tx[r])

\* What is to be copied was received by sec_memcpy, which has nothing to send then.
CopiedFirst == \A r \in Routes : rx[r] # <<>> => r \in copying /\ tx[r] = <<>>

\* A buffer that is somewhere has a count of 0 or 1, and where nothing is copied
\* a count of 1 when it is in use.
Count(b) ==
  /\ Where(b) # {} => refcnt[b] \in {0, 1}
  /\ Where(b) # {} /\ InPool(b) = {} /\ copying = {} => refcnt[b] = 1
  /\ Where(b) = {} => copying # {} /\ refcnt[b] = RefMod - 1
Counts == \A b \in Bufs : Count(b)

BufInv == TypeOK /\ OneHolder /\ Once /\ CopiedFirst /\ Counts

\* With P[p] the pools that feed port p: the buffers in a pool are its own, and
\* those in the rings and bursts are of the pools that feed them.
Origin(P) ==
  /\ \A p \in Pools, b \in Bufs : pool[p][b] > 0 => Home[b] = p
  /\ \A p \in Ports : Kind[p] = "ring" => \A b \in ToSet(ring[p]) : Home[b] \in P[p]
  /\ \A r \in Routes : \A b \in ToSet(rx[r]) : r \in copying /\ Home[b] \in P[In(r)]
  /\ \A r \in Routes : \A b \in ToSet(tx[r]) :
       Home[b] \in (IF r \in copying THEN {TxPools[Out(r)]} ELSE P[In(r)])
OnePool(P) == Feeds(P, copying) /\ \A r \in copying : \A q, u \in P[In(r)] : q = u
OriginInv == \A P \in [Ports -> SUBSET Pools] : OnePool(P) => Origin(P)

(* --- where a buffer is -------------------------------------------------------------- *)

\* A buffer with one holder has no other.
LEMMA Alone ==
  ASSUME OneHolder, NEW b \in Bufs
  PROVE  /\ \A p \in InPool(b) : /\ InPool(b) = {p} /\ InRing(b) = {}
                                 /\ InRx(b) = {} /\ InTx(b) = {}
         /\ \A p \in InRing(b) : /\ InPool(b) = {} /\ InRing(b) = {p}
                                 /\ InRx(b) = {} /\ InTx(b) = {}
         /\ \A r \in InRx(b) : /\ InPool(b) = {} /\ InRing(b) = {}
                               /\ InRx(b) = {r} /\ InTx(b) = {}
         /\ \A r \in InTx(b) : /\ InPool(b) = {} /\ InRing(b) = {}
                               /\ InRx(b) = {} /\ InTx(b) = {r}
<1>0. \A x, y \in Where(b) : x = y
  BY DEF OneHolder
<1>1. /\ \A p \in InPool(b) : <<"pool", p>> \in Where(b)
      /\ \A p \in InRing(b) : <<"ring", p>> \in Where(b)
      /\ \A r \in InRx(b) : <<"rx", r>> \in Where(b)
      /\ \A r \in InTx(b) : <<"tx", r>> \in Where(b)
  BY DEF Where, Spread
<1>2. \A v, w, x, y : <<v, x>> = <<w, y>> => v = w /\ x = y
  OBVIOUS
<1>3. /\ \A p, q \in InPool(b) : p = q
      /\ \A p, q \in InRing(b) : p = q
      /\ \A p, q \in InRx(b) : p = q
      /\ \A p, q \in InTx(b) : p = q
  BY <1>0, <1>1, <1>2
<1>4. /\ \A p \in InPool(b), q \in InRing(b) : FALSE
      /\ \A p \in InPool(b), q \in InRx(b) : FALSE
      /\ \A p \in InPool(b), q \in InTx(b) : FALSE
      /\ \A p \in InRing(b), q \in InRx(b) : FALSE
      /\ \A p \in InRing(b), q \in InTx(b) : FALSE
      /\ \A p \in InRx(b), q \in InTx(b) : FALSE
  BY <1>0, <1>1, <1>2
<1> QED BY <1>3, <1>4

\* The four ways to be held by one.
OneOfFour(A, B, C, D) ==
  \/ \E p : A = {p} /\ B = {} /\ C = {} /\ D = {}
  \/ \E p : A = {} /\ B = {p} /\ C = {} /\ D = {}
  \/ \E r : A = {} /\ B = {} /\ C = {r} /\ D = {}
  \/ \E r : A = {} /\ B = {} /\ C = {} /\ D = {r}
HeldByOne(b) == OneOfFour(InPool(b), InRing(b), InRx(b), InTx(b))
HeldByNone(b) == InPool(b) = {} /\ InRing(b) = {} /\ InRx(b) = {} /\ InTx(b) = {}

LEMMA SpreadIs ==
  ASSUME NEW A, NEW B, NEW C, NEW D
  PROVE  /\ OneOfFour(A, B, C, D) => \E h : Spread(A, B, C, D) = {h}
         /\ A = {} /\ B = {} /\ C = {} /\ D = {} <=> Spread(A, B, C, D) = {}
<1>1. /\ \A p : {"pool"} \X {p} = {<<"pool", p>>}
      /\ \A p : {"ring"} \X {p} = {<<"ring", p>>}
      /\ \A p : {"rx"} \X {p} = {<<"rx", p>>}
      /\ \A p : {"tx"} \X {p} = {<<"tx", p>>}
      /\ \A k : {k} \X {} = {}
  OBVIOUS
<1>2. OneOfFour(A, B, C, D) => \E h : Spread(A, B, C, D) = {h}
  <2>1. ASSUME NEW p, A = {p}, B = {}, C = {}, D = {}
        PROVE  Spread(A, B, C, D) = {<<"pool", p>>}
    BY <1>1, <2>1 DEF Spread
  <2>2. ASSUME NEW p, A = {}, B = {p}, C = {}, D = {}
        PROVE  Spread(A, B, C, D) = {<<"ring", p>>}
    BY <1>1, <2>2 DEF Spread
  <2>3. ASSUME NEW p, A = {}, B = {}, C = {p}, D = {}
        PROVE  Spread(A, B, C, D) = {<<"rx", p>>}
    BY <1>1, <2>3 DEF Spread
  <2>4. ASSUME NEW p, A = {}, B = {}, C = {}, D = {p}
        PROVE  Spread(A, B, C, D) = {<<"tx", p>>}
    BY <1>1, <2>4 DEF Spread
  <2> QED BY <2>1, <2>2, <2>3, <2>4 DEF OneOfFour
<1>3. A = {} /\ B = {} /\ C = {} /\ D = {} => Spread(A, B, C, D) = {}
  BY <1>1 DEF Spread
<1>4. Spread(A, B, C, D) = {} => A = {} /\ B = {} /\ C = {} /\ D = {}
  <2>1. /\ \A p \in A : <<"pool", p>> \in Spread(A, B, C, D)
        /\ \A p \in B : <<"ring", p>> \in Spread(A, B, C, D)
        /\ \A r \in C : <<"rx", r>> \in Spread(A, B, C, D)
        /\ \A r \in D : <<"tx", r>> \in Spread(A, B, C, D)
    BY DEF Spread
  <2> QED BY <2>1
<1> QED BY <1>2, <1>3, <1>4

\* What a step may do to buffer b: leave it where it is, give it to one holder, or
\* lose it as a copy that was sent.
Stays(b) ==
  /\ InPool(b)' = InPool(b) /\ InRing(b)' = InRing(b)
  /\ InRx(b)' = InRx(b) /\ InTx(b)' = InTx(b) /\ refcnt'[b] = refcnt[b]
Passed(b) ==
  /\ HeldByOne(b)' /\ refcnt'[b] \in {0, 1}
  /\ InPool(b)' = {} /\ copying = {} => refcnt'[b] = 1
Lost(b) == HeldByNone(b)' /\ copying # {} /\ refcnt'[b] = RefMod - 1
Handled(b) == Stays(b) \/ Passed(b) \/ Lost(b)

LEMMA HandledKeeps ==
  ASSUME OneHolder, Counts, copying' = copying, \A b \in Bufs : Handled(b)
  PROVE  OneHolder' /\ Counts'
<1> SUFFICES ASSUME NEW b \in Bufs
             PROVE  (\A x, y \in Where(b)' : x = y) /\ Count(b)'
  BY DEF OneHolder, Counts
<1>0. (\A x, y \in Where(b) : x = y) /\ Count(b)
  BY DEF OneHolder, Counts
<1>4. Where(b)' = Spread(InPool(b)', InRing(b)', InRx(b)', InTx(b)')
  BY DEF Where
<1>1. CASE Stays(b)
  <2>1. Where(b)' = Where(b)
    BY <1>1 DEF Stays, Where
  <2> QED BY <1>0, <1>1, <2>1 DEF Stays, Count
<1>2. CASE Passed(b)
  <2>1. \E h : Where(b)' = {h}
    BY <1>2, <1>4, SpreadIs DEF Passed, HeldByOne
  <2> QED BY <1>2, <2>1 DEF Passed, Count
<1>3. CASE Lost(b)
  <2>1. Where(b)' = {}
    BY <1>3, <1>4, SpreadIs DEF Lost, HeldByNone
  <2> QED BY <1>3, <2>1 DEF Lost, Count
<1> QED BY <1>1, <1>2, <1>3 DEF Handled

\* What Moved does to where a buffer is.
PoolMoves(S, P, b) ==
  /\ b \notin S /\ (\A q \in Pools : b \notin P[q]) => InPool(b)' = InPool(b)
  /\ b \in S /\ (\A q \in Pools : b \notin P[q]) => InPool(b)' = {}
  /\ \A q \in Pools : InPool(b) = {} /\ (\A u \in Pools : b \in P[u] <=> u = q)
       => InPool(b)' = {q}
  /\ (\A q \in Pools : b \in P[q] => InPool(b) = {})
       => \A q \in Pools : pool'[q][b] <= 1

LEMMA MovedWhere ==
  ASSUME BufInv, NEW p \in Pools, NEW S \in SUBSET Free(p),
         NEW P \in [Pools -> SUBSET Bufs], pool' = Moved(p, S, P), NEW b \in Bufs
  PROVE  PoolMoves(S, P, b)
<1>0. TypeOK /\ OneHolder /\ Once
  BY DEF BufInv
<1>1. \A q \in Pools : /\ pool[q][b] \in Nat /\ pool[q][b] <= 1
                       /\ q \in InPool(b) <=> pool[q][b] = 1
  BY <1>0 DEF TypeOK, Once, InPool
<1>2. \A q \in Pools :
        pool'[q][b] = (pool[q][b] - (IF q = p /\ b \in S THEN 1 ELSE 0))
                      + (IF b \in P[q] THEN 1 ELSE 0)
  BY <1>0, MovedPool
<1>3. InPool(b)' = {q \in Pools : pool'[q][b] > 0} /\ InPool(b) \subseteq Pools
  BY DEF InPool
<1>4. b \in S => InPool(b) = {p} /\ pool[p][b] = 1
  <2>1. b \in S => p \in InPool(b)
    BY DEF Free, InPool
  <2> QED BY <1>0, <1>1, <2>1, Alone
<1>5. ASSUME b \notin S, \A q \in Pools : b \notin P[q]
      PROVE  InPool(b)' = InPool(b)
  <2>1. \A q \in Pools : pool'[q][b] = pool[q][b]
    BY <1>1, <1>2, <1>5
  <2> QED BY <1>3, <2>1 DEF InPool
<1>6. ASSUME b \in S, \A q \in Pools : b \notin P[q]
      PROVE  InPool(b)' = {}
  <2>1. \A q \in Pools : ~(pool'[q][b] > 0)
    BY <1>1, <1>2, <1>4, <1>6
  <2> QED BY <1>3, <2>1
<1>7. ASSUME NEW q \in Pools, InPool(b) = {}, \A u \in Pools : b \in P[u] <=> u = q
      PROVE  InPool(b)' = {q}
  <2>1. b \notin S
    BY <1>4, <1>7
  <2>2. \A u \in Pools : pool[u][b] = 0
    BY <1>1, <1>7
  <2>3. \A u \in Pools : pool'[u][b] > 0 <=> u = q
    BY <1>2, <1>7, <2>1, <2>2
  <2> QED BY <1>3, <2>3
<1>8. ASSUME \A q \in Pools : b \in P[q] => InPool(b) = {}, NEW q \in Pools
      PROVE  pool'[q][b] <= 1
  <2>1. CASE b \in P[q]
    <3>1. pool[q][b] = 0 /\ b \notin S
      BY <1>1, <1>4, <1>8, <2>1
    <3> QED BY <1>2, <2>1, <3>1
  <2>2. CASE b \notin P[q]
    <3>1. pool'[q][b] = pool[q][b] - (IF q = p /\ b \in S THEN 1 ELSE 0)
      BY <1>1, <1>2, <1>4, <2>2
    <3> QED BY <1>1, <3>1
  <2> QED BY <2>1, <2>2
<1> QED BY <1>5, <1>6, <1>7, <1>8 DEF PoolMoves

\* What receiving a burst does to where a buffer is.
LEMMA ReceivedWhere ==
  ASSUME BufInv, NEW r \in Routes, NEW s \in Seq(Bufs), Idle(r), Received(r, s),
         NEW b \in Bufs
  PROVE  /\ b \notin ToSet(s) => InRx(b)' = InRx(b) /\ InTx(b)' = InTx(b)
         /\ b \in ToSet(s) /\ InRx(b) = {} /\ InTx(b) = {}
              => \/ InRx(b)' = {r} /\ InTx(b)' = {}
                 \/ InRx(b)' = {} /\ InTx(b)' = {r}
<1>1. /\ rx \in [Routes -> Seq(Bufs)] /\ tx \in [Routes -> Seq(Bufs)]
      /\ b \notin ToSet(rx[r]) /\ b \notin ToSet(tx[r])
  BY NothingInIt DEF BufInv, TypeOK, Idle
<1>2. CASE r \in copying
  <2>1. rx' = [rx EXCEPT ![r] = s] /\ tx' = tx
    BY <1>2 DEF Received
  <2>2. \A x \in Routes : rx'[x] = IF x = r THEN s ELSE rx[x]
    BY <1>1, <2>1
  <2>3. InTx(b)' = InTx(b)
    BY <2>1 DEF InTx
  <2>4. b \notin ToSet(s) => InRx(b)' = InRx(b)
    BY <1>1, <2>2 DEF InRx
  <2>5. b \in ToSet(s) /\ InRx(b) = {} => InRx(b)' = {r}
    BY <1>1, <2>2 DEF InRx
  <2> QED BY <2>3, <2>4, <2>5
<1>3. CASE r \notin copying
  <2>1. tx' = [tx EXCEPT ![r] = s] /\ rx' = rx
    BY <1>3 DEF Received
  <2>2. \A x \in Routes : tx'[x] = IF x = r THEN s ELSE tx[x]
    BY <1>1, <2>1
  <2>3. InRx(b)' = InRx(b)
    BY <2>1 DEF InRx
  <2>4. b \notin ToSet(s) => InTx(b)' = InTx(b)
    BY <1>1, <2>2 DEF InTx
  <2>5. b \in ToSet(s) /\ InTx(b) = {} => InTx(b)' = {r}
    BY <1>1, <2>2 DEF InTx
  <2> QED BY <2>3, <2>4, <2>5
<1> QED BY <1>2, <1>3

LEMMA ReceivedOnce ==
  ASSUME BufInv, NEW r \in Routes, NEW s \in Seq(Bufs), Idle(r), Received(r, s),
         copying' = copying
  PROVE  /\ IsInjective(s) => \A x \in Routes : IsInjective(rx'[x]) /\ IsInjective(tx'[x])
         /\ CopiedFirst'
<1>1. /\ rx \in [Routes -> Seq(Bufs)] /\ tx \in [Routes -> Seq(Bufs)]
      /\ rx[r] = <<>> /\ tx[r] = <<>> /\ Once /\ CopiedFirst
  BY DEF BufInv, TypeOK, Idle
<1>2. CASE r \in copying
  BY <1>1, <1>2 DEF Received, Once, CopiedFirst
<1>3. CASE r \notin copying
  BY <1>1, <1>3 DEF Received, Once, CopiedFirst
<1> QED BY <1>2, <1>3

(* --- the steps ------------------------------------------------------------------------ *)

\* What each step keeps.
Kept == (\A b \in Bufs : Handled(b)) /\ Once' /\ CopiedFirst'

\* Emptying a burst.
LEMMA EmptyBurst ==
  ASSUME TypeOK, NEW r \in Routes, NEW b \in Bufs
  PROVE  /\ rx' = [rx EXCEPT ![r] = <<>>] => InRx(b)' = InRx(b) \ {r}
         /\ tx' = [tx EXCEPT ![r] = <<>>] => InTx(b)' = InTx(b) \ {r}
<1>1. b \notin ToSet(<<>>)
  BY NothingInIt
<1>2. ASSUME rx' = [rx EXCEPT ![r] = <<>>] PROVE InRx(b)' = InRx(b) \ {r}
  <2>1. \A x \in Routes : rx'[x] = IF x = r THEN <<>> ELSE rx[x]
    BY <1>2 DEF TypeOK
  <2> QED BY <1>1, <2>1 DEF InRx
<1>3. ASSUME tx' = [tx EXCEPT ![r] = <<>>] PROVE InTx(b)' = InTx(b) \ {r}
  <2>1. \A x \in Routes : tx'[x] = IF x = r THEN <<>> ELSE tx[x]
    BY <1>3 DEF TypeOK
  <2> QED BY <1>1, <2>1 DEF InTx
<1> QED BY <1>2, <1>3

\* A buffer in use has a count of 0 or 1, and of 1 where nothing is copied.
LEMMA InUse ==
  ASSUME BufInv, NEW b \in Bufs,
         InPool(b) # {} \/ InRing(b) # {} \/ InRx(b) # {} \/ InTx(b) # {}
  PROVE  refcnt[b] \in {0, 1} /\ (InPool(b) = {} /\ copying = {} => refcnt[b] = 1)
<1>1. Where(b) # {}
  BY SpreadIs DEF Where
<1> QED BY <1>1 DEF BufInv, Counts, Count

LEMMA RxAllocKeeps ==
  ASSUME BufInv, NEW r \in Routes, RxAlloc(r)
  PROVE  Kept
<1> DEFINE p == RxPool[In(r)]
<1>0. TypeOK /\ OneHolder /\ Once
  BY DEF BufInv
<1>1. PICK S \in SUBSET Free(p), s \in Seq(Bufs) :
        /\ ToSet(s) = S /\ IsInjective(s)
        /\ pool' = Moved(p, S, NoPut)
        /\ refcnt' = [b \in Bufs |-> IF b \in S THEN 1 ELSE refcnt[b]]
        /\ Received(r, s) /\ Idle(r) /\ UNCHANGED <<ring, copying>>
  BY <1>0, RxAllocDoes
<1>2. p \in Pools /\ NoPut \in [Pools -> SUBSET Bufs] /\ \A q \in Pools : NoPut[q] = {}
  BY RouteTyped, PutTyped DEF NoPut
<1> HIDE DEF p
<1>3. ASSUME NEW b \in Bufs PROVE Handled(b)
  <2>0. InRing(b)' = InRing(b) /\ PoolMoves(S, NoPut, b)
    BY <1>1, <1>2, MovedWhere DEF InRing
  <2>1. CASE b \in S
    <3>1. p \in InPool(b)
      BY <1>2, <2>1 DEF Free, InPool
    <3>2. InRing(b) = {} /\ InRx(b) = {} /\ InTx(b) = {}
      BY <1>0, <3>1, Alone
    <3>3. InPool(b)' = {}
      BY <1>2, <2>0, <2>1 DEF PoolMoves
    <3>4. \/ InRx(b)' = {r} /\ InTx(b)' = {}
          \/ InRx(b)' = {} /\ InTx(b)' = {r}
      BY <1>1, <2>1, <3>2, ReceivedWhere
    <3>5. refcnt'[b] = 1
      BY <1>1, <2>1
    <3> QED BY <2>0, <3>2, <3>3, <3>4, <3>5 DEF Handled, Passed, HeldByOne, OneOfFour
  <2>2. CASE b \notin S
    <3>1. InPool(b)' = InPool(b)
      BY <1>2, <2>0, <2>2 DEF PoolMoves
    <3>2. InRx(b)' = InRx(b) /\ InTx(b)' = InTx(b)
      BY <1>1, <2>2, ReceivedWhere
    <3>3. refcnt'[b] = refcnt[b]
      BY <1>1, <2>2
    <3> QED BY <2>0, <3>1, <3>2, <3>3 DEF Handled, Stays
  <2> QED BY <2>1, <2>2
<1>4. (\A x \in Routes : IsInjective(rx'[x]) /\ IsInjective(tx'[x])) /\ CopiedFirst'
  BY <1>1, ReceivedOnce
<1>5. ASSUME NEW b \in Bufs PROVE \A q \in Pools : pool'[q][b] <= 1
  <2>1. PoolMoves(S, NoPut, b)
    BY <1>1, <1>2, MovedWhere
  <2> QED BY <1>2, <2>1 DEF PoolMoves
<1>6. \A q \in Ports : IsInjective(ring'[q])
  BY <1>0, <1>1 DEF Once
<1> QED BY <1>3, <1>4, <1>5, <1>6 DEF Kept, Once

LEMMA RxRingKeeps ==
  ASSUME BufInv, NEW r \in Routes, RxRing(r)
  PROVE  Kept
<1> DEFINE p == In(r)
<1>0. TypeOK /\ OneHolder /\ Once /\ p \in Ports
  BY RouteTyped DEF BufInv
<1>1. PICK l, h \in Seq(Bufs) :
        /\ Parts(ring[p], l, h) /\ Received(r, l) /\ ring' = [ring EXCEPT ![p] = h]
        /\ Idle(r) /\ UNCHANGED <<pool, refcnt, copying>>
  BY <1>0, RxRingDoes
<1> HIDE DEF p
<1>2. /\ ToSet(ring[p]) = ToSet(l) \cup ToSet(h) /\ ToSet(l) \cap ToSet(h) = {}
      /\ IsInjective(l) /\ IsInjective(h)
  BY <1>0, <1>1 DEF Parts, Once
<1>3. \A q \in Ports : ring'[q] = IF q = p THEN h ELSE ring[q]
  BY <1>0, <1>1 DEF TypeOK
<1>4. ASSUME NEW b \in Bufs PROVE Handled(b)
  <2>0. InPool(b)' = InPool(b) /\ refcnt'[b] = refcnt[b]
    BY <1>1 DEF InPool
  <2>1. CASE b \in ToSet(l)
    <3>1. p \in InRing(b)
      BY <1>0, <1>2, <2>1 DEF InRing
    <3>2. InPool(b) = {} /\ InRing(b) = {p} /\ InRx(b) = {} /\ InTx(b) = {}
      BY <1>0, <3>1, Alone
    <3>3. InRing(b)' = {}
      BY <1>2, <1>3, <2>1, <3>2 DEF InRing
    <3>4. \/ InRx(b)' = {r} /\ InTx(b)' = {}
          \/ InRx(b)' = {} /\ InTx(b)' = {r}
      BY <1>1, <2>1, <3>2, ReceivedWhere
    <3>5. refcnt[b] \in {0, 1} /\ (copying = {} => refcnt[b] = 1)
      BY <3>2, InUse
    <3> QED BY <2>0, <3>2, <3>3, <3>4, <3>5 DEF Handled, Passed, HeldByOne, OneOfFour
  <2>2. CASE b \notin ToSet(l)
    <3>1. InRing(b)' = InRing(b)
      BY <1>2, <1>3, <2>2 DEF InRing
    <3>2. InRx(b)' = InRx(b) /\ InTx(b)' = InTx(b)
      BY <1>1, <2>2, ReceivedWhere
    <3> QED BY <2>0, <3>1, <3>2 DEF Handled, Stays
  <2> QED BY <2>1, <2>2
<1>5. (\A x \in Routes : IsInjective(rx'[x]) /\ IsInjective(tx'[x])) /\ CopiedFirst'
  BY <1>1, <1>2, ReceivedOnce
<1>6. \A q \in Ports : IsInjective(ring'[q])
  BY <1>0, <1>2, <1>3 DEF Once
<1>7. \A q \in Pools, b \in Bufs : pool'[q][b] <= 1
  BY <1>0, <1>1 DEF Once
<1> QED BY <1>4, <1>5, <1>6, <1>7 DEF Kept, Once

LEMMA CopyKeeps ==
  ASSUME BufInv, NEW r \in Routes, Copy(r) \/ CopyFails(r)
  PROVE  Kept
<1> DEFINE p == TxPools[Out(r)]
           first == Home[rx[r][1]]
<1>0. TypeOK /\ OneHolder /\ Once /\ CopiedFirst /\ p \in Pools
  BY RouteTyped DEF BufInv
<1>1. PICK S \in SUBSET Free(p), s \in Seq(Bufs) :
        /\ S # {} => ToSet(s) = S /\ IsInjective(s) /\ tx' = [tx EXCEPT ![r] = s]
        /\ S = {} => tx' = tx
        /\ rx[r] # <<>> /\ rx' = [rx EXCEPT ![r] = <<>>]
        /\ pool' = Moved(p, S, OfFirst(rx[r]))
        /\ UNCHANGED <<refcnt, ring, copying>>
  BY <1>0, CopyDoes
<1>2. /\ rx \in [Routes -> Seq(Bufs)] /\ tx \in [Routes -> Seq(Bufs)]
      /\ first \in Pools /\ OfFirst(rx[r]) \in [Pools -> SUBSET Bufs]
      /\ \A q \in Pools : OfFirst(rx[r])[q] = IF q = first THEN ToSet(rx[r]) ELSE {}
  <2>1. rx[r] \in Seq(Bufs)
    BY <1>0 DEF TypeOK
  <2>2. first \in Pools
    BY <1>1, <2>1, NotEmpty, MbufAssumption
  <2> QED BY <1>0, <2>1, <2>2, PutTyped DEF TypeOK, OfFirst
<1> HIDE DEF p, first
<1>3. copying # {} /\ tx[r] = <<>>
  BY <1>0, <1>1 DEF CopiedFirst
<1>4. ASSUME NEW b \in Bufs
      PROVE  /\ b \in S => p \in InPool(b) /\ b \notin ToSet(rx[r])
             /\ b \in ToSet(rx[r]) => r \in InRx(b) /\ InPool(b) = {} /\ b \notin S
  <2>1. b \in S => p \in InPool(b)
    BY <1>0 DEF Free, InPool
  <2>2. b \in ToSet(rx[r]) => r \in InRx(b)
    BY DEF InRx
  <2> QED BY <1>0, <2>1, <2>2, Alone
<1>5. ASSUME NEW b \in Bufs PROVE PoolMoves(S, OfFirst(rx[r]), b)
  BY <1>0, <1>1, <1>2, MovedWhere
<1>6. ASSUME NEW b \in Bufs PROVE Handled(b)
  <2>0. /\ InRing(b)' = InRing(b) /\ refcnt'[b] = refcnt[b]
        /\ PoolMoves(S, OfFirst(rx[r]), b)
    BY <1>1, <1>5 DEF InRing
  <2>1. InRx(b)' = InRx(b) \ {r}
    BY <1>0, <1>1, EmptyBurst
  <2>2. CASE b \in S
    <3>1. InPool(b) = {p} /\ InRing(b) = {} /\ InRx(b) = {} /\ InTx(b) = {}
      BY <1>0, <1>4, <2>2, Alone
    <3>2. InPool(b)' = {}
      BY <1>2, <1>4, <2>0, <2>2 DEF PoolMoves
    <3>3. InTx(b)' = {r}
      <4>1. \A x \in Routes : tx'[x] = IF x = r THEN s ELSE tx[x]
        BY <1>1, <1>2, <2>2
      <4>2. b \in ToSet(s)
        BY <1>1, <2>2
      <4> QED BY <3>1, <4>1, <4>2 DEF InTx
    <3>4. refcnt[b] \in {0, 1}
      BY <3>1, InUse
    <3> QED BY <1>3, <2>0, <2>1, <3>1, <3>2, <3>3, <3>4 DEF Handled, Passed, HeldByOne, OneOfFour
  <2>3. ASSUME b \notin S PROVE InTx(b)' = InTx(b)
    <3>1. CASE S = {}
      BY <1>1, <3>1 DEF InTx
    <3>2. CASE S # {}
      <4>1. \A x \in Routes : tx'[x] = IF x = r THEN s ELSE tx[x]
        BY <1>1, <1>2, <3>2
      <4>2. b \notin ToSet(s) /\ b \notin ToSet(tx[r])
        BY <1>1, <1>3, <2>3, <3>2, NothingInIt
      <4> QED BY <4>1, <4>2 DEF InTx
    <3> QED BY <3>1, <3>2
  <2>4. CASE b \in ToSet(rx[r])
    <3>1. InPool(b) = {} /\ InRing(b) = {} /\ InRx(b) = {r} /\ InTx(b) = {} /\ b \notin S
      BY <1>0, <1>4, <2>4, Alone
    <3>2. InPool(b)' = {first}
      BY <1>2, <2>0, <2>4, <3>1 DEF PoolMoves
    <3>3. refcnt[b] \in {0, 1}
      BY <3>1, InUse
    <3> QED BY <1>3, <2>0, <2>1, <2>3, <3>1, <3>2, <3>3 DEF Handled, Passed, HeldByOne, OneOfFour
  <2>5. CASE b \notin S /\ b \notin ToSet(rx[r])
    <3>1. InPool(b)' = InPool(b)
      BY <1>2, <2>0, <2>5 DEF PoolMoves
    <3>2. InRx(b)' = InRx(b)
      BY <2>1, <2>5 DEF InRx
    <3> QED BY <2>0, <2>3, <2>5, <3>1, <3>2 DEF Handled, Stays
  <2> QED BY <2>2, <2>4, <2>5
<1>7. \A q \in Pools, b \in Bufs : pool'[q][b] <= 1
  <2>1. ASSUME NEW b \in Bufs, NEW q \in Pools, b \in OfFirst(rx[r])[q] PROVE InPool(b) = {}
    BY <1>2, <1>4, <2>1
  <2> QED BY <1>5, <2>1 DEF PoolMoves
<1>8. \A x \in Routes : IsInjective(rx'[x]) /\ IsInjective(tx'[x])
  BY <1>0, <1>1, <1>2, NothingInIt DEF Once
<1>9. \A q \in Ports : IsInjective(ring'[q])
  BY <1>0, <1>1 DEF Once
<1>10. CopiedFirst'
  BY <1>0, <1>1, <1>2 DEF CopiedFirst
<1> QED BY <1>6, <1>7, <1>8, <1>9, <1>10 DEF Kept, Once

\* Putting buffers that are in no pool back into their own pools.
LEMMA OwnIs ==
  ASSUME BufInv, NEW S \in SUBSET Bufs, NEW p \in Pools, pool' = Moved(p, {}, Own(S)),
         NEW b \in Bufs, b \in S => InPool(b) = {}
  PROVE  /\ b \in S => InPool(b)' = {Home[b]}
         /\ b \notin S => InPool(b)' = InPool(b)
         /\ \A q \in Pools : pool'[q][b] <= 1
<1>1. Own(S) \in [Pools -> SUBSET Bufs] /\ {} \in SUBSET Free(p)
  BY PutTyped
<1>2. Home[b] \in Pools
  BY MbufAssumption
<1>3. \A q \in Pools : b \in Own(S)[q] <=> b \in S /\ q = Home[b]
  BY DEF Own
<1>4. PoolMoves({}, Own(S), b)
  BY <1>1, MovedWhere
<1> QED BY <1>2, <1>3, <1>4 DEF PoolMoves

LEMMA TxFreeKeeps ==
  ASSUME BufInv, NEW r \in Routes, TxFree(r)
  PROVE  Kept
<1>0. TypeOK /\ OneHolder /\ Once /\ CopiedFirst
  BY DEF BufInv
<1>1. PICK l, h \in Seq(Bufs) :
        /\ Parts(tx[r], l, h) /\ tx' = [tx EXCEPT ![r] = <<>>]
        /\ pool' = Moved(Home[tx[r][1]], {},
                      Own({b \in ToSet(l) : CountDown(refcnt[b]) = 0} \cup ToSet(h)))
        /\ refcnt' = [b \in Bufs |->
             IF b \in ToSet(l) THEN CountDown(refcnt[b]) ELSE refcnt[b]]
        /\ tx[r] # <<>> /\ UNCHANGED <<ring, rx, copying>>
  BY <1>0, TxFreeDoes
<1> DEFINE B == {b \in ToSet(l) : CountDown(refcnt[b]) = 0} \cup ToSet(h)
           p == Home[tx[r][1]]
<1>2. /\ ToSet(tx[r]) = ToSet(l) \cup ToSet(h) /\ ToSet(l) \cap ToSet(h) = {}
      /\ B \in SUBSET Bufs /\ B \subseteq ToSet(tx[r])
      /\ tx \in [Routes -> Seq(Bufs)] /\ rx \in [Routes -> Seq(Bufs)]
  BY <1>0, <1>1, ToSetTyped DEF Parts, Once, TypeOK
<1>3. p \in Pools /\ pool' = Moved(p, {}, Own(B))
  BY <1>0, <1>1, NotEmpty, MbufAssumption DEF TypeOK
<1>4. \A b \in Bufs : b \in B <=> (b \in ToSet(l) /\ CountDown(refcnt[b]) = 0) \/ b \in ToSet(h)
  OBVIOUS
<1> HIDE DEF B, p
<1>5. ASSUME NEW b \in Bufs, b \in ToSet(tx[r])
      PROVE  InPool(b) = {} /\ InRing(b) = {} /\ InRx(b) = {} /\ InTx(b) = {r}
  <2>1. r \in InTx(b)
    BY <1>5 DEF InTx
  <2> QED BY <1>0, <2>1, Alone
<1>6. ASSUME NEW b \in Bufs
      PROVE  /\ InRing(b)' = InRing(b) /\ InRx(b)' = InRx(b) /\ InTx(b)' = InTx(b) \ {r}
             /\ b \in B => InPool(b)' = {Home[b]}
             /\ b \notin B => InPool(b)' = InPool(b)
             /\ \A q \in Pools : pool'[q][b] <= 1
  <2>1. InTx(b)' = InTx(b) \ {r}
    BY <1>0, <1>1, EmptyBurst
  <2>2. InRing(b)' = InRing(b) /\ InRx(b)' = InRx(b)
    BY <1>1 DEF InRing, InRx
  <2>3. b \in B => InPool(b) = {}
    BY <1>2, <1>5
  <2>4. /\ b \in B => InPool(b)' = {Home[b]}
        /\ b \notin B => InPool(b)' = InPool(b)
        /\ \A q \in Pools : pool'[q][b] <= 1
    BY <1>2, <1>3, <2>3, OwnIs
  <2> QED BY <2>1, <2>2, <2>4
<1>7. ASSUME NEW b \in Bufs PROVE Handled(b)
  <2>1. CASE b \notin ToSet(tx[r])
    <3>1. b \notin B /\ b \notin ToSet(l) /\ r \notin InTx(b)
      BY <1>2, <2>1 DEF InTx
    <3>2. refcnt'[b] = refcnt[b]
      BY <1>1, <3>1
    <3> QED BY <1>6, <3>1, <3>2 DEF Handled, Stays
  <2>2. CASE b \in ToSet(tx[r])
    <3>0. InPool(b) = {} /\ InRing(b) = {} /\ InRx(b) = {} /\ InTx(b) = {r}
      BY <1>5, <2>2
    <3>1. refcnt[b] \in {0, 1} /\ (copying = {} => refcnt[b] = 1)
      BY <3>0, InUse
    <3>2. /\ refcnt[b] = 0 => CountDown(refcnt[b]) = RefMod - 1
          /\ refcnt[b] = 1 => CountDown(refcnt[b]) = 0
      BY <3>1, CountDownIs, SmallCount
    <3>3. refcnt'[b] = IF b \in ToSet(l) THEN CountDown(refcnt[b]) ELSE refcnt[b]
      BY <1>1
    <3>4. CASE b \in B
      <4>1. refcnt'[b] \in {0, 1}
        BY <1>2, <1>4, <3>1, <3>3, <3>4
      <4> QED BY <1>6, <3>0, <3>4, <4>1 DEF Handled, Passed, HeldByOne, OneOfFour
    <3>5. CASE b \notin B
      <4>1. b \in ToSet(l) /\ CountDown(refcnt[b]) # 0
        BY <1>2, <1>4, <2>2, <3>5
      <4>2. refcnt[b] = 0 /\ copying # {} /\ refcnt'[b] = RefMod - 1
        BY <3>1, <3>2, <3>3, <4>1
      <4> QED BY <1>6, <3>0, <3>5, <4>2 DEF Handled, Lost, HeldByNone
    <3> QED BY <3>4, <3>5
  <2> QED BY <2>1, <2>2
<1>8. \A x \in Routes : IsInjective(rx'[x]) /\ IsInjective(tx'[x])
  BY <1>0, <1>1, <1>2, NothingInIt DEF Once
<1>9. (\A q \in Ports : IsInjective(ring'[q])) /\ CopiedFirst'
  BY <1>0, <1>1, <1>2 DEF Once, CopiedFirst
<1> QED BY <1>6, <1>7, <1>8, <1>9 DEF Kept, Once

LEMMA TxRingKeeps ==
  ASSUME BufInv, NEW r \in Routes, TxRing(r)
  PROVE  Kept
<1> DEFINE o == Out(r)
           p == Home[tx[r][1]]
<1>0. TypeOK /\ OneHolder /\ Once /\ CopiedFirst /\ o \in Ports
  BY RouteTyped DEF BufInv
<1>1. PICK l, h \in Seq(Bufs) :
        /\ Parts(tx[r], l, h) /\ tx' = [tx EXCEPT ![r] = <<>>]
        /\ ring' = [ring EXCEPT ![o] = ring[o] \o l]
        /\ pool' = Moved(p, {}, Own(ToSet(h)))
        /\ tx[r] # <<>> /\ UNCHANGED <<refcnt, rx, copying>>
  BY <1>0, TxRingDoes
<1>2. /\ ToSet(tx[r]) = ToSet(l) \cup ToSet(h) /\ ToSet(l) \cap ToSet(h) = {}
      /\ IsInjective(l) /\ ToSet(l) \in SUBSET Bufs /\ ToSet(h) \in SUBSET Bufs
      /\ tx \in [Routes -> Seq(Bufs)] /\ rx \in [Routes -> Seq(Bufs)]
  BY <1>0, <1>1, ToSetTyped DEF Parts, Once, TypeOK
<1>3. p \in Pools
  BY <1>0, <1>1, NotEmpty, MbufAssumption DEF TypeOK
<1> HIDE DEF p, o
<1>4. ASSUME NEW b \in Bufs, b \in ToSet(tx[r])
      PROVE  InPool(b) = {} /\ InRing(b) = {} /\ InRx(b) = {} /\ InTx(b) = {r}
  <2>1. r \in InTx(b)
    BY <1>4 DEF InTx
  <2> QED BY <1>0, <2>1, Alone
<1>5. /\ ring[o] \in Seq(Bufs) /\ IsInjective(ring[o])
      /\ ToSet(ring[o]) \cap ToSet(l) = {}
  <2>1. \A b \in ToSet(l) : b \notin ToSet(ring[o])
    BY <1>0, <1>2, <1>4 DEF InRing
  <2> QED BY <1>0, <2>1 DEF TypeOK, Once
<1>6. /\ ToSet(ring[o] \o l) = ToSet(ring[o]) \cup ToSet(l) /\ IsInjective(ring[o] \o l)
  BY <1>2, <1>5, Join
<1>7. \A q \in Ports : ring'[q] = IF q = o THEN ring[o] \o l ELSE ring[q]
  BY <1>0, <1>1 DEF TypeOK
<1>8. ASSUME NEW b \in Bufs
      PROVE  /\ InRx(b)' = InRx(b) /\ InTx(b)' = InTx(b) \ {r}
             /\ b \in ToSet(h) => InPool(b)' = {Home[b]}
             /\ b \notin ToSet(h) => InPool(b)' = InPool(b)
             /\ InRing(b)' = InRing(b) \cup (IF b \in ToSet(l) THEN {o} ELSE {})
             /\ \A q \in Pools : pool'[q][b] <= 1
  <2>1. InTx(b)' = InTx(b) \ {r}
    BY <1>0, <1>1, EmptyBurst
  <2>2. InRx(b)' = InRx(b)
    BY <1>1 DEF InRx
  <2>3. b \in ToSet(h) => InPool(b) = {}
    BY <1>2, <1>4
  <2>4. /\ b \in ToSet(h) => InPool(b)' = {Home[b]}
        /\ b \notin ToSet(h) => InPool(b)' = InPool(b)
        /\ \A q \in Pools : pool'[q][b] <= 1
    BY <1>1, <1>2, <1>3, <2>3, OwnIs
  <2>7. InRing(b)' = InRing(b) \cup (IF b \in ToSet(l) THEN {o} ELSE {})
    <3>1. \A q \in Ports : b \in ToSet(ring'[q]) <=>
            b \in ToSet(ring[q]) \/ (q = o /\ b \in ToSet(l))
      BY <1>6, <1>7
    <3> QED BY <1>0, <3>1 DEF InRing
  <2> QED BY <2>1, <2>2, <2>4, <2>7
<1>9. ASSUME NEW b \in Bufs PROVE Handled(b)
  <2>0. refcnt'[b] = refcnt[b]
    BY <1>1
  <2>1. CASE b \notin ToSet(tx[r])
    <3>1. b \notin ToSet(h) /\ b \notin ToSet(l) /\ r \notin InTx(b)
      BY <1>2, <2>1 DEF InTx
    <3> QED BY <1>8, <2>0, <3>1 DEF Handled, Stays
  <2>2. CASE b \in ToSet(tx[r])
    <3>0. InPool(b) = {} /\ InRing(b) = {} /\ InRx(b) = {} /\ InTx(b) = {r}
      BY <1>4, <2>2
    <3>1. refcnt[b] \in {0, 1} /\ (copying = {} => refcnt[b] = 1)
      BY <3>0, InUse
    <3>2. CASE b \in ToSet(h)
      <4>1. b \notin ToSet(l)
        BY <1>2, <3>2
      <4>2. InPool(b)' = {Home[b]} /\ InRing(b)' = {} /\ InRx(b)' = {} /\ InTx(b)' = {}
        BY <1>8, <3>0, <3>2, <4>1
      <4> QED BY <2>0, <3>1, <4>2 DEF Handled, Passed, HeldByOne, OneOfFour
    <3>3. CASE b \notin ToSet(h)
      <4>1. b \in ToSet(l)
        BY <1>2, <2>2, <3>3
      <4>2. InPool(b)' = {} /\ InRing(b)' = {o} /\ InRx(b)' = {} /\ InTx(b)' = {}
        BY <1>8, <3>0, <3>3, <4>1
      <4> QED BY <2>0, <3>1, <4>2 DEF Handled, Passed, HeldByOne, OneOfFour
    <3> QED BY <3>2, <3>3
  <2> QED BY <2>1, <2>2
<1>10. \A x \in Routes : IsInjective(rx'[x]) /\ IsInjective(tx'[x])
  BY <1>0, <1>1, <1>2, NothingInIt DEF Once
<1>11. (\A q \in Ports : IsInjective(ring'[q])) /\ CopiedFirst'
  BY <1>0, <1>1, <1>2, <1>6, <1>7 DEF Once, CopiedFirst
<1> QED BY <1>8, <1>9, <1>10, <1>11 DEF Kept, Once

LEMMA BufStep == BufInv /\ [Next]_vars => BufInv'
<1> SUFFICES ASSUME BufInv, [Next]_vars PROVE BufInv'
  OBVIOUS
<1>0. TypeOK'
  BY MbufTypeStep DEF BufInv
<1>1. CASE Next
  <2>1. PICK r \in Routes : Forward(r)
    BY <1>1 DEF Next
  <2>2. Kept
    BY <2>1, RxAllocKeeps, RxRingKeeps, CopyKeeps, TxFreeKeeps, TxRingKeeps DEF Forward, Tx
  <2>3. copying' = copying
    BY <2>1 DEF Forward, RxAlloc, RxRing, Copy, CopyFails, Tx, TxFree, TxRing
  <2>4. OneHolder' /\ Counts'
    BY <2>2, <2>3, HandledKeeps DEF BufInv, Kept
  <2> QED BY <1>0, <2>2, <2>4 DEF BufInv, Kept
<1>2. CASE UNCHANGED vars
  <2>1. \A b \in Bufs : Handled(b)
    BY <1>2 DEF vars, Handled, Stays, InPool, InRing, InRx, InTx
  <2>2. OneHolder' /\ Counts'
    BY <1>2, <2>1, HandledKeeps DEF BufInv, vars
  <2>3. Once' /\ CopiedFirst'
    BY <1>2 DEF BufInv, vars, Once, CopiedFirst
  <2> QED BY <1>0, <2>2, <2>3 DEF BufInv
<1> QED BY <1>1, <1>2

LEMMA BufInit == Init => BufInv
<1> SUFFICES ASSUME Init PROVE BufInv
  OBVIOUS
<1>1. TypeOK
  BY MbufTypeInit
<1>2. ASSUME NEW b \in Bufs
      PROVE  /\ InPool(b) = {Home[b]} /\ InRing(b) = {} /\ InRx(b) = {} /\ InTx(b) = {}
             /\ \A p \in Pools : pool[p][b] <= 1
  <2>1. Home[b] \in Pools /\ \A p \in Pools : pool[p][b] = IF Home[b] = p THEN 1 ELSE 0
    BY MbufAssumption DEF Init
  <2>2. /\ \A p \in Ports : b \notin ToSet(ring[p])
        /\ \A r \in Routes : b \notin ToSet(rx[r]) /\ b \notin ToSet(tx[r])
    BY NothingInIt DEF Init
  <2>3. InPool(b) = {Home[b]} /\ \A p \in Pools : pool[p][b] <= 1
    BY <2>1 DEF InPool
  <2> QED BY <2>2, <2>3 DEF InRing, InRx, InTx
<1>3. ASSUME NEW b \in Bufs PROVE \E h : Where(b) = {h}
  <2>1. Where(b) = Spread({Home[b]}, {}, {}, {})
    BY <1>2 DEF Where
  <2> DEFINE h == Home[b]
  <2> HIDE DEF h
  <2>2. OneOfFour({h}, {}, {}, {})
    BY DEF OneOfFour
  <2>3. \E x : Spread({h}, {}, {}, {}) = {x}
    BY <2>2, SpreadIs
  <2> QED BY <2>1, <2>3 DEF h
<1>4. OneHolder
  BY <1>3 DEF OneHolder
<1>5. Counts
  <2> SUFFICES ASSUME NEW b \in Bufs PROVE Count(b)
    BY DEF Counts
  <2>1. refcnt[b] = 0 /\ InPool(b) # {} /\ Where(b) # {}
    BY <1>2, <1>3 DEF Init
  <2> QED BY <2>1 DEF Count
<1>6. Once /\ CopiedFirst
  BY <1>2, NothingInIt DEF Init, Once, CopiedFirst
<1> QED BY <1>1, <1>4, <1>5, <1>6 DEF BufInv

(* --- what the invariant says ---------------------------------------------------------- *)

\* A place of a buffer is in one of its holders.
LEMMA PlaceIs ==
  ASSUME NEW b \in Bufs, NEW x \in Places(b)
  PROVE  \/ \E p \in Pools : \E i \in 1..pool[p][b] : x = <<"pool", p, i>>
         \/ \E p \in Ports : \E i \in At(b, ring[p]) : x = <<"ring", p, i>>
         \/ \E r \in Routes : \E i \in At(b, rx[r]) : x = <<"rx", r, i>>
         \/ \E r \in Routes : \E i \in At(b, tx[r]) : x = <<"tx", r, i>>
BY DEF Places

LEMMA IsAPlace ==
  ASSUME NEW b \in Bufs
  PROVE  /\ \A p \in Pools : \A i \in 1..pool[p][b] : <<"pool", p, i>> \in Places(b)
         /\ \A p \in Ports : \A i \in At(b, ring[p]) : <<"ring", p, i>> \in Places(b)
         /\ \A r \in Routes : \A i \in At(b, rx[r]) : <<"rx", r, i>> \in Places(b)
         /\ \A r \in Routes : \A i \in At(b, tx[r]) : <<"tx", r, i>> \in Places(b)
<1>1. ASSUME NEW p \in Pools, NEW i \in 1..pool[p][b]
      PROVE  <<"pool", p, i>> \in Places(b)
  <2>1. <<"pool", p, i>> \in {"pool"} \X {p} \X (1..pool[p][b])
    OBVIOUS
  <2> QED BY <2>1 DEF Places
<1>2. ASSUME NEW p \in Ports, NEW i \in At(b, ring[p])
      PROVE  <<"ring", p, i>> \in Places(b)
  <2>1. <<"ring", p, i>> \in {"ring"} \X {p} \X At(b, ring[p])
    OBVIOUS
  <2> QED BY <2>1 DEF Places
<1>3. ASSUME NEW r \in Routes, NEW i \in At(b, rx[r])
      PROVE  <<"rx", r, i>> \in Places(b)
  <2>1. <<"rx", r, i>> \in {"rx"} \X {r} \X At(b, rx[r])
    OBVIOUS
  <2> QED BY <2>1 DEF Places
<1>4. ASSUME NEW r \in Routes, NEW i \in At(b, tx[r])
      PROVE  <<"tx", r, i>> \in Places(b)
  <2>1. <<"tx", r, i>> \in {"tx"} \X {r} \X At(b, tx[r])
    OBVIOUS
  <2> QED BY <2>1 DEF Places
<1> QED BY <1>1, <1>2, <1>3, <1>4

LEMMA BufInvNeverTwice == BufInv => NeverTwice
<1> SUFFICES ASSUME BufInv, NEW b \in Bufs, NEW x \in Places(b), NEW y \in Places(b)
             PROVE  x = y
  BY DEF NeverTwice
<1>0. OneHolder /\ Once /\ TypeOK
  BY DEF BufInv
<1>1. ASSUME NEW z \in Places(b)
      PROVE  \/ \E p \in InPool(b) : z = <<"pool", p, 1>>
             \/ \E p \in InRing(b) : \E i \in At(b, ring[p]) : z = <<"ring", p, i>>
             \/ \E r \in InRx(b) : \E i \in At(b, rx[r]) : z = <<"rx", r, i>>
             \/ \E r \in InTx(b) : \E i \in At(b, tx[r]) : z = <<"tx", r, i>>
  <2>1. ASSUME NEW p \in Pools, NEW i \in 1..pool[p][b]
        PROVE  p \in InPool(b) /\ i = 1
    BY <1>0 DEF Once, TypeOK, InPool
  <2>2. ASSUME NEW s, At(b, s) # {} PROVE b \in ToSet(s)
    BY <2>2 DEF At, ToSet
  <2>3. /\ \A p \in Ports : At(b, ring[p]) # {} => p \in InRing(b)
        /\ \A r \in Routes : At(b, rx[r]) # {} => r \in InRx(b)
        /\ \A r \in Routes : At(b, tx[r]) # {} => r \in InTx(b)
    BY <2>2 DEF InRing, InRx, InTx
  <2> QED BY <2>1, <2>3, PlaceIs
<1>2. ASSUME NEW s, IsInjective(s), NEW i \in At(b, s), NEW j \in At(b, s)
      PROVE  i = j
  BY <1>2 DEF At, IsInjective
<1>3. /\ \A p \in InRing(b) : IsInjective(ring[p])
      /\ \A r \in InRx(b) : IsInjective(rx[r])
      /\ \A r \in InTx(b) : IsInjective(tx[r])
  BY <1>0 DEF Once, InRing, InRx, InTx
<1>4. CASE InPool(b) # {}
  <2>1. PICK p : InPool(b) = {p} /\ InRing(b) = {} /\ InRx(b) = {} /\ InTx(b) = {}
    BY <1>0, <1>4, Alone
  <2>2. \A z \in Places(b) : z = <<"pool", p, 1>>
    BY <1>1, <2>1
  <2> QED BY <2>2
<1>5. CASE InRing(b) # {}
  <2>1. PICK p : InPool(b) = {} /\ InRing(b) = {p} /\ InRx(b) = {} /\ InTx(b) = {}
    BY <1>0, <1>5, Alone
  <2>2. \A z \in Places(b) : \E i \in At(b, ring[p]) : z = <<"ring", p, i>>
    BY <1>1, <2>1
  <2>3. IsInjective(ring[p])
    BY <1>3, <2>1
  <2>4. \A i, j \in At(b, ring[p]) : i = j
    BY <1>2, <2>3
  <2> QED BY <2>2, <2>4
<1>6. CASE InRx(b) # {}
  <2>1. PICK p : InPool(b) = {} /\ InRing(b) = {} /\ InRx(b) = {p} /\ InTx(b) = {}
    BY <1>0, <1>6, Alone
  <2>2. \A z \in Places(b) : \E i \in At(b, rx[p]) : z = <<"rx", p, i>>
    BY <1>1, <2>1
  <2>3. IsInjective(rx[p])
    BY <1>3, <2>1
  <2>4. \A i, j \in At(b, rx[p]) : i = j
    BY <1>2, <2>3
  <2> QED BY <2>2, <2>4
<1>7. CASE InTx(b) # {}
  <2>1. PICK p : InPool(b) = {} /\ InRing(b) = {} /\ InRx(b) = {} /\ InTx(b) = {p}
    BY <1>0, <1>7, Alone
  <2>2. \A z \in Places(b) : \E i \in At(b, tx[p]) : z = <<"tx", p, i>>
    BY <1>1, <2>1
  <2>3. IsInjective(tx[p])
    BY <1>3, <2>1
  <2>4. \A i, j \in At(b, tx[p]) : i = j
    BY <1>2, <2>3
  <2> QED BY <2>2, <2>4
<1> QED BY <1>1, <1>4, <1>5, <1>6, <1>7

LEMMA BufInvLost == BufInv => LostOnlyAsCopy
<1> SUFFICES ASSUME BufInv, NEW b \in Bufs, Places(b) = {}
             PROVE  copying # {} /\ refcnt[b] = RefMod - 1
  BY DEF LostOnlyAsCopy
<1>1. InPool(b) = {}
  <2>1. \A p \in InPool(b) : 1 \in 1..pool[p][b]
    BY DEF BufInv, TypeOK, InPool
  <2> QED BY <2>1, IsAPlace DEF InPool
<1>2. ASSUME NEW s, b \in ToSet(s) PROVE At(b, s) # {}
  BY <1>2 DEF At, ToSet
<1>3. InRing(b) = {} /\ InRx(b) = {} /\ InTx(b) = {}
  BY <1>2, IsAPlace DEF InRing, InRx, InTx
<1>4. Where(b) = {}
  BY <1>1, <1>3, SpreadIs DEF Where
<1> QED BY <1>4 DEF BufInv, Counts, Count

\* Whatever is patched to whatever, with copies or without, and whichever part of
\* a burst a port takes: no buffer is ever in two places, so none is given back
\* twice by the two ways of freeing that forward() mixes.
THEOREM MbufNeverTwice == Spec => []NeverTwice
BY BufInit, BufStep, BufInvNeverTwice, PTL DEF Spec

\* A buffer leaves pools, rings and bursts only as a copy that copy_mbufs took with
\* a count of 0 and that a NIC or vhost port has freed; without copies never.
THEOREM MbufLostOnlyAsCopy == Spec => []LostOnlyAsCopy
BY BufInit, BufStep, BufInvLost, PTL DEF Spec

(* --- the pool of a buffer --------------------------------------------------------------- *)

LEMMA ReceivedOrigin ==
  ASSUME TypeOK, NEW P \in [Ports -> SUBSET Pools], Origin(P), copying' = copying,
         NEW r \in Routes, NEW s \in Seq(Bufs), Received(r, s),
         \A b \in ToSet(s) : Home[b] \in P[In(r)]
  PROVE  /\ \A x \in Routes : \A b \in ToSet(rx'[x]) : x \in copying /\ Home[b] \in P[In(x)]
         /\ \A x \in Routes : \A b \in ToSet(tx'[x]) :
              Home[b] \in (IF x \in copying THEN {TxPools[Out(x)]} ELSE P[In(x)])
<1>1. CASE r \in copying
  <2>1. (\A x \in Routes : rx'[x] = IF x = r THEN s ELSE rx[x]) /\ tx' = tx
    BY <1>1 DEF Received, TypeOK
  <2> QED BY <1>1, <2>1 DEF Origin
<1>2. CASE r \notin copying
  <2>1. (\A x \in Routes : tx'[x] = IF x = r THEN s ELSE tx[x]) /\ rx' = rx
    BY <1>2 DEF Received, TypeOK
  <2> QED BY <1>2, <2>1 DEF Origin
<1> QED BY <1>1, <1>2

\* Pools stay pure when what is put into a pool is its own.
LEMMA MovedOrigin ==
  ASSUME TypeOK, NEW p \in Pools, NEW S \in SUBSET Free(p),
         NEW T \in [Pools -> SUBSET Bufs], pool' = Moved(p, S, T),
         \A q \in Pools, b \in Bufs : pool[q][b] > 0 => Home[b] = q,
         \A q \in Pools, b \in Bufs : b \in T[q] => Home[b] = q
  PROVE  \A q \in Pools, b \in Bufs : pool'[q][b] > 0 => Home[b] = q
<1> SUFFICES ASSUME NEW q \in Pools, NEW b \in Bufs, pool'[q][b] > 0, b \notin T[q]
             PROVE  pool[q][b] > 0
  OBVIOUS
<1>1. pool'[q][b] = (pool[q][b] - (IF q = p /\ b \in S THEN 1 ELSE 0))
                    + (IF b \in T[q] THEN 1 ELSE 0)
  BY MovedPool
<1>2. pool[q][b] \in Nat
  BY DEF TypeOK
<1> QED BY <1>1, <1>2

LEMMA OriginStep ==
  ASSUME TypeOK, NEW P \in [Ports -> SUBSET Pools], OnePool(P), Origin(P), [Next]_vars
  PROVE  Origin(P)'
<1>0. /\ \A q \in Pools, b \in Bufs : pool[q][b] > 0 => Home[b] = q
      /\ ring \in [Ports -> Seq(Bufs)]
      /\ rx \in [Routes -> Seq(Bufs)] /\ tx \in [Routes -> Seq(Bufs)]
  BY DEF Origin, TypeOK
<1>1. ASSUME NEW r \in Routes, RxAlloc(r) PROVE Origin(P)'
  <2>1. PICK S \in SUBSET Free(RxPool[In(r)]), s \in Seq(Bufs) :
          /\ ToSet(s) = S /\ pool' = Moved(RxPool[In(r)], S, NoPut)
          /\ Received(r, s) /\ Kind[In(r)] # "ring" /\ UNCHANGED <<ring, copying>>
    BY <1>1, RxAllocDoes
  <2>2. In(r) \in Ports /\ RxPool[In(r)] \in Pools /\ NoPut \in [Pools -> SUBSET Bufs]
    BY RouteTyped, PutTyped
  <2>3. \A q \in Pools, b \in Bufs : pool'[q][b] > 0 => Home[b] = q
    <3>1. \A q \in Pools, b \in Bufs : b \in NoPut[q] => Home[b] = q
      BY DEF NoPut
    <3> QED BY <1>0, <2>1, <2>2, <3>1, MovedOrigin
  <2>4. \A b \in ToSet(s) : Home[b] \in P[In(r)]
    <3>1. RxPool[In(r)] \in P[In(r)]
      BY <2>1, <2>2 DEF OnePool, Feeds
    <3>2. \A b \in S : Home[b] = RxPool[In(r)]
      BY <1>0, <2>2 DEF Free
    <3> QED BY <2>1, <3>1, <3>2
  <2>5. /\ \A x \in Routes : \A b \in ToSet(rx'[x]) : x \in copying /\ Home[b] \in P[In(x)]
        /\ \A x \in Routes : \A b \in ToSet(tx'[x]) :
             Home[b] \in (IF x \in copying THEN {TxPools[Out(x)]} ELSE P[In(x)])
    BY <2>1, <2>4, ReceivedOrigin
  <2> QED BY <2>1, <2>3, <2>5 DEF Origin
<1>2. ASSUME NEW r \in Routes, RxRing(r) PROVE Origin(P)'
  <2>1. PICK l, h \in Seq(Bufs) :
          /\ Parts(ring[In(r)], l, h) /\ Received(r, l) /\ ring' = [ring EXCEPT ![In(r)] = h]
          /\ Kind[In(r)] = "ring" /\ UNCHANGED <<pool, copying>>
    BY <1>2, RxRingDoes
  <2>2. In(r) \in Ports /\ ToSet(ring[In(r)]) = ToSet(l) \cup ToSet(h)
    BY <2>1, RouteTyped DEF Parts
  <2>3. \A b \in ToSet(l) \cup ToSet(h) : Home[b] \in P[In(r)]
    BY <2>1, <2>2 DEF Origin
  <2>4. /\ \A x \in Routes : \A b \in ToSet(rx'[x]) : x \in copying /\ Home[b] \in P[In(x)]
        /\ \A x \in Routes : \A b \in ToSet(tx'[x]) :
             Home[b] \in (IF x \in copying THEN {TxPools[Out(x)]} ELSE P[In(x)])
    BY <2>1, <2>3, ReceivedOrigin
  <2>5. \A p \in Ports : ring'[p] = IF p = In(r) THEN h ELSE ring[p]
    BY <1>0, <2>1
  <2>6. \A p \in Ports : Kind[p] = "ring" => \A b \in ToSet(ring'[p]) : Home[b] \in P[p]
    BY <2>3, <2>5 DEF Origin
  <2> QED BY <1>0, <2>1, <2>4, <2>6 DEF Origin
<1>3. ASSUME NEW r \in Routes, Copy(r) \/ CopyFails(r) PROVE Origin(P)'
  <2>1. PICK S \in SUBSET Free(TxPools[Out(r)]), s \in Seq(Bufs) :
          /\ S # {} => ToSet(s) = S /\ tx' = [tx EXCEPT ![r] = s]
          /\ S = {} => tx' = tx
          /\ rx[r] # <<>> /\ rx' = [rx EXCEPT ![r] = <<>>]
          /\ pool' = Moved(TxPools[Out(r)], S, OfFirst(rx[r]))
          /\ UNCHANGED <<ring, copying>>
    BY <1>3, CopyDoes
  <2>2. TxPools[Out(r)] \in Pools /\ OfFirst(rx[r]) \in [Pools -> SUBSET Bufs]
    BY <1>0, RouteTyped, PutTyped
  <2>3. rx[r][1] \in ToSet(rx[r])
    BY <1>0, <2>1, NotEmpty
  <2>4. r \in copying /\ \A b \in ToSet(rx[r]) : Home[b] \in P[In(r)]
    BY <2>3 DEF Origin
  <2>5. \A b \in ToSet(rx[r]) : Home[b] = Home[rx[r][1]]
    BY <2>3, <2>4 DEF OnePool
  <2>6. \A q \in Pools, b \in Bufs : pool'[q][b] > 0 => Home[b] = q
    <3>1. \A q \in Pools, b \in Bufs : b \in OfFirst(rx[r])[q] => Home[b] = q
      BY <2>5 DEF OfFirst
    <3> QED BY <1>0, <2>1, <2>2, <3>1, MovedOrigin
  <2>7. \A x \in Routes : \A b \in ToSet(rx'[x]) : x \in copying /\ Home[b] \in P[In(x)]
    <3>1. \A x \in Routes : rx'[x] = IF x = r THEN <<>> ELSE rx[x]
      BY <1>0, <2>1
    <3> QED BY <3>1, NothingInIt DEF Origin
  <2>8. \A x \in Routes : \A b \in ToSet(tx'[x]) :
          Home[b] \in (IF x \in copying THEN {TxPools[Out(x)]} ELSE P[In(x)])
    <3>1. CASE S = {}
      BY <2>1, <3>1 DEF Origin
    <3>2. CASE S # {}
      <4>1. \A x \in Routes : tx'[x] = IF x = r THEN s ELSE tx[x]
        BY <1>0, <2>1, <3>2
      <4>2. \A b \in ToSet(s) : Home[b] = TxPools[Out(r)]
        BY <1>0, <2>1, <2>2, <3>2 DEF Free
      <4> QED BY <2>4, <4>1, <4>2 DEF Origin
    <3> QED BY <3>1, <3>2
  <2> QED BY <2>1, <2>6, <2>7, <2>8 DEF Origin
<1>4. ASSUME NEW r \in Routes, TxFree(r) PROVE Origin(P)'
  <2>1. PICK l, h \in Seq(Bufs) :
          /\ Parts(tx[r], l, h) /\ tx' = [tx EXCEPT ![r] = <<>>]
          /\ pool' = Moved(Home[tx[r][1]], {},
                        Own({b \in ToSet(l) : CountDown(refcnt[b]) = 0} \cup ToSet(h)))
          /\ tx[r] # <<>> /\ UNCHANGED <<ring, rx, copying>>
    BY <1>4, TxFreeDoes
  <2> DEFINE B == {b \in ToSet(l) : CountDown(refcnt[b]) = 0} \cup ToSet(h)
  <2>2. B \in SUBSET Bufs /\ pool' = Moved(Home[tx[r][1]], {}, Own(B))
    BY <2>1, ToSetTyped
  <2> HIDE DEF B
  <2>3. \A q \in Pools, b \in Bufs : pool'[q][b] > 0 => Home[b] = q
    <3>1. Home[tx[r][1]] \in Pools /\ Own(B) \in [Pools -> SUBSET Bufs]
      BY <1>0, <2>1, <2>2, NotEmpty, PutTyped, MbufAssumption
    <3>2. \A q \in Pools, b \in Bufs : b \in Own(B)[q] => Home[b] = q
      BY DEF Own
    <3> QED BY <1>0, <2>2, <3>1, <3>2, MovedOrigin
  <2>4. \A x \in Routes : tx'[x] = IF x = r THEN <<>> ELSE tx[x]
    BY <1>0, <2>1
  <2> QED BY <2>1, <2>3, <2>4, NothingInIt DEF Origin
<1>5. ASSUME NEW r \in Routes, TxRing(r) PROVE Origin(P)'
  <2>1. PICK l, h \in Seq(Bufs) :
          /\ Parts(tx[r], l, h) /\ tx' = [tx EXCEPT ![r] = <<>>]
          /\ ring' = [ring EXCEPT ![Out(r)] = ring[Out(r)] \o l]
          /\ pool' = Moved(Home[tx[r][1]], {}, Own(ToSet(h)))
          /\ tx[r] # <<>> /\ Kind[Out(r)] = "ring" /\ UNCHANGED <<rx, copying>>
    BY <1>5, TxRingDoes
  <2>2. \A q \in Pools, b \in Bufs : pool'[q][b] > 0 => Home[b] = q
    <3>1. Home[tx[r][1]] \in Pools /\ Own(ToSet(h)) \in [Pools -> SUBSET Bufs]
      BY <1>0, <2>1, NotEmpty, ToSetTyped, PutTyped, MbufAssumption
    <3>2. \A q \in Pools, b \in Bufs : b \in Own(ToSet(h))[q] => Home[b] = q
      BY DEF Own
    <3> QED BY <1>0, <2>1, <3>1, <3>2, MovedOrigin
  <2>3. \A x \in Routes : tx'[x] = IF x = r THEN <<>> ELSE tx[x]
    BY <1>0, <2>1
  <2>4. /\ Out(r) \in Ports /\ ring[Out(r)] \in Seq(Bufs)
        /\ ToSet(ring[Out(r)] \o l) = ToSet(ring[Out(r)]) \cup ToSet(l)
    BY <1>0, RouteTyped, Join
  <2>5. \A b \in ToSet(l) : Home[b] \in P[Out(r)]
    <3>1. \A b \in ToSet(l) :
            Home[b] \in (IF r \in copying THEN {TxPools[Out(r)]} ELSE P[In(r)])
      BY <2>1 DEF Parts, Origin
    <3>2. (IF r \in copying THEN {TxPools[Out(r)]} ELSE P[In(r)]) \subseteq P[Out(r)]
      BY <2>1 DEF OnePool, Feeds
    <3> QED BY <3>1, <3>2
  <2>6. \A p \in Ports : ring'[p] = IF p = Out(r) THEN ring[Out(r)] \o l ELSE ring[p]
    BY <1>0, <2>1
  <2>7. \A p \in Ports : Kind[p] = "ring" => \A b \in ToSet(ring'[p]) : Home[b] \in P[p]
    BY <2>4, <2>5, <2>6 DEF Origin
  <2> QED BY <2>1, <2>2, <2>3, <2>7, NothingInIt DEF Origin
<1>6. CASE UNCHANGED vars
  BY <1>6 DEF vars, Origin
<1> QED BY <1>1, <1>2, <1>3, <1>4, <1>5, <1>6 DEF Next, Forward, Tx

LEMMA OriginInit == Init => OriginInv
<1> SUFFICES ASSUME Init, NEW P \in [Ports -> SUBSET Pools]
             PROVE  Origin(P)
  BY DEF OriginInv
<1>1. \A p \in Pools, b \in Bufs : pool[p][b] > 0 => Home[b] = p
  BY DEF Init
<1> QED BY <1>1, NothingInIt DEF Init, Origin

LEMMA OriginKept == TypeOK /\ OriginInv /\ [Next]_vars => OriginInv'
<1> SUFFICES ASSUME TypeOK, OriginInv, [Next]_vars, NEW P \in [Ports -> SUBSET Pools],
                    OnePool(P)'
             PROVE  Origin(P)'
  BY DEF OriginInv
<1>1. copying' = copying
  BY DEF Next, Forward, RxAlloc, RxRing, Copy, CopyFails, Tx, TxFree, TxRing, vars
<1>2. OnePool(P)
  BY <1>1 DEF OnePool
<1>3. Origin(P)
  BY <1>2 DEF OriginInv
<1> QED BY <1>2, <1>3, OriginStep

LEMMA OriginInvOwn == TypeOK /\ OriginInv => InOwnPool
<1> SUFFICES ASSUME OriginInv, copying \in OnePoolModes
             PROVE  \A p \in Pools, b \in Bufs : pool[p][b] > 0 => Home[b] = p
  BY DEF InOwnPool
<1>1. PICK P \in [Ports -> SUBSET Pools] : OnePool(P)
  BY DEF OnePoolModes, OnePool
<1>2. Origin(P)
  BY <1>1 DEF OriginInv
<1> QED BY <1>2 DEF Origin

\* Where each burst that copy_mbufs copies is of one pool, every mempool holds only
\* its own buffers, although the burst is put into the pool of its first buffer.
THEOREM MbufInOwnPool == Spec => []InOwnPool
<1>1. Init => TypeOK /\ OriginInv
  BY MbufTypeInit, OriginInit
<1>2. (TypeOK /\ OriginInv) /\ [Next]_vars => (TypeOK /\ OriginInv)'
  BY MbufTypeStep, OriginKept
<1> QED BY <1>1, <1>2, OriginInvOwn, PTL DEF Spec
=============================================================================
