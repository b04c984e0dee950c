--------------------------- MODULE RteRingProofs ---------------------------
(***************************************************************************)
(* For every ring size, index width that is a multiple of it, burst length *)
(* and kind of call: the ring's counts stay in range although its indexes  *)
(* wrap, and the ring implements the bounded FIFO.                         *)
(***************************************************************************)
EXTENDS RteRing, SequenceTheorems, TLAPS

(* --- arithmetic modulo M and modulo Size ---------------------------------- *)

\* A remainder is determined by any quotient that leaves it in range.
LEMMA ModUnique ==
  ASSUME NEW d \in Nat \ {0}, NEW q \in Int, NEW r \in 0..(d - 1)
  PROVE  (q * d + r) % d = r
OBVIOUS

LEMMA DivMod ==
  ASSUME NEW d \in Nat \ {0}, NEW a \in Int
  PROVE  /\ a \div d \in Int /\ a % d \in 0..(d - 1)
         /\ a = (a \div d) * d + (a % d)
OBVIOUS

LEMMA ModCases ==
  ASSUME NEW d \in Nat \ {0}, NEW a \in (-d)..(2 * d - 1)
  PROVE  a % d = IF a < 0 THEN a + d ELSE IF a < d THEN a ELSE a - d
OBVIOUS

LEMMA Distribute ==
  ASSUME NEW c \in Int, NEW k \in Int, NEW d \in Int
  PROVE  c * d - k * d = (c - k) * d
OBVIOUS

LEMMA Widths == Size \in Nat \ {0} /\ M \in Nat /\ 2 * Size <= M
<1>1. PICK k \in 2..M : M = k * Size
  BY RingAssumption
<1>2. k * Size >= 2 * Size
  BY RingAssumption
<1> QED BY <1>1, <1>2, RingAssumption

\* An index moved forward by less than the index range.
LEMMA Advance ==
  ASSUME NEW a \in Index, NEW n \in 0..Size
  PROVE  /\ (a + n) % M = IF a + n < M THEN a + n ELSE a + n - M
         /\ (a + n) % M \in Index
<1> DEFINE x == a + n
<1>1. M \in Nat \ {0} /\ x \in (-M)..(2 * M - 1) /\ ~(x < 0)
  BY Widths DEF Index
<1> HIDE DEF x
<1>2. x % M = IF x < 0 THEN x + M ELSE IF x < M THEN x ELSE x - M
  BY <1>1, ModCases
<1>3. x % M = (IF x < M THEN x ELSE x - M) /\ x % M \in Index
  BY <1>1, <1>2 DEF Index
<1> QED BY <1>1, <1>3, Widths DEF x, Index

LEMMA EntriesCases ==
  ASSUME NEW a \in Index, NEW b \in Index
  PROVE  /\ Entries(a, b) = IF a <= b THEN b - a ELSE b - a + M
         /\ Entries(a, b) \in Index
<1> DEFINE x == b - a
<1>1. M \in Nat \ {0} /\ x \in (-M)..(2 * M - 1) /\ x < M /\ -M < x
      /\ (a <= b <=> ~(x < 0))
  BY Widths DEF Index
<1> HIDE DEF x
<1>2. x % M = IF x < 0 THEN x + M ELSE IF x < M THEN x ELSE x - M
  BY <1>1, ModCases
<1>3. x % M = (IF a <= b THEN x ELSE x + M) /\ x % M \in Index
  BY <1>1, <1>2 DEF Index
<1> QED BY <1>3 DEF x, Entries

\* Seen from the producer's head, what is not used is free.
LEMMA FreeCount ==
  ASSUME NEW h \in Index, NEW t \in Index, Entries(t, h) <= mask
  PROVE  FreeEntries(h, t) = mask - Entries(t, h)
<1> DEFINE x == mask + t - h
<1>1. M \in Nat \ {0} /\ x \in (-M)..(2 * M - 1)
  BY Widths DEF Index, mask
<1> HIDE DEF x
<1>2. x % M = IF x < 0 THEN x + M ELSE IF x < M THEN x ELSE x - M
  BY <1>1, ModCases
<1> DEFINE e == Entries(t, h)
<1>3. e = (IF t <= h THEN h - t ELSE h - t + M) /\ e <= mask
  BY EntriesCases
<1> HIDE DEF e
<1>4. x % M = mask - e
  BY <1>2, <1>3, Widths DEF x, Index, mask
<1> QED BY <1>4 DEF x, e, FreeEntries

\* Moving the far end adds to the entries, moving the near end takes away.
LEMMA EntriesGrow ==
  ASSUME NEW a \in Index, NEW b \in Index, NEW n \in 0..Size,
         Entries(a, b) + n <= mask
  PROVE  Entries(a, (b + n) % M) = Entries(a, b) + n
<1> DEFINE x == (b + n) % M
           e == Entries(a, b)
<1>1. x \in Index /\ x = IF b + n < M THEN b + n ELSE b + n - M
  BY Advance
<1>2. e = (IF a <= b THEN b - a ELSE b - a + M) /\ e + n <= mask
  BY EntriesCases
<1> HIDE DEF x, e
<1>3. Entries(a, x) = IF a <= x THEN x - a ELSE x - a + M
  BY <1>1, EntriesCases
<1>4. Entries(a, x) = e + n
  BY <1>1, <1>2, <1>3, Widths DEF Index, mask
<1> QED BY <1>4 DEF x, e

LEMMA EntriesShrink ==
  ASSUME NEW a \in Index, NEW b \in Index, NEW n \in 0..Size,
         n <= Entries(a, b)
  PROVE  Entries((a + n) % M, b) = Entries(a, b) - n
<1> DEFINE x == (a + n) % M
           e == Entries(a, b)
<1>1. x \in Index /\ x = IF a + n < M THEN a + n ELSE a + n - M
  BY Advance
<1>2. e = (IF a <= b THEN b - a ELSE b - a + M) /\ n <= e
  BY EntriesCases
<1> HIDE DEF x, e
<1>3. Entries(x, b) = IF x <= b THEN b - x ELSE b - x + M
  BY <1>1, EntriesCases
<1>4. Entries(x, b) = e - n
  BY <1>1, <1>2, <1>3, Widths DEF Index
<1> QED BY <1>4 DEF x, e

\* The far end is the near end moved forward by the entries between them.
LEMMA EndIsOffset ==
  ASSUME NEW a \in Index, NEW b \in Index, Entries(a, b) <= mask
  PROVE  b = (a + Entries(a, b)) % M
<1> DEFINE e == Entries(a, b)
<1>1. e \in Index /\ e <= mask /\ e = IF a <= b THEN b - a ELSE b - a + M
  BY EntriesCases
<1> HIDE DEF e
<1>2. e \in 0..Size
  BY <1>1, Widths DEF Index, mask
<1> DEFINE x == (a + e) % M
<1>3. x = IF a + e < M THEN a + e ELSE a + e - M
  BY <1>2, Advance
<1> HIDE DEF x
<1>4. b = x
  BY <1>1, <1>3, Widths DEF Index
<1> QED BY <1>4 DEF x, e

LEMMA SlotInRange ==
  ASSUME NEW a \in Index, NEW i \in Slots
  PROVE  SlotOf(a, i) \in Slots
<1>1. a % Size \in 0..(Size - 1)
  BY DivMod, Widths DEF Index
<1> QED BY <1>1, Widths DEF SlotOf, Slots

LEMMA SlotInjective ==
  ASSUME NEW a \in Index, NEW i \in Slots, NEW j \in Slots, i # j
  PROVE  SlotOf(a, i) # SlotOf(a, j)
<1>1. a % Size \in 0..(Size - 1)
  BY DivMod, Widths DEF Index
<1> QED BY <1>1, Widths DEF SlotOf, Slots

\* The low bits of an index go round the ring although the index itself wraps,
\* because the index range is a multiple of the ring.
LEMMA LowBits ==
  ASSUME NEW a \in Index, NEW n \in Slots
  PROVE  ((a + n) % M) % Size =
           IF (a % Size) + n < Size THEN (a % Size) + n ELSE (a % Size) + n - Size
<1> DEFINE q == a \div Size
           r == a % Size
           s == IF r + n < Size THEN r + n ELSE r + n - Size
           c == IF r + n < Size THEN q ELSE q + 1
<1>1. Size \in Nat \ {0} /\ a \in Int /\ n \in Int /\ M \in Int
  BY Widths DEF Index, Slots
<1>2. q \in Int /\ r \in 0..(Size - 1) /\ a = q * Size + r
  BY <1>1, DivMod
<1>3. s \in 0..(Size - 1) /\ c \in Int
  BY <1>1, <1>2 DEF Slots
<1> HIDE DEF q, r
<1>4. a + n = c * Size + s
  <2>1. CASE r + n < Size
    BY <2>1, <1>1, <1>2
  <2>2. CASE ~(r + n < Size)
    <3>1. (q + 1) * Size = q * Size + Size
      BY <1>1, <1>2
    <3> QED BY <2>2, <3>1, <1>1, <1>2
  <2> QED BY <2>1, <2>2
<1>5. PICK k \in 2..M : M = k * Size
  BY RingAssumption
<1> HIDE DEF s, c
<1> DEFINE x == (a + n) % M
<1>6. x = IF a + n < M THEN a + n ELSE a + n - M
  BY Advance, Widths DEF Slots
<1> HIDE DEF x
<1>7. (c * Size + s) % Size = s
  BY <1>1, <1>3, ModUnique
<1>8. c - k \in Int /\ ((c - k) * Size + s) % Size = s
  BY <1>1, <1>3, <1>5, ModUnique
<1>9. c * Size - k * Size = (c - k) * Size
  BY <1>1, <1>3, <1>5, Distribute
<1>10. c * Size \in Int /\ k * Size \in Int
  BY <1>1, <1>3, <1>5
<1>11. x = c * Size + s \/ x = (c - k) * Size + s
  <2> DEFINE cs == c * Size
             ks == k * Size
  <2>1. cs \in Int /\ ks \in Int /\ a + n = cs + s /\ M = ks
        /\ (c - k) * Size = cs - ks
    BY <1>4, <1>5, <1>9, <1>10
  <2> HIDE DEF cs, ks
  <2>2. x = cs + s \/ x = (cs - ks) + s
    BY <2>1, <1>1, <1>3, <1>6
  <2> QED BY <2>1, <2>2 DEF cs
<1>12. x % Size = s
  BY <1>7, <1>8, <1>11
<1> QED BY <1>12 DEF x, s, r

\* The i-th slot from an index moved forward by n is slot n + i from the index.
LEMMA SlotShift ==
  ASSUME NEW a \in Index, NEW n \in Slots, NEW i \in Slots, n + i \in Slots
  PROVE  SlotOf((a + n) % M, i) = SlotOf(a, n + i)
<1>1. a % Size \in 0..(Size - 1)
  BY DivMod, Widths DEF Index
<1> DEFINE x == (a + n) % M
           r == a % Size
<1>2. x % Size = IF r + n < Size THEN r + n ELSE r + n - Size
  BY LowBits
<1> HIDE DEF x
<1> DEFINE y == x % Size
<1> HIDE DEF y, r
<1>3. (IF y + i < Size THEN y + i ELSE y + i - Size)
        = (IF r + (n + i) < Size THEN r + (n + i) ELSE r + (n + i) - Size)
  BY <1>1, <1>2, Widths DEF Slots, y, r
<1> QED BY <1>3 DEF SlotOf, x, y, r

(* --- the type invariant and RingInv ---------------------------------------- *)

\* A burst table is a sequence of objects no longer than a burst.
LEMMA TableSeq ==
  ASSUME NEW t
  PROVE  /\ t \in BurstTables <=> t \in Seq(Objs) /\ Len(t) \in 1..Burst
         /\ t \in Tables <=> t \in Seq(Objs) /\ Len(t) \in 0..Burst
<1>1. Burst \in Nat
  BY RingAssumption
<1>2. t \in BurstTables => t \in Seq(Objs) /\ Len(t) \in 1..Burst
  <2> SUFFICES ASSUME t \in BurstTables PROVE t \in Seq(Objs) /\ Len(t) \in 1..Burst
    OBVIOUS
  <2>1. PICK k \in 1..Burst : t \in [1..k -> Objs]
    BY DEF BurstTables
  <2>2. k \in Nat
    BY <1>1
  <2>3. t \in Seq(Objs)
    BY <2>1, <2>2
  <2>4. Len(t) \in Nat /\ 1..k = 1..Len(t)
    BY <2>1, <2>3, LenProperties
  <2>5. Len(t) = k
    BY <2>2, <2>4
  <2> QED BY <2>3, <2>5
<1>3. t \in Seq(Objs) /\ Len(t) \in 1..Burst => t \in BurstTables
  <2>1. SUFFICES ASSUME t \in Seq(Objs), Len(t) \in 1..Burst
                 PROVE  \E k \in 1..Burst : t \in [1..k -> Objs]
    BY DEF BurstTables
  <2>2. t \in [1..Len(t) -> Objs]
    BY <2>1
  <2> QED BY <2>1, <2>2
<1>4. t \in Seq(Objs) /\ Len(t) = 0 <=> t = <<>>
  BY EmptySeq
<1> QED BY <1>1, <1>2, <1>3, <1>4 DEF Tables

\* What the two invariants say of the counts, in the form the steps use.
LEMMA Counts ==
  ASSUME TypeOK, Used <= mask
  PROVE  /\ Used \in 0..mask /\ mask \in Nat
         /\ Entries(cons_tail, prod_tail) = Used
         /\ FreeEntries(prod_tail, cons_tail) = mask - Used
<1>1. cons_tail \in Index /\ prod_tail \in Index
  BY DEF TypeOK
<1>2. Used \in Index
  BY <1>1, EntriesCases DEF Used
<1>3. FreeEntries(prod_tail, cons_tail) = mask - Used
  BY <1>1, FreeCount DEF Used
<1> QED BY <1>2, <1>3, Widths DEF Used, Index, mask

\* Slot i of the producer's claim is slot Used + i of the consumer's.
LEMMA ClaimOffset ==
  ASSUME TypeOK, Used <= mask, NEW i \in Nat, Used + i <= mask
  PROVE  /\ i \in Slots /\ Used + i \in Slots
         /\ SlotOf(prod_tail, i) = SlotOf(cons_tail, Used + i)
<1>1. cons_tail \in Index /\ prod_tail \in Index
  BY DEF TypeOK
<1>2. Used \in Slots /\ i \in Slots /\ Used + i \in Slots
  BY Counts, Widths DEF Slots, mask
<1>3. prod_tail = (cons_tail + Used) % M
  BY <1>1, EndIsOffset DEF Used
<1> HIDE DEF Used
<1>4. SlotOf((cons_tail + Used) % M, i) = SlotOf(cons_tail, Used + i)
  BY <1>1, <1>2, SlotShift
<1> QED BY <1>2, <1>3, <1>4

LEMMA InitInv == Init => TypeOK /\ RingInv
<1> SUFFICES ASSUME Init PROVE TypeOK /\ RingInv
  OBVIOUS
<1>1. 0 \in Index /\ M \in Nat \ {0} /\ Burst \in Nat /\ mask \in Nat
  BY Widths, RingAssumption DEF Index, mask
<1>2. <<>> \in Tables
  BY DEF Tables
<1>3. TypeOK
  BY <1>1, <1>2 DEF Init, TypeOK, Call
<1>4. Used = 0
  BY <1>1, EntriesCases DEF Init, Used
<1>5. RingInv
  BY <1>1, <1>4 DEF Init, RingInv, ProducerInv, ConsumerInv
<1> QED BY <1>3, <1>5

(* The steps of the producer. *)

LEMMA EnqLoadInv ==
  ASSUME TypeOK, RingInv, NEW tab \in BurstTables, EnqLoad(tab)
  PROVE  TypeOK' /\ RingInv'
<1> DEFINE free == FreeEntries(prod_head, cons_tail)
           n == Len(tab)
<1>1. tab \in Seq(Objs) /\ n \in 1..Burst /\ tab \in Tables /\ Burst \in Nat
  BY TableSeq, RingAssumption DEF Tables
<1>2. <<>> \in Tables
  BY DEF Tables
<1>3. Used' = Used /\ Used <= mask /\ mask' = mask
  BY DEF EnqLoad, indexVars, Used, RingInv, mask, Entries
<1>4. Used \in 0..mask /\ mask \in Nat /\ free = mask - Used
  BY Counts DEF RingInv, ProducerInv, EnqLoad
<1>5. CASE n > free /\ (Fixed \/ free = 0)
  <2>1. UNCHANGED <<indexVars, ring, consVars, prodVars>> /\ last' = Call("enqueue", n, <<>>)
    BY <1>5 DEF EnqLoad
  <2>2. TypeOK'
    BY <2>1, <1>1, <1>2 DEF TypeOK, indexVars, consVars, prodVars, Call
  <2>3. RingInv'
    BY <2>1, <1>3 DEF RingInv, ProducerInv, ConsumerInv, indexVars, consVars, prodVars
  <2> QED BY <2>2, <2>3
<1>6. CASE ~(n > free /\ (Fixed \/ free = 0))
  <2>1. /\ UNCHANGED <<indexVars, ring, consVars, p_i, last>>
        /\ p_n' = (IF n > free THEN free ELSE n)
        /\ p_head' = prod_head /\ p_tab' = tab /\ p_asked' = n /\ ppc' = "head"
    BY <1>6 DEF EnqLoad
  <2>2. ppc = "idle" /\ prod_head = prod_tail
    BY DEF EnqLoad, RingInv, ProducerInv
  <2>3. p_n' \in 1..n /\ p_n' + Used <= mask /\ (Fixed => p_n' = n)
    BY <2>1, <1>1, <1>4, <1>6, RingAssumption
  <2>4. p_i = 0
    BY <2>2 DEF RingInv, ProducerInv
  <2>5. TypeOK'
    BY <2>1, <2>3, <2>4, <1>1 DEF TypeOK, indexVars, consVars
  <2>6. ProducerInv'
    BY <2>1, <2>2, <2>3, <1>3 DEF ProducerInv, indexVars
  <2>7. ConsumerInv'
    BY <2>1, <1>3 DEF RingInv, ConsumerInv, indexVars, consVars
  <2> QED BY <2>5, <2>6, <2>7, <1>3 DEF RingInv
<1> QED BY <1>5, <1>6

LEMMA EnqHeadInv ==
  ASSUME TypeOK, RingInv, EnqHead
  PROVE  TypeOK' /\ RingInv'
<1>1. Used' = Used /\ Used <= mask /\ mask' = mask
  BY DEF EnqHead, Used, RingInv, mask, Entries
<1>2. p_n \in 0..Size /\ p_head \in Index /\ p_n \in 1..p_asked
  BY Counts, Widths DEF EnqHead, RingInv, ProducerInv, TypeOK, mask
<1>3. prod_head' \in Index /\ prod_head' = (p_head + p_n) % M
  BY <1>2, Advance DEF EnqHead
<1>4. TypeOK'
  BY <1>2, <1>3 DEF EnqHead, TypeOK, consVars
<1>5. ProducerInv'
  BY <1>1, <1>3 DEF EnqHead, RingInv, ProducerInv
<1>6. ConsumerInv'
  BY <1>1 DEF EnqHead, RingInv, ConsumerInv, consVars
<1> QED BY <1>1, <1>4, <1>5, <1>6 DEF RingInv


LEMMA EnqCopyInv ==
  ASSUME TypeOK, RingInv, EnqCopy
  PROVE  TypeOK' /\ RingInv'
<1> DEFINE w == SlotOf(p_head, p_i)
<1>1. Used' = Used /\ Used <= mask /\ mask' = mask
  BY DEF EnqCopy, indexVars, Used, RingInv, mask, Entries
<1>2. /\ p_head = prod_tail /\ p_n \in Nat /\ p_i \in Nat /\ p_i < p_n
      /\ p_n + Used <= mask /\ Len(p_tab) = p_asked /\ p_n <= p_asked
      /\ p_head \in Index /\ cons_tail \in Index
      /\ Used \in Nat /\ mask \in Nat /\ p_tab \in Seq(Objs)
  BY Counts, RingAssumption, TableSeq DEF EnqCopy, RingInv, ProducerInv, TypeOK
<1> HIDE DEF Used
<1>3. Used + p_i <= mask /\ p_i + 1 \in 1..Len(p_tab)
  BY <1>2
<1>4. p_i \in Slots /\ Used + p_i \in Slots /\ w = SlotOf(cons_tail, Used + p_i)
  BY <1>1, <1>2, <1>3, ClaimOffset
<1>5. w \in Slots /\ p_tab[p_i + 1] \in Objs
  BY <1>2, <1>3, <1>4, SlotInRange
<1> HIDE DEF w
<1>6. ring' = [ring EXCEPT ![w] = p_tab[p_i + 1]]
  BY DEF EnqCopy, w
<1>7. TypeOK'
  <2>1. ring' \in [Slots -> Objs]
    BY <1>5, <1>6 DEF TypeOK
  <2>2. p_i' \in 0..p_n'
    BY <1>2 DEF EnqCopy
  <2> QED BY <2>1, <2>2 DEF EnqCopy, TypeOK, indexVars, consVars
<1>8. ProducerInv'
  <2>1. \A j \in 0..p_i : ring'[SlotOf(p_head, j)] = p_tab[j + 1]
    <3>1. TAKE j \in 0..p_i
    <3>2. CASE j = p_i
      BY <3>2, <1>5, <1>6 DEF w, TypeOK
    <3>3. CASE j # p_i
      <4>1. j \in Slots /\ j \in 0..(p_i - 1)
        BY <3>3, <1>2, <1>4, Widths DEF Slots
      <4>2. SlotOf(p_head, j) # w /\ SlotOf(p_head, j) \in Slots
        BY <4>1, <3>3, <1>2, <1>4, SlotInjective, SlotInRange DEF w
      <4>3. ring[SlotOf(p_head, j)] = p_tab[j + 1]
        BY <4>1 DEF RingInv, ProducerInv, EnqCopy
      <4> QED BY <4>2, <4>3, <1>6 DEF TypeOK
    <3> QED BY <3>2, <3>3
  <2>2. p_i' - 1 = p_i /\ p_i' = p_i + 1
    BY <1>2 DEF EnqCopy
  <2>3. UNCHANGED <<ppc, p_head, p_n, p_tab, p_asked, prod_head, prod_tail>> /\ ppc = "copy"
    BY DEF EnqCopy, indexVars
  <2> QED BY <1>1, <2>1, <2>2, <2>3 DEF RingInv, ProducerInv
<1>9. ConsumerInv'
  <2>1. ASSUME cpc = "copy", NEW j \in 1..c_i
        PROVE  c_tab[j] = ring'[SlotOf(c_head, j - 1)]
    <3>1. c_head = cons_tail /\ c_i <= Used /\ c_i \in Nat
      BY <2>1, <1>2 DEF RingInv, ConsumerInv, TypeOK
    <3>2. j - 1 \in Slots /\ j - 1 # Used + p_i
      BY <3>1, <1>2, <1>4, Widths DEF Slots
    <3>3. SlotOf(c_head, j - 1) # w /\ SlotOf(c_head, j - 1) \in Slots
      BY <3>1, <3>2, <1>2, <1>4, SlotInjective, SlotInRange
    <3>4. c_tab[j] = ring[SlotOf(c_head, j - 1)]
      BY <2>1 DEF RingInv, ConsumerInv
    <3> QED BY <3>3, <3>4, <1>6 DEF TypeOK
  <2>2. UNCHANGED <<cons_head, cons_tail, cpc, c_head, c_n, c_i, c_tab, c_asked>>
    BY DEF EnqCopy, indexVars, consVars
  <2> QED BY <1>1, <2>1, <2>2 DEF RingInv, ConsumerInv
<1> QED BY <1>1, <1>7, <1>8, <1>9 DEF RingInv

LEMMA EnqTailInv ==
  ASSUME TypeOK, RingInv, EnqTail
  PROVE  TypeOK' /\ RingInv' /\ Used' = Used + p_n
<1>1. /\ p_head = prod_tail /\ p_n \in 1..p_asked /\ p_n + Used <= mask
      /\ prod_head = (p_head + p_n) % M /\ Len(p_tab) = p_asked
      /\ prod_tail \in Index /\ cons_tail \in Index
      /\ p_asked \in 0..Burst /\ p_tab \in Seq(Objs)
      /\ p_i = p_n /\ Burst \in Nat
  BY RingAssumption, TableSeq DEF EnqTail, RingInv, ProducerInv, TypeOK
<1>2. Used \in 0..mask /\ mask \in Nat /\ mask' = mask
  BY Counts DEF RingInv, mask
<1>3. p_n \in 0..Size
  BY <1>1, <1>2, Widths DEF mask
<1>4. prod_tail' \in Index /\ prod_tail' = (prod_tail + p_n) % M
  BY <1>1, <1>3, Advance DEF EnqTail
<1>5. Used' = Used + p_n
  <2>1. Entries(cons_tail, prod_tail) + p_n <= mask
    BY <1>1, <1>2 DEF Used
  <2>2. Entries(cons_tail, (prod_tail + p_n) % M) = Entries(cons_tail, prod_tail) + p_n
    BY <2>1, <1>1, <1>3, EntriesGrow
  <2>3. Used' = Entries(cons_tail, (prod_tail + p_n) % M)
    BY <1>4 DEF EnqTail, Used, Entries
  <2> QED BY <2>2, <2>3 DEF Used
<1> HIDE DEF Used
<1>6. SubSeq(p_tab, 1, p_n) \in Tables /\ <<>> \in Tables
  <2>1. \A i \in 1..p_n : p_tab[i] \in Objs
    BY <1>1
  <2>2. SubSeq(p_tab, 1, p_n) \in Seq(Objs) /\ Len(SubSeq(p_tab, 1, p_n)) = p_n
    BY <2>1, <1>1, SubSeqProperties
  <2>3. Len(SubSeq(p_tab, 1, p_n)) \in 0..Burst
    BY <2>2, <1>1
  <2>4. SubSeq(p_tab, 1, p_n) \in Tables
    BY <2>2, <2>3, TableSeq
  <2> QED BY <2>4 DEF Tables
<1>7. TypeOK'
  BY <1>1, <1>4, <1>6, Widths DEF EnqTail, TypeOK, consVars, Call, Index
<1>8. ProducerInv'
  BY <1>1, <1>4 DEF EnqTail, ProducerInv
<1>9. ConsumerInv'
  BY <1>1, <1>2, <1>5 DEF EnqTail, RingInv, ConsumerInv, consVars, TypeOK
<1> QED BY <1>1, <1>2, <1>5, <1>7, <1>8, <1>9 DEF RingInv

(* The steps of the consumer. *)

LEMMA DeqLoadInv ==
  ASSUME TypeOK, RingInv, NEW n \in 1..Burst, DeqLoad(n)
  PROVE  TypeOK' /\ RingInv'
<1> DEFINE entries == Entries(cons_head, prod_tail)
<1>1. <<>> \in Tables /\ Burst \in Nat
  BY RingAssumption DEF Tables
<1>2. Used' = Used /\ Used <= mask /\ mask' = mask
  BY DEF DeqLoad, indexVars, Used, RingInv, mask, Entries
<1>3. Used \in 0..mask /\ mask \in Nat /\ entries = Used
  BY Counts DEF RingInv, ConsumerInv, DeqLoad
<1>4. CASE n > entries /\ (Fixed \/ entries = 0)
  <2>1. UNCHANGED <<indexVars, ring, consVars, prodVars>> /\ last' = Call("dequeue", n, <<>>)
    BY <1>4 DEF DeqLoad
  <2>2. TypeOK'
    BY <2>1, <1>1 DEF TypeOK, indexVars, consVars, prodVars, Call
  <2>3. RingInv'
    BY <2>1, <1>2 DEF RingInv, ProducerInv, ConsumerInv, indexVars, consVars, prodVars
  <2> QED BY <2>2, <2>3
<1>5. CASE ~(n > entries /\ (Fixed \/ entries = 0))
  <2>1. /\ UNCHANGED <<indexVars, ring, prodVars, c_i, c_tab, last>>
        /\ c_n' = (IF n > entries THEN entries ELSE n)
        /\ c_head' = cons_head /\ c_asked' = n /\ cpc' = "head"
    BY <1>5 DEF DeqLoad
  <2>2. cpc = "idle" /\ cons_head = cons_tail /\ c_i = 0
    BY DEF DeqLoad, RingInv, ConsumerInv
  <2>3. c_n' \in 1..n /\ c_n' <= Used /\ (Fixed => c_n' = n)
    BY <2>1, <1>1, <1>3, <1>5, RingAssumption
  <2>4. TypeOK'
    BY <2>1, <2>2, <2>3, <1>1 DEF TypeOK, indexVars, prodVars
  <2>5. ConsumerInv'
    BY <2>1, <2>2, <2>3, <1>2 DEF ConsumerInv, indexVars
  <2>6. ProducerInv'
    BY <2>1, <1>2 DEF RingInv, ProducerInv, indexVars, prodVars
  <2> QED BY <2>4, <2>5, <2>6, <1>2 DEF RingInv
<1> QED BY <1>4, <1>5

LEMMA DeqHeadInv ==
  ASSUME TypeOK, RingInv, DeqHead
  PROVE  TypeOK' /\ RingInv'
<1>1. Used' = Used /\ Used <= mask /\ mask' = mask /\ <<>> \in Tables
  BY DEF DeqHead, Used, RingInv, mask, Entries, Tables
<1>2. c_n \in 0..Size /\ c_head \in Index /\ c_n \in 1..c_asked
  BY Counts, Widths DEF DeqHead, RingInv, ConsumerInv, TypeOK, mask
<1>3. cons_head' \in Index /\ cons_head' = (c_head + c_n) % M
  BY <1>2, Advance DEF DeqHead
<1>4. TypeOK'
  BY <1>1, <1>2, <1>3 DEF DeqHead, TypeOK, prodVars
<1>5. ConsumerInv'
  BY <1>1, <1>3 DEF DeqHead, RingInv, ConsumerInv
<1>6. ProducerInv'
  BY <1>1 DEF DeqHead, RingInv, ProducerInv, prodVars
<1> QED BY <1>1, <1>4, <1>5, <1>6 DEF RingInv

LEMMA DeqCopyInv ==
  ASSUME TypeOK, RingInv, DeqCopy
  PROVE  TypeOK' /\ RingInv'
<1> DEFINE e == ring[SlotOf(c_head, c_i)]
<1>1. Used' = Used /\ Used <= mask /\ mask' = mask
  BY DEF DeqCopy, indexVars, Used, RingInv, mask, Entries
<1>2. /\ c_n \in 0..Burst /\ c_i \in Nat /\ c_i < c_n /\ c_n <= Used
      /\ c_head \in Index /\ c_tab \in Seq(Objs) /\ Len(c_tab) = c_i
      /\ Used \in 0..mask /\ Burst \in Nat
  BY Counts, RingAssumption, TableSeq DEF DeqCopy, RingInv, ConsumerInv, TypeOK
<1> HIDE DEF Used
<1>3. c_i \in Slots
  BY <1>2, Widths DEF Slots, mask
<1>4. e \in Objs
  BY <1>2, <1>3, SlotInRange DEF TypeOK
<1> HIDE DEF e
<1>5. c_tab' = Append(c_tab, e) /\ c_i' = c_i + 1
  BY DEF DeqCopy, e
<1>6. /\ c_tab' \in Seq(Objs) /\ Len(c_tab') = c_i + 1 /\ c_tab'[c_i + 1] = e
      /\ \A j \in 1..c_i : c_tab'[j] = c_tab[j]
  BY <1>2, <1>4, <1>5, AppendProperties
<1>7. c_tab' \in Tables
  BY <1>2, <1>6, TableSeq
<1>8. TypeOK'
  BY <1>2, <1>5, <1>7 DEF DeqCopy, TypeOK, indexVars, prodVars
<1>9. ConsumerInv'
  <2>1. \A j \in 1..(c_i + 1) : c_tab'[j] = ring[SlotOf(c_head, j - 1)]
    <3>1. TAKE j \in 1..(c_i + 1)
    <3>2. CASE j = c_i + 1
      <4>1. j - 1 = c_i
        BY <3>2, <1>2
      <4> QED BY <3>2, <4>1, <1>6 DEF e
    <3>3. CASE j # c_i + 1
      <4>1. j \in 1..c_i
        BY <3>3, <1>2
      <4> QED BY <4>1, <1>6 DEF RingInv, ConsumerInv, DeqCopy
    <3> QED BY <3>2, <3>3
  <2>2. UNCHANGED <<ring, cpc, c_head, c_n, c_asked, cons_head, cons_tail>> /\ cpc = "copy"
    BY DEF DeqCopy, indexVars
  <2> QED BY <1>1, <1>5, <1>6, <2>1, <2>2 DEF RingInv, ConsumerInv
<1>10. ProducerInv'
  BY <1>1 DEF DeqCopy, RingInv, ProducerInv, prodVars, indexVars
<1> QED BY <1>1, <1>8, <1>9, <1>10 DEF RingInv

LEMMA DeqTailInv ==
  ASSUME TypeOK, RingInv, DeqTail
  PROVE  TypeOK' /\ RingInv' /\ Used' = Used - c_n
<1>1. /\ c_head = cons_tail /\ c_n \in 1..c_asked /\ c_n <= Used
      /\ cons_head = (c_head + c_n) % M
      /\ prod_tail \in Index /\ cons_tail \in Index
      /\ c_asked \in 0..Burst /\ c_tab \in Tables /\ Burst \in Nat
  BY RingAssumption DEF DeqTail, RingInv, ConsumerInv, TypeOK
<1>2. Used \in 0..mask /\ mask \in Nat /\ mask' = mask
  BY Counts DEF RingInv, mask
<1>3. c_n \in 0..Size
  BY <1>1, <1>2, Widths DEF mask
<1>4. cons_tail' \in Index /\ cons_tail' = (cons_tail + c_n) % M
  BY <1>1, <1>3, Advance DEF DeqTail
<1>5. Used' = Used - c_n
  <2>1. c_n <= Entries(cons_tail, prod_tail)
    BY <1>1 DEF Used
  <2>2. Entries((cons_tail + c_n) % M, prod_tail) = Entries(cons_tail, prod_tail) - c_n
    BY <2>1, <1>1, <1>3, EntriesShrink
  <2>3. Used' = Entries((cons_tail + c_n) % M, prod_tail)
    BY <1>4 DEF DeqTail, Used, Entries
  <2> QED BY <2>2, <2>3 DEF Used
<1> HIDE DEF Used
<1>6. <<>> \in Tables
  BY DEF Tables
<1>7. TypeOK'
  BY <1>1, <1>4, <1>6, Widths DEF DeqTail, TypeOK, prodVars, Call, Index
<1>8. ConsumerInv'
  BY <1>1, <1>4 DEF DeqTail, ConsumerInv
<1>9. ProducerInv'
  BY <1>1, <1>2, <1>5 DEF DeqTail, RingInv, ProducerInv, prodVars, TypeOK
<1> QED BY <1>1, <1>2, <1>5, <1>7, <1>8, <1>9 DEF RingInv


LEMMA StepInv == TypeOK /\ RingInv /\ [Next]_vars => TypeOK' /\ RingInv'
<1> SUFFICES ASSUME TypeOK, RingInv, [Next]_vars
             PROVE  TypeOK' /\ RingInv'
  OBVIOUS
<1>1. CASE UNCHANGED vars
  BY <1>1 DEF vars, TypeOK, RingInv, ProducerInv, ConsumerInv, Used, Entries, mask,
              Tables, BurstTables, Index, Slots, SlotOf
<1>2. ASSUME NEW tab \in BurstTables, EnqLoad(tab) PROVE TypeOK' /\ RingInv'
  BY <1>2, EnqLoadInv
<1>3. ASSUME NEW n \in 1..Burst, DeqLoad(n) PROVE TypeOK' /\ RingInv'
  BY <1>3, DeqLoadInv
<1> QED BY <1>1, <1>2, <1>3, EnqHeadInv, EnqCopyInv, EnqTailInv,
           DeqHeadInv, DeqCopyInv, DeqTailInv DEF Next, Producer, Consumer

LEMMA Invariance == Spec => [](TypeOK /\ RingInv)
<1> QED BY InitInv, StepInv, PTL DEF Spec

\* Every variable of the ring has its type: in particular the indexes stay below
\* M although they only ever grow (unsigned arithmetic of rte_ring.h).
THEOREM RingTypeCorrect == Spec => []TypeOK
<1> QED BY Invariance, PTL

\* The comments of __rte_ring_sp_do_enqueue and __rte_ring_sc_do_dequeue: for a
\* ring of any size, free_entries and entries are between 0 and size(ring)-1 at
\* every step, however far the indexes have gone round.
THEOREM RingCountsInRange == Spec => []CountsInRange
<1>1. TypeOK /\ RingInv => CountsInRange
  <2> SUFFICES ASSUME TypeOK, RingInv PROVE CountsInRange
    OBVIOUS
  <2>1. /\ prod_tail \in Index /\ cons_tail \in Index /\ prod_head \in Index
        /\ Used \in 0..mask /\ mask \in Nat
        /\ FreeEntries(prod_tail, cons_tail) = mask - Used
        /\ p_n \in Nat /\ c_n \in Nat
    BY Counts, RingAssumption DEF TypeOK, RingInv
  <2>2. FreeEntries(prod_head, cons_tail) \in 0..mask
    <3>1. CASE ppc # "copy"
      <4>1. prod_head = prod_tail
        BY <3>1 DEF RingInv, ProducerInv, TypeOK
      <4> QED BY <4>1, <2>1
    <3>2. CASE ppc = "copy"
      <4>1. prod_head = (prod_tail + p_n) % M /\ Used + p_n <= mask
        BY <3>2, <2>1 DEF RingInv, ProducerInv
      <4>2. p_n \in 0..Size
        BY <4>1, <2>1, Widths DEF mask
      <4>3. Entries(cons_tail, prod_head) = Used + p_n
        BY <4>1, <4>2, <2>1, EntriesGrow DEF Used
      <4>4. FreeEntries(prod_head, cons_tail) = mask - (Used + p_n)
        BY <4>1, <4>3, <2>1, FreeCount
      <4> QED BY <4>1, <4>4, <2>1
    <3> QED BY <3>1, <3>2
  <2>3. Entries(cons_head, prod_tail) \in 0..mask
    <3>1. CASE cpc # "copy"
      <4>1. cons_head = cons_tail
        BY <3>1 DEF RingInv, ConsumerInv, TypeOK
      <4> QED BY <4>1, <2>1 DEF Used
    <3>2. CASE cpc = "copy"
      <4>1. cons_head = (cons_tail + c_n) % M /\ c_n <= Used
        BY <3>2 DEF RingInv, ConsumerInv
      <4>2. c_n \in 0..Size
        BY <4>1, <2>1, Widths DEF mask
      <4>3. Entries(cons_head, prod_tail) = Used - c_n
        BY <4>1, <4>2, <2>1, EntriesShrink DEF Used
      <4> QED BY <4>1, <4>3, <2>1
    <3> QED BY <3>1, <3>2
  <2> QED BY <2>2, <2>3 DEF CountsInRange
<1> QED BY <1>1, Invariance, PTL

\* No slot is written by the producer while the consumer has claimed it: the two
\* ends of the lock-free ring never touch the same memory at once.
THEOREM RingClaimsDisjoint == Spec => []ClaimsDisjoint
<1>1. TypeOK /\ RingInv => ClaimsDisjoint
  <2> SUFFICES ASSUME TypeOK, RingInv, ppc = "copy", cpc = "copy",
                      NEW i \in p_i..(p_n - 1), NEW j \in 0..(c_n - 1)
               PROVE  SlotOf(p_head, i) # SlotOf(c_head, j)
    BY DEF ClaimsDisjoint
  <2>1. /\ p_head = prod_tail /\ c_head = cons_tail /\ cons_tail \in Index
        /\ p_n + Used <= mask /\ c_n <= Used
        /\ p_n \in Nat /\ c_n \in Nat /\ p_i \in Nat
        /\ Used \in 0..mask /\ mask \in Nat
    BY Counts, RingAssumption DEF TypeOK, RingInv, ProducerInv, ConsumerInv
  <2> HIDE DEF Used
  <2>2. i \in Nat /\ Used + i <= mask /\ j < Used + i /\ j \in Nat
    BY <2>1
  <2>3. Used + i \in Slots /\ SlotOf(prod_tail, i) = SlotOf(cons_tail, Used + i)
    BY <2>1, <2>2, ClaimOffset DEF RingInv
  <2>4. j \in Slots /\ j # Used + i
    BY <2>2, <2>3, Widths DEF Slots
  <2> QED BY <2>1, <2>3, <2>4, SlotInjective
<1> QED BY <1>1, Invariance, PTL

(* --- the refinement --------------------------------------------------------- *)

\* The slots from an index on, read as a sequence.
LEMMA SlotsAsSeq ==
  ASSUME NEW r \in [Slots -> Objs], NEW t \in Index, NEW u \in 0..mask
  PROVE  /\ SlotSeq(r, t, u) \in Seq(Objs) /\ Len(SlotSeq(r, t, u)) = u
         /\ \A i \in 1..u : SlotSeq(r, t, u)[i] = r[SlotOf(t, i - 1)]
<1>1. ASSUME NEW i \in 1..u PROVE r[SlotOf(t, i - 1)] \in Objs
  <2>1. i - 1 \in Slots
    BY Widths DEF Slots, mask
  <2> QED BY <2>1, SlotInRange
<1>2. u \in Nat
  BY Widths DEF mask
<1> QED BY <1>1, <1>2 DEF SlotSeq

\* What the queue of the refinement mapping is made of.
LEMMA QueueShape ==
  ASSUME TypeOK, Used <= mask
  PROVE  /\ queue \in Seq(Objs) /\ Len(queue) = Used
         /\ \A i \in 1..Used : queue[i] = ring[SlotOf(cons_tail, i - 1)]
<1>1. Used \in 0..mask /\ cons_tail \in Index /\ ring \in [Slots -> Objs]
  BY Counts DEF TypeOK
<1> QED BY <1>1, SlotsAsSeq DEF queue

\* A step that leaves the tails and the queued slots alone leaves the queue alone.
LEMMA SameQueue ==
  ASSUME TypeOK, Used <= mask, UNCHANGED <<prod_tail, cons_tail>>,
         \A i \in 1..Used : ring'[SlotOf(cons_tail, i - 1)] = ring[SlotOf(cons_tail, i - 1)]
  PROVE  queue' = queue
<1>1. Used' = Used
  BY DEF Used, Entries
<1>2. queue' = SlotSeq(ring', cons_tail, Used)
  BY <1>1 DEF queue, SlotSeq, SlotOf
<1> QED BY <1>2 DEF queue, SlotSeq

\* A refused call is a refused call of the FIFO: it found the ring full (empty).
LEMMA RefineLoad ==
  ASSUME TypeOK, RingInv, TypeOK', RingInv',
         \/ \E tab \in BurstTables : EnqLoad(tab)
         \/ \E n \in 1..Burst : DeqLoad(n)
  PROVE  F!FifoNext \/ UNCHANGED F!fifoVars
<1>1. Used \in 0..mask /\ mask \in Nat /\ Used <= mask /\ Len(queue) = Used
      /\ queue \in Seq(Objs) /\ FreeEntries(prod_tail, cons_tail) = mask - Used
  BY Counts, QueueShape DEF RingInv
<1>2. queue' = queue
  BY <1>1, SameQueue DEF EnqLoad, DeqLoad, indexVars
<1>3. ASSUME NEW tab \in BurstTables, EnqLoad(tab)
      PROVE  F!FifoNext \/ UNCHANGED F!fifoVars
  <2>1. Len(tab) \in 1..Burst /\ prod_head = prod_tail
    BY <1>3, TableSeq DEF EnqLoad, RingInv, ProducerInv
  <2>2. CASE Len(tab) > FreeEntries(prod_head, cons_tail)
             /\ (Fixed \/ FreeEntries(prod_head, cons_tail) = 0)
    <3>1. last' = Call("enqueue", Len(tab), <<>>)
      BY <2>2, <1>3 DEF EnqLoad
    <3>2. IF Fixed THEN Len(queue) + Len(tab) > mask ELSE Len(queue) = mask
      BY <2>1, <2>2, <1>1, RingAssumption
    <3>3. F!EnqueueNothing(Len(tab))
      BY <3>1, <3>2, <1>2 DEF F!EnqueueNothing, F!Call, Call
    <3> QED BY <2>1, <3>3 DEF F!FifoNext
  <2>3. CASE ~(Len(tab) > FreeEntries(prod_head, cons_tail)
               /\ (Fixed \/ FreeEntries(prod_head, cons_tail) = 0))
    BY <2>3, <1>2, <1>3 DEF EnqLoad, F!fifoVars
  <2> QED BY <2>2, <2>3
<1>4. ASSUME NEW n \in 1..Burst, DeqLoad(n)
      PROVE  F!FifoNext \/ UNCHANGED F!fifoVars
  <2>1. Entries(cons_head, prod_tail) = Used
    BY <1>4 DEF DeqLoad, RingInv, ConsumerInv, Used
  <2>2. CASE n > Used /\ (Fixed \/ Used = 0)
    <3>1. last' = Call("dequeue", n, <<>>)
      BY <2>1, <2>2, <1>4 DEF DeqLoad
    <3>2. IF Fixed THEN Len(queue) < n ELSE queue = <<>>
      BY <2>2, <1>1, RingAssumption, EmptySeq
    <3>3. F!DequeueNothing(n)
      BY <3>1, <3>2, <1>2 DEF F!DequeueNothing, F!Call, Call
    <3> QED BY <3>3 DEF F!FifoNext
  <2>3. CASE ~(n > Used /\ (Fixed \/ Used = 0))
    BY <2>1, <2>3, <1>2, <1>4 DEF DeqLoad, F!fifoVars
  <2> QED BY <2>2, <2>3
<1> QED BY <1>3, <1>4

\* The producer's store of prod.tail is the FIFO's enqueue of the whole burst.
LEMMA RefineEnqTail ==
  ASSUME TypeOK, RingInv, TypeOK', RingInv', EnqTail
  PROVE  F!FifoNext
<1> DEFINE objs == SubSeq(p_tab, 1, p_n)
<1>1. /\ Used \in 0..mask /\ mask \in Nat /\ Used' = Used + p_n /\ Used' <= mask
      /\ p_n \in 1..p_asked /\ p_asked \in 1..Burst /\ (Fixed => p_n = p_asked)
      /\ p_head = prod_tail /\ p_i = p_n /\ cons_tail' = cons_tail /\ ring' = ring
      /\ Len(p_tab) = p_asked /\ p_tab \in Seq(Objs) /\ mask' = mask
      /\ p_n + Used <= mask
  <2>1. Used \in 0..mask /\ mask \in Nat /\ Used' = Used + p_n /\ mask' = mask
    BY Counts, EnqTailInv DEF RingInv, mask
  <2>2. /\ p_n \in 1..p_asked /\ (Fixed => p_n = p_asked) /\ p_head = prod_tail
        /\ p_i = p_n /\ cons_tail' = cons_tail /\ ring' = ring
        /\ Len(p_tab) = p_asked /\ p_n + Used <= mask
    BY DEF EnqTail, RingInv, ProducerInv
  <2>3. p_tab \in Seq(Objs) /\ p_asked \in 0..Burst /\ Burst \in Nat
    BY TableSeq, RingAssumption DEF TypeOK
  <2> HIDE DEF Used
  <2> QED BY <2>1, <2>2, <2>3
<1>2. /\ queue \in Seq(Objs) /\ Len(queue) = Used
      /\ \A i \in 1..Used : queue[i] = ring[SlotOf(cons_tail, i - 1)]
  BY QueueShape DEF RingInv
<1>3. /\ queue' \in Seq(Objs) /\ Len(queue') = Used + p_n
      /\ \A i \in 1..(Used + p_n) : queue'[i] = ring[SlotOf(cons_tail, i - 1)]
  <2>1. queue' = SlotSeq(ring, cons_tail, Used + p_n)
    <3>1. queue' = SlotSeq(ring', cons_tail', Used')
      BY DEF queue, SlotSeq, SlotOf
    <3> QED BY <3>1, <1>1
  <2> HIDE DEF queue, Used
  <2>2. Used + p_n \in 0..mask /\ cons_tail \in Index /\ ring \in [Slots -> Objs]
    <3>1. cons_tail \in Index /\ ring \in [Slots -> Objs]
      BY DEF TypeOK
    <3>2. Used + p_n \in 0..mask
      BY <1>1
    <3> QED BY <3>1, <3>2
  <2> QED BY <2>1, <2>2, SlotsAsSeq
<1>4. /\ objs \in Seq(Objs) /\ Len(objs) = p_n
      /\ \A i \in 1..p_n : objs[i] = p_tab[i]
  <2>1. \A i \in 1..p_n : p_tab[i] \in Objs
    BY <1>1
  <2> QED BY <2>1, <1>1, SubSeqProperties
<1> HIDE DEF objs, queue, Used
<1>5. \A i \in 0..(p_n - 1) : ring[SlotOf(cons_tail, Used + i)] = p_tab[i + 1]
  <2>1. TAKE i \in 0..(p_n - 1)
  <2>2. i \in Nat /\ Used + i <= mask
    BY <1>1
  <2>3. SlotOf(prod_tail, i) = SlotOf(cons_tail, Used + i)
    BY <1>1, <2>2, ClaimOffset
  <2> QED BY <1>1, <2>3 DEF RingInv, ProducerInv, EnqTail
<1>6. /\ queue \o objs \in Seq(Objs) /\ Len(queue \o objs) = Used + p_n
      /\ \A i \in 1..(Used + p_n) : (queue \o objs)[i] =
              IF i <= Used THEN queue[i] ELSE objs[i - Used]
  BY <1>2, <1>4, ConcatProperties
<1>7. \A i \in 1..(Used + p_n) : queue'[i] = (queue \o objs)[i]
  <2>1. TAKE i \in 1..(Used + p_n)
  <2>2. CASE i <= Used
    <3>1. i \in 1..Used
      BY <2>2, <1>1
    <3>2. queue'[i] = ring[SlotOf(cons_tail, i - 1)] /\ queue[i] = ring[SlotOf(cons_tail, i - 1)]
      BY <3>1, <1>2, <1>3
    <3> QED BY <2>2, <3>2, <1>6
  <2>3. CASE ~(i <= Used)
    <3>1. i - Used - 1 \in 0..(p_n - 1) /\ Used + (i - Used - 1) = i - 1
          /\ (i - Used - 1) + 1 = i - Used /\ i - Used \in 1..p_n
      BY <2>3, <1>1
    <3>2. ring[SlotOf(cons_tail, i - 1)] = p_tab[i - Used]
      BY <3>1, <1>5
    <3> QED BY <2>3, <3>1, <3>2, <1>3, <1>4, <1>6
  <2> QED BY <2>2, <2>3
<1>8. queue' = queue \o objs
  BY <1>3, <1>6, <1>7, SeqEqual
<1>9. F!Enqueue(p_asked, objs)
  <2>1. last' = Call("enqueue", p_asked, objs)
    BY DEF EnqTail, objs
  <2> QED BY <2>1, <1>1, <1>2, <1>4, <1>8 DEF F!Enqueue, F!Call, Call
<1>10. objs \in [1..p_n -> Objs]
  BY <1>4
<1> QED BY <1>1, <1>9, <1>10 DEF F!FifoNext

\* The consumer's store of cons.tail is the FIFO's dequeue of the whole burst.
LEMMA RefineDeqTail ==
  ASSUME TypeOK, RingInv, TypeOK', RingInv', DeqTail
  PROVE  F!FifoNext
<1>1. /\ Used \in 0..mask /\ mask \in Nat /\ Used' = Used - c_n /\ Used' <= mask
      /\ c_n \in 1..c_asked /\ c_asked \in 1..Burst /\ (Fixed => c_n = c_asked)
      /\ c_head = cons_tail /\ c_i = c_n /\ c_n <= Used /\ ring' = ring
      /\ cons_tail' = (cons_tail + c_n) % M /\ cons_tail \in Index
      /\ Len(c_tab) = c_n /\ c_tab \in Seq(Objs) /\ mask' = mask
  <2>1. Used \in 0..mask /\ mask \in Nat /\ Used' = Used - c_n /\ mask' = mask
    BY Counts, DeqTailInv DEF RingInv, mask
  <2>2. /\ c_n \in 1..c_asked /\ (Fixed => c_n = c_asked) /\ c_head = cons_tail
        /\ c_i = c_n /\ c_n <= Used /\ ring' = ring
        /\ cons_tail' = (cons_tail + c_n) % M /\ Len(c_tab) = c_n
    BY DEF DeqTail, RingInv, ConsumerInv
  <2>3. c_tab \in Seq(Objs) /\ c_asked \in 0..Burst /\ Burst \in Nat /\ cons_tail \in Index
    BY TableSeq, RingAssumption DEF TypeOK
  <2> HIDE DEF Used
  <2> QED BY <2>1, <2>2, <2>3
<1>2. /\ queue \in Seq(Objs) /\ Len(queue) = Used
      /\ \A i \in 1..Used : queue[i] = ring[SlotOf(cons_tail, i - 1)]
  BY QueueShape DEF RingInv
<1>3. /\ queue' \in Seq(Objs) /\ Len(queue') = Used - c_n
      /\ \A i \in 1..(Used - c_n) : queue'[i] = ring[SlotOf((cons_tail + c_n) % M, i - 1)]
  <2>1. queue' = SlotSeq(ring, (cons_tail + c_n) % M, Used - c_n)
    <3>1. queue' = SlotSeq(ring', cons_tail', Used')
      BY DEF queue, SlotSeq, SlotOf
    <3> QED BY <3>1, <1>1
  <2>2. Used - c_n \in 0..mask
    BY <1>1
  <2>3. c_n \in 0..Size
    BY <1>1, Widths DEF mask
  <2>4. (cons_tail + c_n) % M \in Index /\ ring \in [Slots -> Objs]
    BY <1>1, <2>3, Advance DEF TypeOK
  <2> HIDE DEF queue, Used
  <2> QED BY <2>1, <2>2, <2>4, SlotsAsSeq
<1> HIDE DEF queue, Used
<1> DEFINE rest == SubSeq(queue, c_n + 1, Len(queue))
           objs == SubSeq(queue, 1, c_n)
<1>4. /\ rest \in Seq(Objs) /\ Len(rest) = Used - c_n
      /\ \A i \in 1..(Used - c_n) : rest[i] = queue[c_n + i]
  <2>1. \A i \in (c_n + 1)..Len(queue) : queue[i] \in Objs
    BY <1>1, <1>2
  <2>2. /\ rest \in Seq(Objs)
        /\ Len(rest) = IF c_n + 1 <= Used THEN Used - (c_n + 1) + 1 ELSE 0
        /\ \A i \in 1..(Used - (c_n + 1) + 1) : rest[i] = queue[(c_n + 1) + i - 1]
    BY <2>1, <1>1, <1>2, SubSeqProperties
  <2> HIDE DEF rest
  <2>3. ASSUME NEW i \in 1..(Used - c_n) PROVE rest[i] = queue[c_n + i]
    <3>1. i \in 1..(Used - (c_n + 1) + 1) /\ (c_n + 1) + i - 1 = c_n + i
      BY <1>1
    <3> QED BY <3>1, <2>2
  <2> QED BY <2>2, <2>3, <1>1
<1>5. /\ objs \in Seq(Objs) /\ Len(objs) = c_n
      /\ \A i \in 1..c_n : objs[i] = queue[i]
  <2>1. \A i \in 1..c_n : queue[i] \in Objs
    BY <1>1, <1>2
  <2> QED BY <2>1, <1>1, SubSeqProperties
<1> HIDE DEF rest, objs
<1>6. queue' = rest
  <2>1. ASSUME NEW i \in 1..(Used - c_n) PROVE queue'[i] = rest[i]
    <3>1. i - 1 \in Slots /\ c_n \in Slots /\ c_n + (i - 1) \in Slots
          /\ c_n + (i - 1) = c_n + i - 1 /\ c_n + i \in 1..Used
      BY <1>1, Widths DEF Slots, mask
    <3>2. SlotOf((cons_tail + c_n) % M, i - 1) = SlotOf(cons_tail, c_n + (i - 1))
      BY <3>1, <1>1, SlotShift
    <3>3. queue'[i] = ring[SlotOf(cons_tail, c_n + (i - 1))]
      BY <3>2, <1>3
    <3>4. rest[i] = queue[c_n + i]
      BY <1>4
    <3>5. queue[c_n + i] = ring[SlotOf(cons_tail, c_n + i - 1)]
      <4> DEFINE j == c_n + i
      <4>1. j \in 1..Used
        BY <3>1
      <4> HIDE DEF j
      <4>2. queue[j] = ring[SlotOf(cons_tail, j - 1)]
        BY <4>1, <1>2
      <4>3. c_n \in Int /\ i \in Int
        BY <1>1
      <4>4. j - 1 = c_n + i - 1
        BY <4>3 DEF j
      <4> QED BY <4>2, <4>4 DEF j
    <3> QED BY <3>1, <3>3, <3>4, <3>5
  <2> QED BY <2>1, <1>3, <1>4, SeqEqual
<1>7. c_tab = objs
  <2>1. ASSUME NEW i \in 1..c_n PROVE c_tab[i] = objs[i]
    <3>1. c_tab[i] = ring[SlotOf(cons_tail, i - 1)]
      BY <1>1 DEF RingInv, ConsumerInv, DeqTail
    <3>2. i \in 1..Used
      BY <1>1
    <3> QED BY <3>1, <3>2, <1>2, <1>5
  <2> QED BY <2>1, <1>1, <1>5, SeqEqual
<1>8. F!Dequeue(c_asked, c_n)
  <2>1. last' = Call("dequeue", c_asked, objs)
    BY <1>7 DEF DeqTail
  <2> QED BY <2>1, <1>1, <1>2, <1>6 DEF F!Dequeue, F!Call, Call, rest, objs
<1> QED BY <1>1, <1>8 DEF F!FifoNext

\* Every other step is invisible: it moves a head, or copies to or from slots
\* that the queue does not hold.
LEMMA RefineInternal ==
  ASSUME TypeOK, RingInv, EnqHead \/ EnqCopy \/ DeqHead \/ DeqCopy
  PROVE  UNCHANGED F!fifoVars
<1>1. CASE EnqHead \/ DeqHead \/ DeqCopy
  BY <1>1, SameQueue DEF RingInv, EnqHead, DeqHead, DeqCopy, indexVars, F!fifoVars
<1>2. CASE EnqCopy
  <2>1. /\ Used \in 0..mask /\ mask \in Nat /\ Used <= mask /\ p_i \in Nat
        /\ p_head = prod_tail /\ Used + p_i <= mask /\ cons_tail \in Index
        /\ ring \in [Slots -> Objs] /\ UNCHANGED <<prod_tail, cons_tail, last>>
        /\ ring' = [ring EXCEPT ![SlotOf(p_head, p_i)] = p_tab[p_i + 1]]
    BY <1>2, Counts, RingAssumption DEF EnqCopy, RingInv, ProducerInv, TypeOK, indexVars
  <2> HIDE DEF Used
  <2>2. Used + p_i \in Slots /\ SlotOf(p_head, p_i) = SlotOf(cons_tail, Used + p_i)
    BY <2>1, ClaimOffset
  <2>3. ASSUME NEW i \in 1..Used
        PROVE  ring'[SlotOf(cons_tail, i - 1)] = ring[SlotOf(cons_tail, i - 1)]
    <3>1. i - 1 \in Slots /\ i - 1 # Used + p_i
      BY <2>1, Widths DEF Slots, mask
    <3>2. SlotOf(cons_tail, i - 1) # SlotOf(p_head, p_i)
      BY <2>1, <2>2, <3>1, SlotInjective
    <3> QED BY <2>1, <3>1, <3>2, SlotInRange
  <2> QED BY <2>1, <2>3, SameQueue DEF F!fifoVars
<1> QED BY <1>1, <1>2

\* The single-producer single-consumer ring of librte_ring, with bursts copied a
\* slot at a time while the other side runs, implements the bounded FIFO, for
\* every ring size, index width, burst length and kind of call.
THEOREM RingImplementsFifo == Spec => ImplementsFifo
<1>1. Init => F!FifoInit
  <2> SUFFICES ASSUME Init PROVE F!FifoInit
    OBVIOUS
  <2>1. Used = 0 /\ TypeOK /\ Used <= mask
    <3>1. 0 \in Index
      BY Widths DEF Index
    <3> QED BY <3>1, EntriesCases, InitInv DEF Init, Used, RingInv
  <2>2. queue = <<>>
    BY <2>1, QueueShape, EmptySeq
  <2> QED BY <2>2 DEF Init, F!FifoInit, F!Call, Call
<1>2. TypeOK /\ RingInv /\ [Next]_vars => [F!FifoNext]_(F!fifoVars)
  <2> SUFFICES ASSUME TypeOK, RingInv, [Next]_vars
               PROVE  F!FifoNext \/ UNCHANGED F!fifoVars
    OBVIOUS
  <2>1. TypeOK' /\ RingInv'
    BY StepInv
  <2>2. CASE UNCHANGED vars
    BY <2>2 DEF vars, F!fifoVars, queue, SlotSeq, Used, Entries, SlotOf
  <2>3. CASE (\E tab \in BurstTables : EnqLoad(tab)) \/ (\E n \in 1..Burst : DeqLoad(n))
    BY <2>1, <2>3, RefineLoad
  <2>4. CASE EnqHead \/ EnqCopy \/ DeqHead \/ DeqCopy
    BY <2>4, RefineInternal
  <2> QED BY <2>1, <2>2, <2>3, <2>4, RefineEnqTail, RefineDeqTail
           DEF Next, Producer, Consumer
<1> QED BY <1>1, <1>2, Invariance, PTL DEF Spec, ImplementsFifo, F!FifoSpec

=============================================================================
