--------------------------- MODULE SpscRingProofs ---------------------------
(***************************************************************************)
(* The ring is race free, first-in first-out and lossless for every        *)
(* capacity, every set of items and every number of pushes.                *)
(***************************************************************************)
EXTENDS SpscRing, TLAPS

-----------------------------------------------------------------------------
\* Wrapped counters.  The provers know division with remainder; the facts the
\* ring rests on are that wrapping commutes with a step, and that counters
\* less than one lap apart wrap to different slots.

\* Division with remainder, with the quotient named.
LEMMA Division ==
    ASSUME NEW a \in Nat
    PROVE  /\ a \div Capacity \in Nat
           /\ a % Capacity \in Slots
           /\ a = (Capacity * (a \div Capacity)) + (a % Capacity)
BY CapacityAssumption DEF Slots

LEMMA ScaledGap ==
    ASSUME NEW c \in Nat, NEW p \in Int, NEW q \in Int
    PROVE  /\ c * (q - p) = (c * q) - (c * p)
           /\ q > p => c * (q - p) >= c
           /\ q < p => c * (q - p) <= -c
<1>1. c * (q - p) = (c * q) - (c * p)
  OBVIOUS
<1>2. ASSUME NEW k \in Int, k >= 1 PROVE c * k >= c
  BY <1>2
<1>3. ASSUME NEW k \in Int, k <= -1 PROVE c * k <= -c
  BY <1>3
<1>4. QED
  BY <1>1, <1>2, <1>3

\* Quotient and remainder are determined by the number.
LEMMA RemainderUnique ==
    ASSUME NEW p \in Int, NEW q \in Int, NEW r \in Slots, NEW s \in Slots,
           (Capacity * q) + r = (Capacity * p) + s
    PROVE  q = p /\ r = s
<1>1. Capacity * (q - p) = s - r
  BY ScaledGap, CapacityAssumption DEF Slots
<1>2. CASE q > p
  BY <1>1, <1>2, ScaledGap, CapacityAssumption DEF Slots
<1>3. CASE q < p
  BY <1>1, <1>3, ScaledGap, CapacityAssumption DEF Slots
<1>4. QED
  BY <1>1, <1>2, <1>3, CapacityAssumption DEF Slots

\* Advancing an index is wrapping the next count.
LEMMA NextIndexWraps ==
    ASSUME NEW n \in Nat
    PROVE  NextIndex(n % Capacity) = (n + 1) % Capacity
<1> DEFINE q == n \div Capacity
           r == n % Capacity
           q1 == (n + 1) \div Capacity
           r1 == (n + 1) % Capacity
<1>1. /\ q \in Nat /\ r \in Slots /\ n = (Capacity * q) + r
      /\ q1 \in Nat /\ r1 \in Slots /\ n + 1 = (Capacity * q1) + r1
  BY Division
<1> HIDE DEF q, r, q1, r1
<1>2. CASE r + 1 < Capacity
  <2>1. r + 1 \in Slots /\ (Capacity * q1) + r1 = (Capacity * q) + (r + 1)
    BY <1>1, <1>2, CapacityAssumption DEF Slots
  <2>2. r1 = r + 1
    BY <2>1, <1>1, RemainderUnique
  <2>3. (r + 1) % Capacity = r + 1
    BY <1>1, <1>2, CapacityAssumption DEF Slots
  <2>4. QED
    BY <2>2, <2>3 DEF NextIndex, r, r1
<1>3. CASE r + 1 = Capacity
  <2>1. (Capacity * q1) + r1 = (Capacity * (q + 1)) + 0
    BY <1>1, <1>3, CapacityAssumption DEF Slots
  <2>2. r1 = 0
    BY <2>1, <1>1, RemainderUnique, CapacityAssumption DEF Slots
  <2>3. (r + 1) % Capacity = 0
    BY <1>3, CapacityAssumption
  <2>4. QED
    BY <2>2, <2>3 DEF NextIndex, r, r1
<1>4. QED
  BY <1>1, <1>2, <1>3, CapacityAssumption DEF Slots

\* Within one lap, counts and slots correspond one to one.
LEMMA LapInjective ==
    ASSUME NEW a \in Nat, NEW b \in Nat, a < b, b < a + Capacity
    PROVE  a % Capacity # b % Capacity
<1> DEFINE qa == a \div Capacity
           qb == b \div Capacity
           r == a % Capacity
<1>1. SUFFICES ASSUME b % Capacity = r PROVE FALSE
  OBVIOUS
<1>2. /\ qa \in Nat /\ qb \in Nat /\ r \in Slots
      /\ a = (Capacity * qa) + r /\ b = (Capacity * qb) + r
  BY <1>1, Division
<1> HIDE DEF qa, qb, r
<1>3. Capacity * (qb - qa) = b - a
  BY <1>2, ScaledGap, CapacityAssumption DEF Slots
<1>4. QED
  BY <1>2, <1>3, ScaledGap, CapacityAssumption DEF Slots

\* One lap later the slot is the same.
LEMMA LapPeriod ==
    ASSUME NEW a \in Nat
    PROVE  (a + Capacity) % Capacity = a % Capacity
<1> DEFINE b == a + Capacity
           qa == a \div Capacity
           qb == b \div Capacity
           ra == a % Capacity
           rb == b % Capacity
<1>1. b \in Nat /\ b = a + Capacity
  BY CapacityAssumption
<1> HIDE DEF b
<1>2. /\ qa \in Nat /\ ra \in Slots /\ a = (Capacity * qa) + ra
      /\ qb \in Nat /\ rb \in Slots /\ b = (Capacity * qb) + rb
  BY <1>1, Division
<1> HIDE DEF qa, qb, ra, rb
<1>3. Capacity * (qa + 1) = (Capacity * qa) + Capacity
  BY <1>2, CapacityAssumption
<1>4. (Capacity * qb) + rb = (Capacity * (qa + 1)) + ra
  BY <1>1, <1>2, <1>3, CapacityAssumption DEF Slots
<1>5. qa + 1 \in Int
  BY <1>2
<1>6. rb = ra
  BY <1>2, <1>4, <1>5, RemainderUnique
<1>7. QED
  BY <1>1, <1>6 DEF ra, rb

\* The slot of the k-th item, counted from one.
LEMMA SlotOfItem ==
    ASSUME NEW k \in Nat \ {0}
    PROVE  k - 1 \in Nat /\ (k - 1) % Capacity \in Slots
<1>1. k - 1 \in Nat
  OBVIOUS
<1>2. QED
  BY <1>1, Division

\* The difference of two wrapped counts, wrapped, is their distance.
LEMMA LapDistance ==
    ASSUME NEW a \in Nat, NEW b \in Nat, a <= b, b < a + Capacity
    PROVE  ((b % Capacity) - (a % Capacity)) % Capacity = b - a
<1> DEFINE qa == a \div Capacity
           qb == b \div Capacity
           ra == a % Capacity
           rb == b % Capacity
<1>1. /\ qa \in Nat /\ ra \in Slots /\ a = (Capacity * qa) + ra
      /\ qb \in Nat /\ rb \in Slots /\ b = (Capacity * qb) + rb
  BY Division
<1> HIDE DEF qa, qb, ra, rb
<1> DEFINE k == qa - qb
           d == b - a
<1>2. rb - ra = (Capacity * k) + d
  BY <1>1, ScaledGap, CapacityAssumption DEF Slots
<1>3. k \in Int /\ d \in Nat /\ d < Capacity
  BY <1>1, CapacityAssumption
<1> HIDE DEF k, d
<1>4. ((Capacity * k) + d) % Capacity = d
  BY <1>3, CapacityAssumption
<1>5. QED
  BY <1>2, <1>4 DEF ra, rb, d
-----------------------------------------------------------------------------
\* The initial state satisfies the inductive invariant.
LEMMA InitInv == Init => Inv
<1> SUFFICES ASSUME Init PROVE Inv
  OBVIOUS
<1>1. 0 % Capacity = 0 /\ 0 \in Slots
  BY CapacityAssumption DEF Slots
<1>2. TypeOK
  BY <1>1 DEF Init, TypeOK
<1>3. IndexInv /\ ViewInv /\ SlotInv
  BY <1>1, CapacityAssumption DEF Init, IndexInv, ViewInv, SlotInv
<1>4. QED
  BY <1>2, <1>3 DEF Inv

\* Every step preserves it.  The load steps rest on the window a load chooses
\* from, the branches on LapInjective, the stores on NextIndexWraps.
LEMMA NextInv == Inv /\ [Next]_vars => Inv'
<1> SUFFICES ASSUME Inv, [Next]_vars PROVE Inv'
  OBVIOUS
<1> USE CapacityAssumption
<1> DEFINE S == Len(sent)
           R == Len(rcvd)
<1>0. /\ S \in Nat /\ R \in Nat
      /\ TypeOK /\ IndexInv /\ ViewInv /\ SlotInv
  BY DEF Inv, TypeOK
<1>1. ASSUME NEW item \in Item, PushLoad(item) PROVE Inv'
  <2>1. PICK seen \in pSeen .. R : pSeen' = seen /\ pTail' = seen % Capacity
    BY <1>1 DEF PushLoad
  <2>2. seen \in Nat /\ seen % Capacity \in Slots
    BY <2>1, <1>0, Division DEF TypeOK
  <2>3. TypeOK'
    BY <1>0, <1>1, <2>1, <2>2 DEF PushLoad, TypeOK, consumerVars
  <2>4. IndexInv' /\ SlotInv'
    BY <1>0, <1>1 DEF PushLoad, IndexInv, SlotInv, consumerVars
  <2>5. ViewInv'
    BY <1>0, <1>1, <2>1, <2>2 DEF PushLoad, IndexInv, ViewInv, consumerVars, TypeOK
  <2>6. QED
    BY <2>3, <2>4, <2>5 DEF Inv
<1>2. CASE PushFull
  BY <1>0, <1>2 DEF PushFull, Inv, TypeOK, IndexInv, ViewInv, SlotInv, consumerVars
<1>3. CASE PushRoom
  <2>1. S + 1 - pSeen < Capacity
    <3>0. S - pSeen < Capacity /\ pSeen \in Nat
      BY <1>0 DEF ViewInv, TypeOK
    <3>1. SUFFICES ASSUME S + 1 = pSeen + Capacity PROVE FALSE
      BY <1>0, <3>0
    <3>2. (pSeen + Capacity) % Capacity = pSeen % Capacity
      BY <1>0, LapPeriod, Zenon DEF TypeOK
    <3>3. NextIndex(head) = (S + 1) % Capacity
      BY <1>0, NextIndexWraps DEF IndexInv
    <3>4. QED
      BY <1>0, <1>3, <3>1, <3>2, <3>3 DEF PushRoom, ViewInv
  <2>2. QED
    BY <1>0, <1>3, <2>1
    DEF PushRoom, Inv, TypeOK, IndexInv, ViewInv, SlotInv, consumerVars
<1>4. CASE PushWrite
  <2>1. \A k \in R + 1 .. S : (k - 1) % Capacity # head
    <3>1. SUFFICES ASSUME NEW k \in R + 1 .. S PROVE (k - 1) % Capacity # head
      OBVIOUS
    <3>2. k - 1 \in Nat /\ k - 1 < S /\ S < (k - 1) + Capacity
      BY <1>0 DEF IndexInv
    <3>3. QED
      BY <1>0, <3>2, LapInjective DEF IndexInv
  <2>2. \A k \in R + 1 .. S : (k - 1) % Capacity \in Slots
    BY <1>0, SlotOfItem
  <2>3. TypeOK' /\ IndexInv' /\ ViewInv'
    BY <1>0, <1>4 DEF PushWrite, TypeOK, IndexInv, ViewInv, consumerVars
  <2>4. SlotInv'
    BY <1>0, <1>4, <2>1, <2>2 DEF PushWrite, TypeOK, SlotInv, consumerVars
  <2>5. QED
    BY <2>3, <2>4 DEF Inv
<1>5. CASE PushPublish
  <2>1. /\ head' = (S + 1) % Capacity
        /\ head' \in Slots
        /\ Len(sent') = S + 1
        /\ sent' \in Seq(Item)
        /\ sent'[S + 1] = pItem
        /\ \A k \in 1 .. S : sent'[k] = sent[k]
    <3>1. head' = (S + 1) % Capacity
      BY <1>0, <1>5, NextIndexWraps DEF PushPublish, IndexInv
    <3>2. S + 1 \in Nat
      BY <1>0
    <3>3. pItem \in Item /\ sent' = Append(sent, pItem)
      BY <1>0, <1>5 DEF PushPublish, TypeOK
    <3>4. QED
      BY <1>0, <3>1, <3>2, <3>3, Division DEF TypeOK
  <2>a. /\ S + 1 - pSeen < Capacity /\ pSeen <= R
        /\ pSeen \in Nat /\ cSeen \in Nat /\ cSeen <= S
    BY <1>0, <1>5 DEF PushPublish, ViewInv, TypeOK
  <2>b. TypeOK'
    BY <1>0, <1>5, <2>1 DEF PushPublish, TypeOK, consumerVars
  <2>c. IndexInv'
    BY <1>0, <1>5, <2>1, <2>a DEF PushPublish, IndexInv
  <2>d. ViewInv'
    BY <1>0, <1>5, <2>1, <2>a DEF PushPublish, ViewInv, consumerVars
  <2>2. TypeOK' /\ IndexInv' /\ ViewInv'
    BY <2>b, <2>c, <2>d
  <2>3. SlotInv'
    <3>1. ASSUME NEW k \in R + 1 .. S + 1
          PROVE  buffer[(k - 1) % Capacity] =
                    IF cpc = "release" /\ k = R + 1 THEN None ELSE sent'[k]
      <4>1. CASE k = S + 1
        <5>1. k - 1 = S /\ head = S % Capacity /\ buffer[head] = pItem
          BY <1>0, <1>5, <4>1 DEF PushPublish, SlotInv, IndexInv
        <5>2. cpc = "release" => k # R + 1
          BY <1>0, <2>a, <4>1 DEF ViewInv
        <5>3. QED
          BY <2>1, <4>1, <5>1, <5>2
      <4>2. CASE k \in R + 1 .. S
        BY <1>0, <2>1, <4>2 DEF SlotInv
      <4>3. QED
        BY <1>0, <4>1, <4>2
    <3>2. cpc = "release" => cItem = sent'[R + 1]
      <4>1. cpc = "release" => R + 1 \in 1 .. S
        BY <1>0, <2>a DEF ViewInv
      <4>2. QED
        BY <1>0, <2>1, <4>1 DEF SlotInv
    <3>3. \A k \in 1 .. R : rcvd[k] = sent'[k]
      BY <1>0, <2>1 DEF SlotInv, IndexInv
    <3>4. QED
      BY <1>5, <2>1, <3>1, <3>2, <3>3, Zenon DEF PushPublish, SlotInv, consumerVars
  <2>4. QED
    BY <2>2, <2>3 DEF Inv
<1>6. CASE CapturePrefix
  <2>1. PICK seen \in cSeen .. S :
           /\ cSeen' = seen
           /\ cHead' = seen % Capacity
           /\ prefix' = ((seen % Capacity) - tail) % Capacity
    BY <1>6 DEF CapturePrefix
  <2>2. seen \in Nat /\ seen % Capacity \in Slots
    BY <2>1, <1>0, Division DEF TypeOK
  <2>3. prefix' = seen - R /\ prefix' \in Slots
    <3>a. R <= cSeen /\ S - R < Capacity /\ cSeen \in Nat
      BY <1>0 DEF IndexInv, ViewInv, TypeOK
    <3>b. cSeen <= seen /\ seen <= S
      BY <1>0, <2>1, <3>a
    <3>1. R <= seen /\ seen < R + Capacity
      BY <1>0, <2>2, <3>a, <3>b
    <3>2. prefix' = seen - R
      BY <1>0, <2>1, <2>2, <3>1, LapDistance DEF IndexInv
    <3>3. QED
      BY <1>0, <2>2, <3>1, <3>2 DEF Slots
  <2>4. TypeOK' /\ IndexInv' /\ SlotInv'
    BY <1>0, <1>6, <2>1, <2>2, <2>3, Zenon
    DEF CapturePrefix, TypeOK, IndexInv, SlotInv, producerVars
  <2>5. ViewInv'
    BY <1>0, <1>6, <2>1, <2>2, <2>3
    DEF CapturePrefix, TypeOK, ViewInv, producerVars
  <2>6. QED
    BY <2>4, <2>5 DEF Inv
<1>7. CASE PopLoad
  <2>1. PICK seen \in cSeen .. S : cSeen' = seen /\ cHead' = seen % Capacity
    BY <1>7 DEF PopLoad
  <2>2. seen \in Nat /\ seen % Capacity \in Slots
    BY <2>1, <1>0, Division DEF TypeOK
  <2>3. TypeOK' /\ IndexInv' /\ SlotInv'
    BY <1>0, <1>7, <2>1, <2>2 DEF PopLoad, TypeOK, IndexInv, SlotInv, producerVars
  <2>4. ViewInv'
    <3>1. cSeen \in Nat /\ prefix \in Int
      BY <1>0 DEF TypeOK, Slots
    <3>2. cSeen <= seen /\ seen <= S
      BY <1>0, <2>1, <3>1
    <3>3. R <= seen /\ prefix <= seen - R
      BY <1>0, <2>2, <3>1, <3>2 DEF ViewInv
    <3>4. QED
      BY <1>0, <1>7, <2>1, <3>2, <3>3 DEF PopLoad, ViewInv, producerVars
  <2>5. QED
    BY <2>3, <2>4 DEF Inv
<1>8. CASE PopEmpty
  <2>1. TypeOK' /\ IndexInv' /\ SlotInv'
    BY <1>0, <1>8 DEF PopEmpty, TypeOK, IndexInv, SlotInv, producerVars, Slots
  <2>2. ViewInv'
    BY <1>0, <1>8 DEF PopEmpty, TypeOK, ViewInv, producerVars
  <2>3. QED
    BY <2>1, <2>2 DEF Inv
<1>9. CASE PopReady
  <2>1. R < cSeen
    BY <1>0, <1>9 DEF PopReady, ViewInv, IndexInv, TypeOK
  <2>2. QED
    BY <1>0, <1>9, <2>1
    DEF PopReady, Inv, TypeOK, IndexInv, ViewInv, SlotInv, producerVars
<1>10. CASE PopTake
  <2>1. R + 1 \in R + 1 .. S /\ tail = ((R + 1) - 1) % Capacity
    BY <1>0, <1>10 DEF PopTake, IndexInv, ViewInv, TypeOK
  <2>2. buffer[tail] = sent[R + 1] /\ sent[R + 1] \in Item
    <3>1. cpc # "release"
      BY <1>10 DEF PopTake
    <3>2. buffer[tail] = sent[R + 1]
      BY <2>1, <3>1, <1>0 DEF SlotInv
    <3>3. R + 1 \in 1 .. S
      BY <1>0, <2>1
    <3>4. QED
      BY <1>0, <3>2, <3>3 DEF TypeOK
  <2>3. \A k \in R + 2 .. S : (k - 1) % Capacity # tail
    <3>1. SUFFICES ASSUME NEW k \in R + 2 .. S PROVE (k - 1) % Capacity # tail
      OBVIOUS
    <3>2. k - 1 \in Nat /\ R < k - 1 /\ k - 1 < R + Capacity
      BY <1>0 DEF IndexInv
    <3>3. QED
      BY <1>0, <3>2, LapInjective DEF IndexInv
  <2>4. ppc = "publish" => head # tail
    <3>1. SUFFICES ASSUME ppc = "publish" PROVE head # tail
      OBVIOUS
    <3>2. R < S /\ S < R + Capacity
      BY <1>0, <2>1 DEF IndexInv
    <3>3. QED
      BY <1>0, <3>2, LapInjective DEF IndexInv
  <2>5. \A k \in R + 1 .. S : (k - 1) % Capacity \in Slots
    BY <1>0, SlotOfItem
  <2>6. TypeOK' /\ IndexInv' /\ ViewInv'
    BY <1>0, <1>10, <2>2 DEF PopTake, TypeOK, IndexInv, ViewInv, producerVars
  <2>7. SlotInv'
    <3>1. ASSUME NEW k \in R + 1 .. S
          PROVE  buffer'[(k - 1) % Capacity] = IF k = R + 1 THEN None ELSE sent[k]
      <4>1. CASE k = R + 1
        BY <1>0, <1>10, <2>1, <4>1 DEF PopTake, TypeOK
      <4>2. CASE k \in R + 2 .. S
        BY <1>0, <1>10, <2>3, <2>5, <4>2 DEF PopTake, TypeOK, SlotInv
      <4>3. QED
        BY <1>0, <4>1, <4>2
    <3>2. ppc = "publish" => buffer'[head] = pItem
      BY <1>0, <1>10, <2>4 DEF PopTake, SlotInv, TypeOK
    <3>3. QED
      BY <1>0, <1>10, <2>2, <3>1, <3>2 DEF PopTake, SlotInv, producerVars
  <2>8. QED
    BY <2>6, <2>7 DEF Inv
<1>11. CASE PopRelease
  <2>1. /\ tail' = (R + 1) % Capacity
        /\ tail' \in Slots
        /\ Len(rcvd') = R + 1
        /\ rcvd' \in Seq(Item \cup {None})
        /\ rcvd'[R + 1] = cItem
        /\ \A k \in 1 .. R : rcvd'[k] = rcvd[k]
    <3>1. tail' = (R + 1) % Capacity
      BY <1>0, <1>11, NextIndexWraps DEF PopRelease, IndexInv
    <3>2. R + 1 \in Nat
      BY <1>0
    <3>3. cItem \in Item \cup {None} /\ rcvd' = Append(rcvd, cItem)
      BY <1>0, <1>11 DEF PopRelease, TypeOK
    <3>4. QED
      BY <1>0, <3>1, <3>2, <3>3, Division DEF TypeOK
  <2>2. R < cSeen /\ cSeen <= S
    BY <1>0, <1>11 DEF PopRelease, ViewInv
  <2>3. prefix' \in Slots /\ (prefix = 0 \/ prefix' = prefix - 1) /\ (prefix = 0 => prefix' = 0)
    BY <1>0, <1>11 DEF PopRelease, TypeOK, Slots
  <2>4. TypeOK' /\ IndexInv'
    BY <1>0, <1>11, <2>1, <2>2, <2>3 DEF PopRelease, TypeOK, IndexInv, producerVars
  <2>5. ViewInv'
    <3>1. /\ pSeen \in Nat /\ cSeen \in Nat /\ prefix \in Nat
          /\ prefix <= cSeen - R /\ pSeen <= R
      BY <1>0 DEF TypeOK, ViewInv, Slots
    <3>2. prefix' <= cSeen - (R + 1) /\ R + 1 <= cSeen /\ pSeen <= R + 1
      BY <1>0, <2>2, <2>3, <3>1
    <3>3. QED
      BY <1>0, <1>11, <2>1, <3>2 DEF PopRelease, ViewInv, producerVars
  <2>6. SlotInv'
    <3>1. ASSUME NEW k \in R + 2 .. S
          PROVE  buffer[(k - 1) % Capacity] = sent[k]
      BY <1>0, <3>1 DEF SlotInv
    <3>2. ASSUME NEW k \in 1 .. R + 1 PROVE rcvd'[k] = sent[k]
      <4>1. CASE k = R + 1
        BY <1>0, <1>11, <2>1, <4>1 DEF PopRelease, SlotInv
      <4>2. CASE k \in 1 .. R
        BY <1>0, <2>1, <4>2 DEF SlotInv
      <4>3. QED
        BY <1>0, <4>1, <4>2
    <3>3. (R + 1) + 1 = R + 2
      BY <1>0
    <3>4. QED
      BY <1>0, <1>11, <2>1, <3>1, <3>2, <3>3 DEF PopRelease, SlotInv, producerVars
  <2>7. QED
    BY <2>4, <2>5, <2>6 DEF Inv
<1>12. CASE UNCHANGED vars
  BY <1>0, <1>12
  DEF vars, producerVars, consumerVars, Inv, TypeOK, IndexInv, ViewInv, SlotInv
<1>13. QED
  BY <1>1, <1>2, <1>3, <1>4, <1>5, <1>6, <1>7, <1>8, <1>9, <1>10, <1>11, <1>12
  DEF Next, Producer, Consumer

\* For every capacity, item set and run: the ring's type invariant and the
\* relation between indices, views and slots hold in every reachable state.
THEOREM RingInvariant == Spec => []Inv
BY InitInv, NextInv, PTL DEF Spec

\* try_push and try_pop never touch the same slot at the same time.
THEOREM RaceFree == Spec => []NoSlotRace
<1>1. Inv => NoSlotRace
  <2> SUFFICES ASSUME Inv, ppc = "write", cpc = "take" PROVE head # tail
    BY DEF NoSlotRace
  <2> DEFINE S == Len(sent)
             R == Len(rcvd)
  <2>1. /\ S \in Nat /\ R \in Nat /\ cSeen \in Nat
        /\ R < cSeen /\ cSeen <= S /\ S - R < Capacity
        /\ head = S % Capacity /\ tail = R % Capacity
    BY DEF Inv, TypeOK, IndexInv, ViewInv
  <2> HIDE DEF S, R
  <2>2. R < S /\ S < R + Capacity
    BY <2>1, CapacityAssumption
  <2>3. QED
    BY <2>1, <2>2, LapInjective
<1>2. QED
  BY <1>1, RingInvariant, PTL

\* A slot is reused, and read, only across an acquire load that saw the store
\* after the other side's last access to it.
THEOREM ReuseIsOrdered == Spec => []SlotReuseOrdered
<1>1. Inv => SlotReuseOrdered
  <2> SUFFICES ASSUME Inv PROVE SlotReuseOrdered
    OBVIOUS
  <2>1. Len(sent) \in Nat /\ Len(rcvd) \in Nat /\ pSeen \in Nat /\ cSeen \in Nat
    BY DEF Inv, TypeOK
  <2>2. QED
    BY <2>1, CapacityAssumption DEF Inv, ViewInv, SlotReuseOrdered
<1>2. QED
  BY <1>1, RingInvariant, PTL

\* A drain of a captured prefix never comes up empty.
THEOREM CapturedPrefixPops == Spec => []PrefixAlwaysPops
<1>1. Inv => PrefixAlwaysPops
  <2> SUFFICES ASSUME Inv, cpc = "check", prefix > 0 PROVE tail # cHead
    BY DEF PrefixAlwaysPops
  <2> DEFINE S == Len(sent)
             R == Len(rcvd)
  <2>1. /\ S \in Nat /\ R \in Nat /\ cSeen \in Nat /\ prefix \in Nat
        /\ prefix <= cSeen - R /\ cSeen <= S /\ S - R < Capacity
        /\ cHead = cSeen % Capacity /\ tail = R % Capacity
    <3>1. prefix \in Nat
      BY CapacityAssumption DEF Inv, TypeOK, Slots
    <3>2. QED
      BY <3>1 DEF Inv, TypeOK, IndexInv, ViewInv
  <2> HIDE DEF S, R
  <2>2. R < cSeen /\ cSeen < R + Capacity
    BY <2>1, CapacityAssumption
  <2>3. QED
    BY <2>1, <2>2, LapInjective
<1>2. QED
  BY <1>1, RingInvariant, PTL

\* What try_pop returned is what try_push published, in the same order.
THEOREM FirstInFirstOut == Spec => []ReceivedIsPrefix
<1>1. Inv => ReceivedIsPrefix
  BY DEF Inv, IndexInv, SlotInv, ReceivedIsPrefix
<1>2. QED
  BY <1>1, RingInvariant, PTL

\* The ring implements the bounded lossless channel: a publish is a send, a
\* release is a receive, and every other memory access is invisible.
THEOREM RingImplementsChannel == Spec => ImplementsChannel
<1>1. Init => Channel!Init
  BY DEF Init, Channel!Init
<1>2. Inv /\ [Next]_vars => [Channel!Next]_(Channel!vars)
  <2> SUFFICES ASSUME Inv, [Next]_vars PROVE [Channel!Next]_(Channel!vars)
    OBVIOUS
  <2>1. /\ Len(sent) \in Nat /\ Len(rcvd) \in Nat /\ pSeen \in Nat /\ cSeen \in Nat
        /\ TypeOK /\ IndexInv /\ ViewInv /\ SlotInv
    BY DEF Inv, TypeOK
  <2>2. CASE PushPublish
    <3>1. Len(sent) - Len(rcvd) < Capacity - 1
      BY <2>1, <2>2, CapacityAssumption DEF PushPublish, ViewInv
    <3>2. pItem \in Item
      BY <2>1, <2>2 DEF PushPublish, TypeOK
    <3>3. Channel!Send(pItem)
      BY <2>2, <3>1 DEF PushPublish, Channel!Send
    <3>4. QED
      BY <3>2, <3>3 DEF Channel!Next
  <2>3. CASE PopRelease
    <3>1. Len(rcvd) < Len(sent)
      BY <2>1, <2>3 DEF PopRelease, ViewInv
    <3>2. Channel!Receive
      BY <2>1, <2>3, <3>1 DEF PopRelease, SlotInv, Channel!Receive
    <3>3. QED
      BY <3>2 DEF Channel!Next
  <2>4. CASE sent' = sent /\ rcvd' = rcvd
    BY <2>4 DEF Channel!vars
  <2>5. QED
    BY <2>2, <2>3, <2>4
    DEF Next, Producer, Consumer, PushLoad, PushFull, PushRoom, PushWrite,
        CapturePrefix, PopLoad, PopEmpty, PopReady, PopTake, vars
<1>3. QED
  BY <1>1, <1>2, RingInvariant, PTL DEF Spec, ImplementsChannel, Channel!Spec
=============================================================================
