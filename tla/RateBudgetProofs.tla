-------------------------- MODULE RateBudgetProofs --------------------------
(***************************************************************************)
(* For every set of identities, quotas and intervals: no bucket is ever    *)
(* overdrawn, and a rejected request consumes nothing.                     *)
(***************************************************************************)
EXTENDS RateBudget, SumTheorems

(* A due bucket counts as full, so what it makes available is in 0..Quota. *)
LEMMA AvailableBounded ==
  ASSUME TypeOK, NEW k \in Configured
  PROVE  Available(k) \in Nat /\ Available(k) <= Quota[k]
BY QuotaAssumption DEF TypeOK, Available, Due

(* Charging keeps every bucket within its quota when those that pay have   *)
(* a request left; this is what examining both dimensions first ensures.   *)
LEMMA ChargeKeepsBounds ==
  ASSUME TypeOK, NEW looked, NEW charged,
         \A k \in charged \cap looked \cap Configured : Available(k) > 0,
         Charge(looked, charged), UNCHANGED now
  PROVE  /\ remaining' \in [Configured -> Nat]
         /\ \A k \in Configured : remaining'[k] <= Quota[k]
         /\ lastRefill' \in [Configured -> 0..now']
<1>1. ASSUME NEW k \in Configured
      PROVE  remaining'[k] \in Nat /\ remaining'[k] <= Quota[k]
  <2>1. Available(k) \in Nat /\ Available(k) <= Quota[k]
    BY AvailableBounded
  <2>2. remaining[k] \in Nat /\ remaining[k] <= Quota[k] /\ Quota[k] \in Nat
    BY QuotaAssumption DEF TypeOK
  <2>3. remaining'[k] = IF k \in looked
          THEN Available(k) - (IF k \in charged THEN 1 ELSE 0) ELSE remaining[k]
    BY DEF Charge
  <2> QED
    BY <2>1, <2>2, <2>3
<1>2. remaining' \in [Configured -> Nat]
  BY <1>1 DEF Charge
<1>3. lastRefill' \in [Configured -> 0..now']
  BY QuotaAssumption DEF Charge, TypeOK
<1> QED
  BY <1>1, <1>2, <1>3

(* Counting one more in a function of counters.                            *)
LEMMA CountOneMore ==
  ASSUME NEW S, NEW f \in [S -> Nat], NEW t \in S
  PROVE  [f EXCEPT ![t] = @ + 1] \in [S -> Nat]
<1>1. f[t] + 1 \in Nat
  OBVIOUS
<1> QED
  BY <1>1

(* Every request and every tick keeps the buckets within their bounds.     *)
LEMMA TypeInductive == TypeOK /\ [Next]_vars => TypeOK'
<1> SUFFICES ASSUME TypeOK, [Next]_vars PROVE TypeOK'
  OBVIOUS
<1>1. ASSUME NEW a \in Account, NEW e \in Egress, Admit(a, e)
      PROVE  TypeOK'
  <2>1. a \in Configured /\ e \in Configured /\ Available(a) > 0 /\ Available(e) > 0
    BY <1>1, AvailableBounded DEF Admit, Denies
  <2>2. admitted' \in [Configured -> [0..MaxTime -> Nat]]
    <3>1. ASSUME NEW k \in Configured
          PROVE  [admitted[k] EXCEPT ![now] = @ + 1] \in [0..MaxTime -> Nat]
      <4>1. admitted[k] \in [0..MaxTime -> Nat] /\ now \in 0..MaxTime
        BY DEF TypeOK
      <4> QED
        BY <4>1, CountOneMore, Zenon
    <3>2. admitted' = [k \in Configured |->
            IF k \in {a, e} THEN [admitted[k] EXCEPT ![now] = @ + 1] ELSE admitted[k]]
      BY <1>1 DEF Admit
    <3>3. \A k \in Configured : admitted[k] \in [0..MaxTime -> Nat]
      BY DEF TypeOK
    <3> QED
      BY <3>1, <3>2, <3>3
  <2> QED
    BY <1>1, <2>1, <2>2, ChargeKeepsBounds, Zenon DEF Admit, TypeOK
<1>2. ASSUME NEW a \in Account, RejectAccount(a)
      PROVE  TypeOK'
  BY <1>2, ChargeKeepsBounds DEF RejectAccount, TypeOK
<1>3. ASSUME NEW a \in Account, NEW e \in Egress, RejectEgress(a, e)
      PROVE  TypeOK'
  BY <1>3, ChargeKeepsBounds DEF RejectEgress, TypeOK
<1>4. CASE Tick
  BY <1>4, QuotaAssumption DEF Tick, TypeOK, buckets
<1>5. CASE UNCHANGED vars
  BY <1>5 DEF vars, buckets, TypeOK
<1> QED
  BY <1>1, <1>2, <1>3, <1>4, <1>5 DEF Next, Reject

(* The unsigned counter of a bucket is never decremented below zero, and   *)
(* no bucket exceeds its quota.                                            *)
THEOREM NeverOverdrawn == Spec => []TypeOK
<1>1. Init => TypeOK
  BY QuotaAssumption DEF Init, TypeOK
<1>2. QED
  BY <1>1, TypeInductive, PTL DEF Spec

(* Examining a bucket, even refilling it, leaves what it offers unchanged. *)
LEMMA ExaminingIsFree ==
  ASSUME TypeOK, NEW looked, Charge(looked, {}), UNCHANGED now,
         NEW k \in Configured
  PROVE  Available(k)' = Available(k)
<1>1. /\ remaining'[k] = IF k \in looked THEN Available(k) ELSE remaining[k]
      /\ lastRefill'[k] = IF k \in looked /\ Due(k) THEN now ELSE lastRefill[k]
  <2>1. Available(k) \in Nat
    BY AvailableBounded
  <2> QED
    BY <2>1 DEF Charge
<1>2. now \in Nat /\ lastRefill[k] \in Nat /\ Interval[k] \in Nat \ {0}
  BY QuotaAssumption DEF TypeOK
<1> QED
  BY <1>1, <1>2 DEF Available, Due

(* An admission shows in the history, so a step that leaves clock and      *)
(* history alone is a rejection.                                           *)
LEMMA AdmissionIsRecorded ==
  ASSUME TypeOK, NEW a \in Account, NEW e \in Egress, Admit(a, e)
  PROVE  admitted' # admitted
<1>1. a \in Configured
  BY DEF Admit, Denies
<1>2. admitted'[a][now] = admitted[a][now] + 1 /\ admitted[a][now] \in Nat
  BY <1>1, Zenon DEF Admit, TypeOK
<1> QED
  BY <1>2

(* Rejected requests consume neither dimension, as the module's heading    *)
(* promises, although a rejection by the egress may refill the account.    *)
THEOREM RejectionConsumesNothing == Spec => RejectionIsFree
<1>1. ASSUME TypeOK, [Next]_vars, now' = now, admitted' = admitted,
             NEW k \in Configured
      PROVE  Available(k)' = Available(k)
  <2>1. ASSUME NEW a \in Account, RejectAccount(a)
        PROVE  Available(k)' = Available(k)
    BY <1>1, <2>1, ExaminingIsFree DEF RejectAccount
  <2>2. ASSUME NEW a \in Account, NEW e \in Egress, RejectEgress(a, e)
        PROVE  Available(k)' = Available(k)
    BY <1>1, <2>2, ExaminingIsFree DEF RejectEgress
  <2>3. CASE Tick
    BY <1>1, <2>3 DEF Tick, TypeOK
  <2>4. CASE UNCHANGED vars
    BY <2>4 DEF vars, buckets, Available, Due
  <2> QED
    BY <1>1, <2>1, <2>2, <2>3, <2>4, AdmissionIsRecorded DEF Next, Reject
<1>2. TypeOK /\ [Next]_vars =>
        [now' = now /\ admitted' = admitted
           => \A k \in Configured : Available(k)' = Available(k)]_vars
  BY <1>1
<1> QED
  BY <1>2, NeverOverdrawn, PTL DEF Spec, RejectionIsFree

----------------------------------------------------------------------------
(* The pace of a bucket with quota q and interval i, at instant n, after   *)
(* the admissions A, a refill at instant l and r requests left.  What was  *)
(* admitted since the refill is what the quota lacks, an interval's worth  *)
(* of instants before it admitted at most a quota, and an admission is     *)
(* never later than the interval that the refill opened.                   *)
Instants == 0..MaxTime
Admissions(A, S) == SumFunctionOnSet(A, S \cap Instants)
Window(t, i) == t..(t + i - 1)

Paced(A, l, r, n, q, i) ==
  /\ \A t \in Instants : A[t] # 0 => t <= n /\ t < l + i
  /\ Admissions(A, l..MaxTime) = q - r
  /\ Admissions(A, Window(l - i, i)) <= q
  /\ \A t \in Instants : Admissions(A, Window(t, i)) <= 2 * q

PaceInv ==
  \A k \in Configured :
    Paced(admitted[k], lastRefill[k], remaining[k], now, Quota[k], Interval[k])

(* Admissions over instants are sums of naturals over finite sets.         *)
LEMMA AdmissionsFacts ==
  ASSUME NEW A \in [Instants -> Nat], NEW S
  PROVE  /\ IsFiniteSet(S \cap Instants)
         /\ \A x \in S \cap Instants : A[x] \in Nat
         /\ Admissions(A, S) \in Nat
<1>1. IsFiniteSet(Instants)
  BY FS_Interval, QuotaAssumption DEF Instants
<1>2. IsFiniteSet(S \cap Instants)
  BY <1>1, FS_Subset
<1>3. \A x \in S \cap Instants : A[x] \in Nat
  OBVIOUS
<1> QED
  BY <1>2, <1>3, SumType DEF Admissions

(* A larger window counts no fewer admissions.                             *)
LEMMA AdmissionsMonotone ==
  ASSUME NEW A \in [Instants -> Nat], NEW S, NEW T,
         S \cap Instants \subseteq T
  PROVE  Admissions(A, S) <= Admissions(A, T)
<1>1. S \cap Instants \subseteq T \cap Instants
  OBVIOUS
<1> QED
  BY <1>1, AdmissionsFacts, SumMonotone DEF Admissions

(* Disjoint windows count their admissions separately.                     *)
LEMMA AdmissionsDisjoint ==
  ASSUME NEW A \in [Instants -> Nat], NEW S, NEW T, S \cap T = {}
  PROVE  Admissions(A, S \cup T) = Admissions(A, S) + Admissions(A, T)
<1>1. /\ (S \cup T) \cap Instants = (S \cap Instants) \cup (T \cap Instants)
      /\ (S \cap Instants) \cap (T \cap Instants) = {}
  OBVIOUS
<1>2. \A x \in (S \cap Instants) \cup (T \cap Instants) : A[x] \in Nat
  OBVIOUS
<1> QED
  BY <1>1, <1>2, AdmissionsFacts, SumDisjoint DEF Admissions

(* Recording an admission counts one in the windows that hold its instant. *)
LEMMA AdmissionsCount ==
  ASSUME NEW A \in [Instants -> Nat], NEW n \in Instants, NEW S
  PROVE  Admissions([A EXCEPT ![n] = @ + 1], S)
           = Admissions(A, S) + (IF n \in S THEN 1 ELSE 0)
<1> DEFINE B == [A EXCEPT ![n] = @ + 1]
           D == S \cap Instants
<1>1. B[n] = A[n] + 1 /\ \A x \in Instants \ {n} : B[x] = A[x]
  OBVIOUS
<1>2. /\ IsFiniteSet(D) /\ \A x \in D : A[x] \in Nat /\ x \in Instants
      /\ SumFunctionOnSet(A, D) \in Nat
  BY AdmissionsFacts DEF Admissions
<1>3. n \in S <=> n \in D
  OBVIOUS
<1> HIDE DEF B, D
<1>4. CASE n \in S
  <2>1. SumFunctionOnSet(B, D) = SumFunctionOnSet(A, D) + 1
    BY <1>1, <1>2, <1>3, <1>4, SumBump
  <2> QED
    BY <1>4, <2>1 DEF Admissions, B, D
<1>5. CASE n \notin S
  <2>1. SumFunctionOnSet(B, D) = SumFunctionOnSet(A, D)
    <3>1. \A x \in D : A[x] \in Nat /\ B[x] = A[x]
      BY <1>1, <1>2, <1>3, <1>5
    <3> QED
      BY <1>2, <3>1, SumAgrees
  <2>2. SumFunctionOnSet(A, D) = SumFunctionOnSet(A, D) + 0
    BY <1>2
  <2> QED
    BY <1>5, <2>1, <2>2 DEF Admissions, B, D
<1> QED
  BY <1>4, <1>5

(* A refill of a due bucket opens an interval in which nothing has been    *)
(* admitted yet; the instants before it lie within the last one.           *)
LEMMA RefillPaced ==
  ASSUME NEW A \in [Instants -> Nat], NEW n \in Instants, NEW l \in 0..n,
         NEW q \in Nat, NEW r \in 0..q, NEW i \in Nat \ {0},
         Paced(A, l, r, n, q, i), n - l >= i
  PROVE  Paced(A, n, q, n, q, i)
<1>1. n \in Nat /\ MaxTime \in Nat /\ l \in Nat /\ r \in Nat
  BY QuotaAssumption DEF Instants
<1>2. Admissions(A, n..MaxTime) = 0
  <2>1. \A t \in (n..MaxTime) \cap Instants : A[t] = 0
    BY <1>1 DEF Paced, Instants
  <2> QED
    BY <2>1, AdmissionsFacts, SumZero DEF Admissions
<1>3. Admissions(A, Window(n - i, i)) <= q
  <2>1. Window(n - i, i) \cap Instants \subseteq l..MaxTime
    BY <1>1 DEF Window, Instants
  <2>2. Admissions(A, Window(n - i, i)) <= Admissions(A, l..MaxTime)
    BY <2>1, AdmissionsMonotone, Zenon
  <2>3. Admissions(A, Window(n - i, i)) \in Nat /\ Admissions(A, l..MaxTime) = q - r
    BY AdmissionsFacts, Zenon DEF Paced
  <2> QED
    BY <1>1, <2>2, <2>3
<1>4. \A t \in Instants : A[t] # 0 => t <= n /\ t < n + i
  BY <1>1 DEF Paced, Instants
<1> QED
  BY <1>1, <1>2, <1>3, <1>4 DEF Paced

(* An admission within the open interval: a window that holds the present  *)
(* instant reaches back at most into the interval before the last refill.  *)
LEMMA AdmitPaced ==
  ASSUME NEW A \in [Instants -> Nat], NEW n \in Instants, NEW l \in 0..n,
         NEW q \in Nat, NEW r \in 0..q, r > 0, NEW i \in Nat \ {0},
         Paced(A, l, r, n, q, i), n - l < i
  PROVE  Paced([A EXCEPT ![n] = @ + 1], l, r - 1, n, q, i)
<1> DEFINE B == [A EXCEPT ![n] = @ + 1]
<1>1. n \in Nat /\ MaxTime \in Nat /\ l \in Nat /\ r \in Nat /\ n <= MaxTime
  BY QuotaAssumption DEF Instants
<1>2. B \in [Instants -> Nat]
  BY CountOneMore
<1>3. ASSUME NEW S
      PROVE  /\ Admissions(B, S) = Admissions(A, S) + (IF n \in S THEN 1 ELSE 0)
             /\ Admissions(A, S) \in Nat /\ Admissions(B, S) \in Nat
  BY <1>2, AdmissionsCount, AdmissionsFacts, Zenon
<1>4. \A t \in Instants : B[t] # 0 => t <= n /\ t < l + i
  BY <1>1 DEF Paced, Instants
<1> HIDE DEF B
<1>5. Admissions(B, l..MaxTime) = q - (r - 1)
  <2>1. n \in l..MaxTime
    BY <1>1
  <2>2. Admissions(A, l..MaxTime) = q - r
    BY DEF Paced
  <2>3. Admissions(B, l..MaxTime) = Admissions(A, l..MaxTime) + 1
    BY <1>3, <2>1, Zenon
  <2> QED
    BY <1>1, <2>2, <2>3
<1>6. Admissions(B, Window(l - i, i)) <= q
  <2>1. n \notin Window(l - i, i)
    BY <1>1 DEF Window
  <2>2. Admissions(A, Window(l - i, i)) <= q
    BY DEF Paced
  <2> QED
    BY <1>3, <2>1, <2>2
<1>7. ASSUME NEW t \in Instants
      PROVE  Admissions(B, Window(t, i)) <= 2 * q
  <2>1. CASE n \notin Window(t, i)
    <3>1. Admissions(A, Window(t, i)) <= 2 * q
      BY DEF Paced
    <3> QED
      BY <1>3, <2>1, <3>1
  <2>2. CASE n \in Window(t, i)
    <3>1. Window(t, i) \cap Instants \subseteq Window(l - i, i) \cup (l..MaxTime)
      BY <1>1, <2>2 DEF Window, Instants
    <3>2. Window(l - i, i) \cap (l..MaxTime) = {}
      BY <1>1 DEF Window
    <3>3. Admissions(B, Window(t, i))
            <= Admissions(B, Window(l - i, i) \cup (l..MaxTime))
      BY <1>2, <3>1, AdmissionsMonotone
    <3>4. Admissions(B, Window(l - i, i) \cup (l..MaxTime))
            = Admissions(B, Window(l - i, i)) + Admissions(B, l..MaxTime)
      BY <1>2, <3>2, AdmissionsDisjoint, Zenon
    <3>5. q - (r - 1) <= q /\ q - (r - 1) \in Int
      BY <1>1
    <3>6. Admissions(B, Window(l - i, i)) \in Nat /\ Admissions(B, Window(t, i)) \in Nat
      BY <1>3
    <3> QED
      BY <1>5, <1>6, <3>3, <3>4, <3>5, <3>6
  <2> QED
    BY <2>1, <2>2
<1> QED
  BY <1>4, <1>5, <1>6, <1>7, Zenon DEF Paced, B

(* A request that finds the bucket due refills it before it pays.          *)
LEMMA LookPaced ==
  ASSUME TypeOK, NEW k \in Configured,
         Paced(admitted[k], lastRefill[k], remaining[k], now, Quota[k], Interval[k])
  PROVE  /\ Paced(admitted[k], IF Due(k) THEN now ELSE lastRefill[k],
                  Available(k), now, Quota[k], Interval[k])
         /\ now - (IF Due(k) THEN now ELSE lastRefill[k]) < Interval[k]
<1>1. /\ admitted[k] \in [Instants -> Nat] /\ now \in Instants
      /\ lastRefill[k] \in 0..now /\ remaining[k] \in 0..Quota[k]
      /\ Quota[k] \in Nat /\ Interval[k] \in Nat \ {0}
  BY QuotaAssumption DEF TypeOK, Instants
<1>2. now \in Nat /\ lastRefill[k] \in Nat
  BY QuotaAssumption DEF TypeOK
<1>3. CASE Due(k)
  <2>1. now - lastRefill[k] >= Interval[k]
    BY <1>3 DEF Due
  <2>2. Paced(admitted[k], now, Quota[k], now, Quota[k], Interval[k])
    BY <1>1, <2>1, RefillPaced
  <2>3. now - now < Interval[k]
    BY <1>1, <1>2
  <2> QED
    BY <1>3, <2>2, <2>3 DEF Available
<1>4. CASE ~Due(k)
  <2>1. now - lastRefill[k] < Interval[k]
    BY <1>1, <1>2, <1>4 DEF Due
  <2> QED
    BY <1>4, <2>1 DEF Available
<1> QED
  BY <1>3, <1>4

(* Every request keeps the pace of every bucket.                           *)
LEMMA ChargePaced ==
  ASSUME TypeOK, PaceInv, NEW looked, NEW charged, charged \subseteq looked,
         \A k \in charged \cap Configured : Available(k) > 0,
         Charge(looked, charged), UNCHANGED now,
         \A k \in Configured : admitted'[k] =
            IF k \in charged THEN [admitted[k] EXCEPT ![now] = @ + 1] ELSE admitted[k]
  PROVE  PaceInv'
<1> SUFFICES ASSUME NEW k \in Configured
             PROVE  Paced(admitted'[k], lastRefill'[k], remaining'[k], now,
                          Quota[k], Interval[k])
  BY DEF PaceInv
<1> DEFINE l == IF Due(k) THEN now ELSE lastRefill[k]
<1>1. Paced(admitted[k], lastRefill[k], remaining[k], now, Quota[k], Interval[k])
  BY DEF PaceInv
<1>2. Paced(admitted[k], l, Available(k), now, Quota[k], Interval[k]) /\ now - l < Interval[k]
  BY <1>1, LookPaced
<1>3. Available(k) \in 0..Quota[k] /\ Available(k) - 0 = Available(k)
  BY AvailableBounded, QuotaAssumption
<1>4. /\ admitted[k] \in [Instants -> Nat] /\ now \in Instants /\ l \in 0..now
      /\ Quota[k] \in Nat /\ Interval[k] \in Nat \ {0}
  BY QuotaAssumption DEF TypeOK, Instants
<1>5. CASE k \notin looked
  BY <1>1, <1>5, Zenon DEF Charge
<1>6. CASE k \in looked /\ k \notin charged
  <2>1. remaining'[k] = Available(k) /\ lastRefill'[k] = l /\ admitted'[k] = admitted[k]
    BY <1>3, <1>6, Zenon DEF Charge
  <2> QED
    BY <1>2, <2>1
<1>7. CASE k \in charged
  <2>1. /\ remaining'[k] = Available(k) - 1 /\ lastRefill'[k] = l
        /\ admitted'[k] = [admitted[k] EXCEPT ![now] = @ + 1] /\ Available(k) > 0
    BY <1>7 DEF Charge
  <2> HIDE DEF l
  <2>2. Paced([admitted[k] EXCEPT ![now] = @ + 1], l, Available(k) - 1, now,
              Quota[k], Interval[k])
    BY <1>2, <1>3, <1>4, <2>1, AdmitPaced
  <2> QED
    BY <2>1, <2>2
<1> QED
  BY <1>5, <1>6, <1>7

(* Admission and the clock keep the pace: a refill happens an interval     *)
(* after the last one and hands out one quota.                             *)
LEMMA PaceInductive == TypeOK /\ PaceInv /\ [Next]_vars => PaceInv'
<1> SUFFICES ASSUME TypeOK, PaceInv, [Next]_vars PROVE PaceInv'
  OBVIOUS
<1>1. ASSUME NEW a \in Account, NEW e \in Egress, Admit(a, e)
      PROVE  PaceInv'
  <2>1. Available(a) > 0 /\ Available(e) > 0
    BY <1>1, AvailableBounded DEF Admit, Denies
  <2>2. \A k \in {a, e} \cap Configured : Available(k) > 0
    BY <2>1
  <2> QED
    BY <1>1, <2>2, ChargePaced DEF Admit
<1>2. ASSUME NEW a \in Account, RejectAccount(a)
      PROVE  PaceInv'
  BY <1>2, ChargePaced DEF RejectAccount
<1>3. ASSUME NEW a \in Account, NEW e \in Egress, RejectEgress(a, e)
      PROVE  PaceInv'
  BY <1>3, ChargePaced DEF RejectEgress
<1>4. CASE Tick
  <2> SUFFICES ASSUME NEW k \in Configured
               PROVE  Paced(admitted[k], lastRefill[k], remaining[k], now + 1,
                            Quota[k], Interval[k])
    BY <1>4 DEF Tick, buckets, PaceInv
  <2>1. now \in Int /\ Instants \subseteq Int
    BY QuotaAssumption DEF TypeOK, Instants
  <2> QED
    BY <2>1 DEF PaceInv, Paced
<1>5. CASE UNCHANGED vars
  BY <1>5 DEF vars, buckets, PaceInv
<1> QED
  BY <1>1, <1>2, <1>3, <1>4, <1>5 DEF Next, Reject

(* Within any refill interval a venue sees at most twice a bucket's quota, *)
(* whatever the requests and whenever they look: a refill restores the     *)
(* quota from the moment of the request and never catches up.              *)
THEOREM AdmissionsArePaced == Spec => []PacedAdmissions
<1>1. Init => PaceInv
  <2> SUFFICES ASSUME Init, NEW k \in Configured
               PROVE  Paced(admitted[k], lastRefill[k], remaining[k], now,
                            Quota[k], Interval[k])
    BY DEF PaceInv
  <2>1. /\ admitted[k] = [t \in Instants |-> 0] /\ lastRefill[k] = 0
        /\ remaining[k] = Quota[k] /\ Quota[k] \in Nat
    BY QuotaAssumption DEF Init, Instants
  <2>2. admitted[k] \in [Instants -> Nat]
    BY <2>1
  <2>3. ASSUME NEW S PROVE Admissions(admitted[k], S) = 0
    BY <2>1, <2>2, AdmissionsFacts, SumZero, Zenon DEF Admissions
  <2>4. Quota[k] - Quota[k] = 0 /\ 0 <= Quota[k] /\ 0 <= 2 * Quota[k]
    BY <2>1
  <2>5. \A t \in Instants : admitted[k][t] = 0
    BY <2>1
  <2> QED
    BY <2>1, <2>3, <2>4, <2>5 DEF Paced
<1>2. TypeOK /\ PaceInv => PacedAdmissions
  <2> SUFFICES ASSUME PaceInv, NEW k \in Configured, NEW t \in 0..MaxTime
               PROVE  Burst(k, t) <= 2 * Quota[k]
    BY DEF PacedAdmissions
  <2>1. Burst(k, t) = Admissions(admitted[k], Window(t, Interval[k]))
    BY DEF Burst, Admissions, Window, Instants
  <2> QED
    BY <2>1 DEF PaceInv, Paced, Instants
<1> QED
  BY <1>1, <1>2, NeverOverdrawn, PaceInductive, PTL DEF Spec
====
