----------------------------- MODULE RateBudget -----------------------------
(***************************************************************************)
(* The admission budgets of the execution worker.  An order is charged to  *)
(* two buckets at once, one of its account and one of its egress identity; *)
(* a bucket is refilled to its full quota when a request finds that its    *)
(* interval has passed.  Venue, product and operation are part of a        *)
(* bucket's key and are folded into its identity here.                     *)
(***************************************************************************)
EXTENDS Integers, Functions

CONSTANTS
  Account, Egress,  \* the identities a request may name
  Configured,       \* those that have a bucket
  Quota,            \* max_requests of each bucket
  Interval,         \* refill_interval of each bucket
  MaxTime           \* bound: how long the clock runs

ASSUME ScopeAssumption ==
  Account \cap Egress = {} /\ Configured \subseteq Account \cup Egress

ASSUME QuotaAssumption ==
  /\ Quota \in [Configured -> Nat \ {0}]
  /\ Interval \in [Configured -> Nat \ {0}]
  /\ MaxTime \in Nat

VARIABLES
  remaining,   \* requests a bucket still admits
  lastRefill,  \* when it was last refilled
  now,         \* the monotonic clock
  admitted     \* history: requests admitted per bucket and instant

buckets == <<remaining, lastRefill>>
vars == <<buckets, now, admitted>>

Due(k) == now - lastRefill[k] >= Interval[k]

(* What the bucket holds once a request at this instant has looked at it.  *)
Available(k) == IF Due(k) THEN Quota[k] ELSE remaining[k]

(* A dimension that is not configured denies, like an exhausted one.       *)
Denies(k) == k \in Configured => Available(k) = 0

MutantCharge(looked, charged) ==
  /\ remaining' = [k \in Configured |->
       IF k \in looked
         THEN Available(k) - (IF k \in charged THEN 1 ELSE 0) ELSE remaining[k]]
  /\ lastRefill' = [k \in Configured |->
       IF k \in looked /\ Due(k) THEN lastRefill[k] + Interval[k] ELSE lastRefill[k]]

(* The buckets in `looked` are refilled if due, those in `charged` pay.    *)
Charge(looked, charged) ==
  /\ remaining' = [k \in Configured |->
       IF k \in looked
         THEN Available(k) - (IF k \in charged THEN 1 ELSE 0) ELSE remaining[k]]
  /\ lastRefill' = [k \in Configured |->
       IF k \in looked /\ Due(k) THEN now ELSE lastRefill[k]]

MutantRejectEgress(a, e) ==
  /\ ~Denies(a) /\ Denies(e)
  /\ Charge({a, e} \cap Configured, {a})
  /\ UNCHANGED <<now, admitted>>

(* The account is examined first; its refusal leaves the egress untouched. *)
RejectAccount(a) ==
  /\ Denies(a)
  /\ Charge({a} \cap Configured, {})
  /\ UNCHANGED <<now, admitted>>

RejectEgress(a, e) ==
  /\ ~Denies(a) /\ Denies(e)
  /\ Charge({a, e} \cap Configured, {})
  /\ UNCHANGED <<now, admitted>>

Admit(a, e) ==
  /\ ~Denies(a) /\ ~Denies(e)
  /\ Charge({a, e}, {a, e})
  /\ admitted' = [k \in Configured |->
       IF k \in {a, e} THEN [admitted[k] EXCEPT ![now] = @ + 1] ELSE admitted[k]]
  /\ UNCHANGED now

Tick == now < MaxTime /\ now' = now + 1 /\ UNCHANGED <<buckets, admitted>>

Init ==
  /\ remaining = Quota
  /\ lastRefill = [k \in Configured |-> 0]
  /\ now = 0
  /\ admitted = [k \in Configured |-> [t \in 0..MaxTime |-> 0]]

Reject ==
  \/ \E a \in Account : RejectAccount(a)
  \/ \E a \in Account, e \in Egress : RejectEgress(a, e)

Next ==
  \/ \E a \in Account, e \in Egress : Admit(a, e)
  \/ Reject
  \/ Tick

Spec == Init /\ [][Next]_vars

----------------------------------------------------------------------------
(* No bucket ever counts below zero (the counter is unsigned) or above its *)
(* quota, and no refill is in the future.                                  *)
TypeOK ==
  /\ remaining \in [Configured -> Nat]
  /\ \A k \in Configured : remaining[k] <= Quota[k]
  /\ now \in 0..MaxTime
  /\ lastRefill \in [Configured -> 0..now]
  /\ admitted \in [Configured -> [0..MaxTime -> Nat]]

(* Requests a bucket admitted from instant t on, within one interval.      *)
Burst(k, t) ==
  SumFunctionOnSet(admitted[k], t..(t + Interval[k] - 1) \cap 0..MaxTime)

(* Within any refill interval a venue sees at most twice the quota of a    *)
(* bucket: refills are never caught up in a burst.                         *)
PacedAdmissions ==
  \A k \in Configured, t \in 0..MaxTime : Burst(k, t) <= 2 * Quota[k]

(* A rejected request consumes neither dimension: what a later request     *)
(* finds available is what it would have found without it.                 *)
RejectionIsFree ==
  [][now' = now /\ admitted' = admitted
       => \A k \in Configured : Available(k)' = Available(k)]_vars
====
