---------------------------- MODULE MCRateBudget ----------------------------
(* Two accounts share one egress; the quotas and intervals differ, and one *)
(* account and one egress have no bucket.                                  *)
EXTENDS RateBudget, TLC

CONSTANTS a1, a2, aX, e1, eX

MCAccount == {a1, a2, aX}
MCEgress == {e1, eX}
MCConfigured == {a1, a2, e1}
MCQuota == a1 :> 1 @@ a2 :> 2 @@ e1 :> 2
MCInterval == a1 :> 2 @@ a2 :> 3 @@ e1 :> 2
====
