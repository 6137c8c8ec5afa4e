-------------------------- MODULE MCCanonicalBooks --------------------------
(* One run over three scenarios: reports of two clients whose ids collide, *)
(* an amended order with two fills and a fee, and a crash between the      *)
(* checkpoints.  The scenario is chosen at the start and only bounds what  *)
(* the callers, the venue and the crashes do.                              *)
EXTENDS CanonicalBooks, TLC

CONSTANTS a, b, v, f1, f2

VARIABLE scenario

(* The venue's id for b's order is also a's client id.                     *)
CollidingIds == a :> v @@ b :> a
MixedQty == a :> 2 @@ b :> 1
UnitFills == [f \in Fill |-> 1]

Acknowledged == \E report \in sent : report[1] = "ack"

WithinBounds ==
  CASE scenario = "reports" ->
         /\ crashes = 0 /\ amends = 0 /\ ~Acknowledged
         /\ venue[a].fills = {} /\ venue[b].fills \subseteq {f2}
    [] scenario = "amendments" ->
         crashes = 0 /\ intent[b] = "idle"
    [] scenario = "restart" ->
         /\ amends = 0 /\ ~Acknowledged
         /\ venue[a].fills \subseteq {f2} /\ intent[b] = "idle"

MCInit == Init /\ scenario \in {"reports", "amendments", "restart"}

MCNext ==
  /\ Next
  /\ scenario # "restart" => UNCHANGED disk
  /\ UNCHANGED scenario
  /\ WithinBounds'

(* The fairness of LiveSpec, for the fills that the scenarios allow.       *)
MCLiveSpec ==
  /\ MCInit /\ [][MCNext]_<<vars, scenario>>
  /\ WF_vars(ApplyWorkerReport)
  /\ \A c \in Client : WF_vars(Submit(c))
  /\ WF_vars(FirstDelivery(<<"fill", v, f1>>))
  /\ \A c \in Client : WF_vars(FirstDelivery(<<"fill", VenueId[c], f2>>))
====
