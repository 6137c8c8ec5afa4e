-------------------------- MODULE MCCollectorSpool --------------------------
(* One run over four scenarios: a restart, a file operation that fails and *)
(* answers of the database that get lost, each with two sessions whose     *)
(* flushes fail, and more batches of one session than the directory holds. *)
(* The scenario is chosen at the start and only bounds what fails and      *)
(* which session has data.                                                 *)
EXTENDS CollectorSpool

CONSTANTS s1, s2, b1, b2, b3

VARIABLE scenario

Bounds ==
  [restart |-> [crashes |-> 1, errors |-> 0, parts |-> TRUE, taken |-> FALSE,
                batches |-> {b1, b2}, sessions |-> {s1, s2}],
   error   |-> [crashes |-> 0, errors |-> 1, parts |-> FALSE, taken |-> FALSE,
                batches |-> {b1, b2}, sessions |-> {s1, s2}],
   answer  |-> [crashes |-> 0, errors |-> 0, parts |-> TRUE, taken |-> TRUE,
                batches |-> {b1, b2}, sessions |-> {s1, s2}],
   limit   |-> [crashes |-> 1, errors |-> 1, parts |-> FALSE, taken |-> FALSE,
                batches |-> {b1, b2, b3}, sessions |-> {s1}]]

Bounded(A) ==
  /\ A /\ UNCHANGED scenario
  /\ LET b == Bounds[scenario]
     IN /\ crashes' <= b.crashes /\ errors' <= b.errors
        /\ b.parts \/ part' = {}
        /\ b.taken \/ db' = db \/ \E s \in Session : task[s].step = "replay" /\ task'[s].step = "drain"
        /\ \A s \in Session : task'[s].batch \subseteq b.batches
        /\ \A s \in Session \ b.sessions : task'[s] = Idle

MCInit == Init /\ scenario \in DOMAIN Bounds

MCNext == Bounded(Next)

(* The fairness of LiveSpec, for the sessions that have data.              *)
MCLiveSpec ==
  /\ MCInit /\ [][MCNext]_<<vars, scenario>>
  /\ \A s \in Session : WF_vars(Bounded(Step(s)))
  /\ WF_vars(Expire)
====
