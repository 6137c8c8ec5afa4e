------------------------- MODULE MCExecutionWorker -------------------------
(* One run over four scenarios of the execution worker, told apart by the  *)
(* bounds they use up: a command around the placement of an intent, a      *)
(* command around a recovery, two generations of a private stream, and an  *)
(* intent FIFO longer than a batch.                                        *)
(* The scenario is chosen at the start; the last two have no emergency.    *)
EXTENDS ExecutionWorker

VARIABLE scenario

FirstIntent == CHOOSE i \in Intent : TRUE

(* Intents are interchangeable, so they are enqueued in a fixed order.     *)
Bounds ==
  [commands |-> [intents |-> {{}, {FirstIntent}}, emergency |-> BOOLEAN,
                 streams |-> 0, events |-> 1, commands |-> 1],
   recovery |-> [intents |-> {{}}, emergency |-> BOOLEAN,
                 streams |-> 0, events |-> 2, commands |-> 1],
   streams  |-> [intents |-> {{}, {FirstIntent}}, emergency |-> {FALSE},
                 streams |-> 2, events |-> 3, commands |-> 0],
   backlog  |-> [intents |-> {{}, {FirstIntent}, Intent}, emergency |-> {FALSE},
                 streams |-> 0, events |-> 2, commands |-> 0]]

WithinBounds ==
  LET b == Bounds[scenario]
  IN /\ Undecided \cup submitted \cup rejected \in b.intents
     /\ w.emergency \in b.emergency
     /\ streams <= b.streams
     /\ events <= b.events
     /\ Len(replies) <= b.commands

MCInit == Init /\ scenario \in DOMAIN Bounds

MCNext == Next /\ UNCHANGED scenario /\ WithinBounds'

(* The fairness of FairSpec: each of its actions keeps a step within the   *)
(* bounds, because a poll may also end without an event.                   *)
MCFairSpec ==
  /\ MCInit /\ [][MCNext]_<<vars, scenario>>
  /\ WF_vars(Loop) /\ WF_vars(EngineReports) /\ SF_vars(RecoveryPass)
====
