----------------------------- MODULE ReportQueue -----------------------------
(***************************************************************************)
(* The report queue from the execution worker to the engine.  The worker   *)
(* must not lose a report: when the ring is full it parks on the engine's  *)
(* event_space notification, without a timeout.  The engine drains the     *)
(* ring in bounded batches and notifies once per batch that took something.*)
(* The ring is the channel of module FifoChannel, which SpscRing shows the *)
(* code to implement.                                                      *)
(*                                                                         *)
(* A notification (tokio's Notify) wakes the task that is parked on it; if *)
(* there is none it leaves one permit, which the next wait consumes.       *)
(***************************************************************************)
EXTENDS Naturals, Sequences

CONSTANTS
  Bound,       \* reports the ring holds
  Limit,       \* reports the engine takes per batch
  MaxReports   \* bound: reports the worker sends

ASSUME QueueAssumption ==
  Bound \in Nat \ {0} /\ Limit \in Nat \ {0} /\ MaxReports \in Nat

VARIABLES
  sent, rcvd,  \* the ring: what went in and what came out
  produced,    \* reports the worker has handed to send_report_reliable
  spc,         \* where the worker is in send_report_reliable
  permit,      \* the permit of event_space_notify
  epc,         \* where the engine task is
  taken        \* reports taken in the engine's current batch

ring   == <<sent, rcvd>>
sender == <<produced, spc>>
engine == <<epc, taken>>
vars   == <<ring, sender, permit, engine>>

Ring == INSTANCE FifoChannel WITH Item <- 1..MaxReports

Full == Len(sent) - Len(rcvd) >= Bound

----------------------------------------------------------------------------
(* The worker.                                                             *)

Report ==
  /\ spc = "idle" /\ spc' = "send"
  /\ produced < MaxReports /\ produced' = produced + 1
  /\ UNCHANGED <<ring, permit, engine>>

SendReport ==
  /\ spc = "send" /\ spc' = "idle"
  /\ Ring!Send(produced)
  /\ UNCHANGED <<produced, permit, engine>>

QueueFull ==
  /\ spc = "send" /\ Full /\ spc' = "full"
  /\ UNCHANGED <<ring, produced, permit, engine>>

(* notified().await: take the permit if there is one, else park.           *)
AwaitSpace ==
  /\ spc = "full"
  /\ spc' = IF permit THEN "send" ELSE "parked"
  /\ permit' = FALSE
  /\ UNCHANGED <<ring, produced, engine>>

----------------------------------------------------------------------------
(* The engine: asleep until a notification or, at the latest, its backoff  *)
(* timer; then one batch per tick until a tick has nothing to do or fails. *)

WakeUp ==
  /\ epc = "asleep" /\ epc' = "drain"
  /\ UNCHANGED <<ring, sender, permit, taken>>

TakeReport ==
  /\ epc = "drain" /\ taken < Limit
  /\ Ring!Receive
  /\ taken' = taken + 1
  /\ UNCHANGED <<sender, permit, epc>>

BatchEnds ==
  /\ epc = "drain" /\ (taken = Limit \/ Len(rcvd) = Len(sent))
  /\ taken' = 0
  /\ epc' \in IF taken = 0 THEN {"asleep"} ELSE {"drain", "asleep"}

MutantNotifySpace ==
  IF taken > 0 /\ spc = "parked"
    THEN spc' = "send" /\ UNCHANGED permit
    ELSE UNCHANGED <<spc, permit>>

(* notify_one, after a batch that made room.                               *)
NotifySpace ==
  IF taken = 0 THEN UNCHANGED <<spc, permit>>
  ELSE IF spc = "parked" THEN spc' = "send" /\ UNCHANGED permit
  ELSE permit' = TRUE /\ UNCHANGED spc

FinishBatch == BatchEnds /\ NotifySpace /\ UNCHANGED <<ring, produced>>

----------------------------------------------------------------------------
Init ==
  /\ Ring!Init
  /\ produced = 0 /\ spc = "idle" /\ permit = FALSE
  /\ epc = "asleep" /\ taken = 0

Worker == SendReport \/ QueueFull \/ AwaitSpace
Engine == WakeUp \/ TakeReport \/ FinishBatch
Next == Report \/ Worker \/ Engine

Spec == Init /\ [][Next]_vars

(* Both tasks are scheduled; whether a report arises is up to the venue.   *)
FairSpec == Spec /\ WF_vars(Worker) /\ WF_vars(Engine)

----------------------------------------------------------------------------
(* Type invariant of the queue and its two tasks.                          *)
TypeOK ==
  /\ sent \in Seq(1..MaxReports) /\ rcvd \in Seq(1..MaxReports)
  /\ produced \in 0..MaxReports
  /\ spc \in {"idle", "send", "full", "parked"}
  /\ permit \in BOOLEAN
  /\ epc \in {"asleep", "drain"} /\ taken \in 0..Limit

(* A parked worker is never forgotten: either the ring is full, or the     *)
(* engine is in a batch at whose end it notifies.                          *)
NoLostWakeup == spc = "parked" => Full \/ (epc = "drain" /\ taken > 0)

(* Every report is in the ring, received, or in the worker's hands, in the *)
(* order of production: backpressure drops and reorders nothing.           *)
Lossless ==
  /\ Len(sent) = produced - (IF spc = "idle" THEN 0 ELSE 1)
  /\ Len(rcvd) <= Len(sent)
  /\ \A k \in 1..Len(sent) : sent[k] = k
  /\ \A k \in 1..Len(rcvd) : rcvd[k] = k

(* Every report the worker sends reaches the engine.                       *)
EveryReportArrives ==
  \A n \in 1..MaxReports : produced >= n ~> Len(rcvd) >= n
====
