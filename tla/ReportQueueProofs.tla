-------------------------- MODULE ReportQueueProofs --------------------------
(***************************************************************************)
(* For every ring size, batch limit and number of reports: backpressure    *)
(* loses nothing, and a worker parked on a full ring is never forgotten.   *)
(***************************************************************************)
EXTENDS ReportQueue, TLAPS

USE DEF Ring!Init, Ring!Send, Ring!Receive, ring, sender, engine, vars

(* NoLostWakeup is not inductive: between the refused send and the wait a  *)
(* whole batch may pass, whose notification is then kept as the permit.    *)
WakeupKept ==
  spc \in {"full", "parked"} =>
    \/ Full
    \/ epc = "drain" /\ taken > 0
    \/ spc = "full" /\ permit

(* A step keeps the types; a report is sent only once it was produced.     *)
LEMMA TypeInductive ==
  ASSUME TypeOK, Lossless, [Next]_vars PROVE TypeOK'
<1> USE QueueAssumption DEF TypeOK
<1>1. CASE Report
  BY <1>1 DEF Report
<1>2. CASE SendReport
  <2>1. produced \in 1..MaxReports
    BY <1>2 DEF SendReport, Lossless
  <2> QED
    BY <1>2, <2>1 DEF SendReport
<1>3. CASE QueueFull
  BY <1>3 DEF QueueFull
<1>4. CASE AwaitSpace
  BY <1>4, Zenon DEF AwaitSpace
<1>5. CASE WakeUp
  BY <1>5 DEF WakeUp
<1>6. CASE TakeReport
  BY <1>6 DEF TakeReport
<1>7. CASE FinishBatch
  <2>1. taken' = 0 /\ epc' \in {"asleep", "drain"} /\ UNCHANGED <<ring, produced>>
    BY <1>7 DEF FinishBatch, BatchEnds
  <2>2. spc' \in {"idle", "send", "full", "parked"} /\ permit' \in BOOLEAN
    BY <1>7, Zenon DEF FinishBatch, NotifySpace
  <2> QED
    BY <2>1, <2>2
<1>8. CASE UNCHANGED vars
  BY <1>8
<1> QED
  BY <1>1, <1>2, <1>3, <1>4, <1>5, <1>6, <1>7, <1>8 DEF Next, Worker, Engine

(* Send and receive extend the two histories by the next report.           *)
LEMMA LosslessInductive ==
  ASSUME TypeOK, Lossless, [Next]_vars PROVE Lossless'
<1> USE DEF Lossless, TypeOK
<1>1. CASE Report
  BY <1>1 DEF Report
<1>2. CASE SendReport
  BY <1>2 DEF SendReport
<1>3. CASE QueueFull
  BY <1>3 DEF QueueFull
<1>4. CASE AwaitSpace
  BY <1>4 DEF AwaitSpace
<1>5. CASE WakeUp
  BY <1>5 DEF WakeUp
<1>6. CASE TakeReport
  BY <1>6 DEF TakeReport
<1>7. CASE FinishBatch
  <2>1. UNCHANGED <<ring, produced>> /\ (spc' = "idle" <=> spc = "idle")
    BY <1>7 DEF FinishBatch, NotifySpace
  <2> QED
    BY <2>1
<1>8. CASE UNCHANGED vars
  BY <1>8
<1> QED
  BY <1>1, <1>2, <1>3, <1>4, <1>5, <1>6, <1>7, <1>8 DEF Next, Worker, Engine

(* The batch that takes from a full ring owes a notification until it ends.*)
LEMMA WakeupInductive ==
  ASSUME TypeOK, WakeupKept, [Next]_vars PROVE WakeupKept'
<1> USE DEF WakeupKept, TypeOK, Full
<1>1. CASE Report
  BY <1>1 DEF Report
<1>2. CASE SendReport
  BY <1>2 DEF SendReport
<1>3. CASE QueueFull
  BY <1>3 DEF QueueFull
<1>4. CASE AwaitSpace
  BY <1>4 DEF AwaitSpace
<1>5. CASE WakeUp
  BY <1>5 DEF WakeUp
<1>6. CASE TakeReport
  BY <1>6 DEF TakeReport
<1>7. CASE FinishBatch
  BY <1>7 DEF FinishBatch, BatchEnds, NotifySpace
<1>8. CASE UNCHANGED vars
  BY <1>8
<1> QED
  BY <1>1, <1>2, <1>3, <1>4, <1>5, <1>6, <1>7, <1>8 DEF Next, Worker, Engine

QueueInv == TypeOK /\ Lossless /\ WakeupKept

(* The inductive invariant of the queue.                                   *)
THEOREM QueueInvariant == Spec => []QueueInv
<1>1. Init => QueueInv
  <2> SUFFICES ASSUME Init PROVE QueueInv
    OBVIOUS
  <2>1. permit \in BOOLEAN
    BY Zenon DEF Init
  <2> QED
    BY <2>1, QueueAssumption DEF Init, QueueInv, TypeOK, Lossless, WakeupKept
<1>2. QueueInv /\ [Next]_vars => QueueInv'
  BY TypeInductive, LosslessInductive, WakeupInductive DEF QueueInv
<1> QED
  BY <1>1, <1>2, PTL DEF Spec

(* send_report_reliable drops, repeats and reorders no report, whatever    *)
(* the queue size and the engine's batch limit.                            *)
THEOREM NothingIsLost == Spec => []Lossless
<1>1. QueueInv => Lossless
  BY DEF QueueInv
<1> QED
  BY <1>1, QueueInvariant, PTL

(* A worker parked in send_report_reliable always has a full ring or a     *)
(* batch of drain_reports ahead of it that will notify it.                 *)
THEOREM WakeupNotLost == Spec => []NoLostWakeup
<1>1. QueueInv => NoLostWakeup
  BY DEF QueueInv, WakeupKept, NoLostWakeup
<1> QED
  BY <1>1, QueueInvariant, PTL
====
