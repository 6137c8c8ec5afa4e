----------------------- MODULE ExecutionControlProofs -----------------------
(***************************************************************************)
(* The control plane over the execution worker, for every set of clients,  *)
(* intents and ungated commands and for every bound.                       *)
(*                                                                         *)
(* First, the control plane only drives the worker through its queues:     *)
(* ControlSpec implements Spec, so what is proved of the worker holds      *)
(* here.  Then the worker's queues: an intent is in one place only, and a  *)
(* report that settles an intent is sent after it was decided.  Last, the  *)
(* control plane's own invariant, which follows the closing and enabling   *)
(* commands through the FIFO.                                              *)
(***************************************************************************)
EXTENDS ExecutionControl, ExecutionWorkerProofs

-----------------------------------------------------------------------------
(* Every step of the control plane is a step of the worker's specification *)
(* or leaves the worker and its queues alone.                              *)

LEMMA PostIsNext ==
  ASSUME NEW kind \in CommandKind, PostCommand(kind), UNCHANGED workerVars
  PROVE  Next
<1>1. SendCommand(kind)
  BY DEF SendCommand, workerVars
<1>2. QED
  BY <1>1 DEF Next, Neighbours

LEMMA StayIsStutter ==
  ASSUME UNCHANGED <<workerVars, channelVars>>
  PROVE  UNCHANGED vars
BY DEF workerVars, channelVars, vars

LEMMA PauseIsNext ==
  ASSUME PauseTrading, UNCHANGED workerVars
  PROVE  [Next]_vars
<1>1. "intake_off" \in CommandKind
  BY DEF CommandKind
<1>2. QED
  BY <1>1, PostIsNext, StayIsStutter DEF PauseTrading

LEMMA ApplyIsNext ==
  ASSUME NEW n \in 1..Len(reports), NEW failed, NEW doubt,
         ApplyReports(n, failed, doubt)
  PROVE  Next
<1>1. \E fault \in BOOLEAN : DrainReports(n, fault)
  BY Zenon DEF ApplyReports
<1>2. UNCHANGED <<control, replies>> \/ PostCommand("intake_off")
  BY DEF ApplyReports, PauseTrading, channelVars
<1>3. EngineReports
  BY <1>1, <1>2 DEF EngineReports
<1>4. QED
  BY <1>3 DEF Next, Neighbours

LEMMA SendIsNext ==
  ASSUME NEW kind \in CommandKind, NEW from, NEW next, Send(from, kind, next)
  PROVE  Next
BY PostIsNext DEF Send

LEMMA OperationIsNext ==
  ASSUME Operation
  PROVE  [Next]_vars
<1>1. CASE BeginPause \/ BeginResume \/ BeginReconcile
  BY <1>1, StayIsStutter DEF BeginPause, BeginResume, BeginReconcile, Begin
<1>2. CASE BeginEmergency
  <2>1. "intake_off" \in CommandKind
    BY DEF CommandKind
  <2>2. QED
    BY <1>2, <2>1, PostIsNext DEF BeginEmergency
<1>3. CASE EnterDegrade \/ ResumeCommit
  BY <1>3, StayIsStutter DEF EnterDegrade, ResumeCommit
<1>4. CASE PauseEngine \/ ResumeAbort
  BY <1>4, PauseIsNext DEF PauseEngine, ResumeAbort
<1>5. CASE SendPause \/ SendEmergency \/ SendSnapshot \/ SendAbort \/ SendResume
  <2>1. {"intake_off", "emergency", "reconcile", "intake_on"} \subseteq CommandKind
    BY DEF CommandKind
  <2>2. QED
    BY <1>5, <2>1, SendIsNext
       DEF SendPause, SendEmergency, SendSnapshot, SendAbort, SendResume
<1>6. CASE PauseReturns \/ EmergencyReturns \/ SnapshotReturns \/ AbortReturns
           \/ ResumeGranted \/ ResumeRefused
  BY <1>6, StayIsStutter
     DEF PauseReturns, EmergencyReturns, SnapshotReturns, AbortReturns,
         ResumeGranted, ResumeRefused, Replied
<1>7. CASE ReplyTimeout \/ ResumeRejected \/ CompareSnapshot
  BY <1>7, StayIsStutter DEF ReplyTimeout, ResumeRejected, CompareSnapshot
<1>8. CASE DrainPausePrefix
  <2>1. CASE UNCHANGED <<workerVars, channelVars>>
    BY <2>1, StayIsStutter
  <2>2. ASSUME NEW failed, NEW doubt, ApplyReports(Len(reports), failed, doubt)
        PROVE  Next
    BY <2>2, ApplyIsNext, Zenon DEF ApplyReports, DrainReports
  <2>3. QED
    BY <1>8, <2>1, <2>2 DEF DrainPausePrefix
<1>9. QED
  BY <1>1, <1>2, <1>3, <1>4, <1>5, <1>6, <1>7, <1>8 DEF Operation

LEMMA ControlIsNext ==
  ASSUME [ControlNext]_allVars
  PROVE  [Next]_vars
<1>1. CASE Operation
  BY <1>1, OperationIsNext
<1>2. ASSUME NEW i \in Intent, Enqueue(i)
      PROVE  Next
  BY <1>2 DEF Enqueue, Next, Neighbours
<1>3. CASE EngineDrain
  BY <1>3, ApplyIsNext DEF EngineDrain
<1>4. CASE EnginePause
  BY <1>4, PauseIsNext DEF EnginePause
<1>5. CASE ImportCheckpoint
  BY <1>5 DEF ImportCheckpoint, Next, Neighbours
<1>6. CASE UngatedCommand
  <2>1. PICK kind \in Ungated : SendCommand(kind)
    BY <1>6 DEF UngatedCommand
  <2>2. kind \in CommandKind
    BY UngatedAssumption DEF CommandKind
  <2>3. QED
    BY <2>1, <2>2 DEF Next, Neighbours
<1>7. CASE Worker
  BY <1>7 DEF Next
<1>8. CASE UNCHANGED allVars
  BY <1>8 DEF allVars
<1>9. QED
  BY <1>1, <1>2, <1>3, <1>4, <1>5, <1>6, <1>7, <1>8 DEF ControlNext, Engine

(* The control plane implements the specification of the worker: the       *)
(* handle, its timeouts and the engine's own pauses reach the worker only  *)
(* through the command FIFO, the intent FIFO and the report FIFO.          *)
THEOREM ControlImplementsWorker == ControlSpec => Spec
<1>1. ControlInit => Init
  BY DEF ControlInit
<1>2. [ControlNext]_allVars => [Next]_vars
  BY ControlIsNext
<1>3. QED
  BY <1>1, <1>2, PTL DEF ControlSpec, Spec

-----------------------------------------------------------------------------
(* The worker's queues.                                                    *)

Distinct(q) == \A m, n \in DOMAIN q : q[m] = q[n] => m = n

(* The reports in rs that settle an intent are about members of D.         *)
Told(rs, D) ==
  \A k \in DOMAIN rs : rs[k].kind \in {"new", "unsent"} => rs[k].intent \in D

(* Places of the loop where no batch is being worked on.                   *)
Resting == {"retry", "receive", "timeouts", "reconcile", "idle"}

(* An intent waits in one place only and is reported once it is decided.   *)
QueueInv ==
  /\ Distinct(ring) /\ Distinct(batch)
  /\ Range(ring) \cap (Range(batch) \cup submitted \cup rejected) = {}
  /\ Range(batch) \cap rejected = {}
  /\ wpc = "placing" => Head(batch) \in submitted
  /\ wpc \in Resting => batch = <<>>
  /\ Told(reports, submitted \cup rejected)

(* The intents ever enqueued.                                              *)
Known == Range(ring) \cup Range(batch) \cup submitted \cup rejected

(* What every step but an enqueue does to the queues.                      *)
Settles == QueueInv' /\ Known \subseteq Known' /\ Undecided' \subseteq Undecided

LEMMA EmptyRange == Range(<<>>) = {} /\ Distinct(<<>>)
BY DEF Range, Distinct

LEMMA HeadApart ==
  ASSUME NEW q \in Seq(Intent), q # <<>>, Distinct(q)
  PROVE  /\ Range(q) = {Head(q)} \cup Range(Tail(q))
         /\ Head(q) \notin Range(Tail(q))
         /\ Distinct(Tail(q))
<1>1. /\ Len(q) \in Nat \ {0} /\ Head(q) = q[1]
      /\ Len(Tail(q)) = Len(q) - 1
      /\ \A m \in 1..(Len(q) - 1) : Tail(q)[m] = q[m + 1]
      /\ DOMAIN q = 1..Len(q) /\ DOMAIN Tail(q) = 1..(Len(q) - 1)
  <2>1. Len(q) \in Nat \ {0} /\ Tail(q) \in Seq(Intent) /\ Len(Tail(q)) = Len(q) - 1
    OBVIOUS
  <2>2. QED
    BY <2>1
<1>2. /\ \A m \in 1..Len(q) :
           m = 1 \/ (m - 1 \in 1..(Len(q) - 1) /\ q[m] = Tail(q)[m - 1])
      /\ 1 \in 1..Len(q) /\ \A m \in 1..(Len(q) - 1) : m + 1 \in 1..Len(q)
  BY <1>1
<1>3. Range(q) = {Head(q)} \cup Range(Tail(q))
  <2>1. ASSUME NEW x \in Range(q) PROVE x \in {Head(q)} \cup Range(Tail(q))
    <3>1. PICK m \in 1..Len(q) : x = q[m]
      BY <1>1 DEF Range
    <3>2. CASE m # 1
      BY <1>1, <1>2, <3>1, <3>2, Zenon DEF Range
    <3>3. QED
      BY <1>1, <3>1, <3>2
  <2>2. Head(q) \in Range(q)
    BY <1>1, <1>2 DEF Range
  <2>3. ASSUME NEW x \in Range(Tail(q)) PROVE x \in Range(q)
    BY <1>1, <1>2 DEF Range
  <2>4. QED
    BY <2>1, <2>2, <2>3
<1>4. Head(q) \notin Range(Tail(q))
  BY <1>1 DEF Range, Distinct
<1>5. Distinct(Tail(q))
  BY <1>1 DEF Distinct
<1>6. QED
  BY <1>3, <1>4, <1>5

LEMMA AddedLast ==
  ASSUME NEW q \in Seq(Intent), NEW i \in Intent, i \notin Range(q), Distinct(q)
  PROVE  Distinct(Append(q, i)) /\ Range(Append(q, i)) = Range(q) \cup {i}
<1>1. /\ Len(q) \in Nat /\ DOMAIN q = 1..Len(q)
      /\ DOMAIN Append(q, i) = 1..(Len(q) + 1)
      /\ \A m \in 1..Len(q) : Append(q, i)[m] = q[m]
      /\ Append(q, i)[Len(q) + 1] = i
  OBVIOUS
<1>2. \A m \in 1..(Len(q) + 1) : m \in 1..Len(q) \/ m = Len(q) + 1
  BY <1>1
<1>3. QED
  BY <1>1, <1>2 DEF Range, Distinct

LEMMA BatchApart ==
  ASSUME NEW q \in Seq(Intent), Distinct(q)
  PROVE  /\ Distinct(BatchOf(q)) /\ Distinct(AfterBatch(q))
         /\ Range(BatchOf(q)) \cap Range(AfterBatch(q)) = {}
         /\ Range(BatchOf(q)) \cup Range(AfterBatch(q)) = Range(q)
<1>1. Len(q) \in Nat /\ BatchSize \in Nat \ {0} /\ DOMAIN q = 1..Len(q)
  BY BatchAssumption
<1> DEFINE n == IF BatchSize < Len(q) THEN BatchSize ELSE Len(q)
<1>2. n \in 0..Len(q) /\ BatchOf(q) = SubSeq(q, 1, n)
  BY <1>1 DEF BatchOf
<1> HIDE DEF n
<1>3. /\ DOMAIN BatchOf(q) = 1..n /\ Len(BatchOf(q)) = n
      /\ \A m \in 1..n : BatchOf(q)[m] = q[m]
  BY <1>1, <1>2
<1>4. AfterBatch(q) = SubSeq(q, n + 1, Len(q))
  BY <1>3 DEF AfterBatch
<1>5. /\ DOMAIN AfterBatch(q) = 1..(Len(q) - n)
      /\ \A m \in 1..(Len(q) - n) : AfterBatch(q)[m] = q[n + m]
  BY <1>1, <1>2, <1>4
<1>6. /\ \A m \in 1..n : m \in 1..Len(q)
      /\ \A m \in 1..(Len(q) - n) : n + m \in 1..Len(q) /\ n + m \notin 1..n
      /\ \A m \in 1..Len(q) : m \in 1..n \/ (m - n \in 1..(Len(q) - n) /\ n + (m - n) = m)
      /\ \A l, m \in 1..(Len(q) - n) : n + l = n + m => l = m
  BY <1>1, <1>2
<1>7. Distinct(BatchOf(q))
  BY <1>1, <1>3, <1>6 DEF Distinct
<1>8. Distinct(AfterBatch(q))
  BY <1>1, <1>5, <1>6 DEF Distinct
<1>9. Range(BatchOf(q)) \cap Range(AfterBatch(q)) = {}
  BY <1>1, <1>3, <1>5, <1>6 DEF Range, Distinct
<1>10. Range(BatchOf(q)) \cup Range(AfterBatch(q)) = Range(q)
  BY <1>1, <1>3, <1>5, <1>6 DEF Range
<1>11. QED
  BY <1>7, <1>8, <1>9, <1>10

LEMMA ToldGrows ==
  ASSUME NEW rs, NEW D, NEW E, Told(rs, D), D \subseteq E
  PROVE  Told(rs, E)
BY DEF Told

LEMMA ToldBoth ==
  ASSUME NEW a \in Seq(Report), NEW b \in Seq(Report), NEW D, Told(a, D), Told(b, D)
  PROVE  Told(a \o b, D)
<1>1. /\ Len(a) \in Nat /\ Len(b) \in Nat
      /\ DOMAIN (a \o b) = 1..(Len(a) + Len(b))
      /\ \A k \in 1..(Len(a) + Len(b)) :
           \/ k \in DOMAIN a /\ (a \o b)[k] = a[k]
           \/ k - Len(a) \in DOMAIN b /\ (a \o b)[k] = b[k - Len(a)]
  OBVIOUS
<1>2. QED
  BY <1>1 DEF Told

LEMMA ToldUnsent ==
  ASSUME NEW q \in Seq(Intent), NEW D, Range(q) \subseteq D
  PROVE  Told(UnsentReports(q), D)
BY DEF Told, UnsentReports, Range

(* The queues stay as they are, reports may come and go.                   *)
LEMMA QueuesStay ==
  ASSUME QueueInv, UNCHANGED <<ring, batch, submitted, rejected>>,
         wpc' = "placing" => wpc = "placing",
         wpc' \in Resting => batch = <<>>,
         Told(reports', submitted \cup rejected)
  PROVE  Settles
BY DEF Settles, QueueInv, Known, Undecided

(* A part of the FIFO is rejected and reported as unsent.                  *)
LEMMA QueueDrops ==
  ASSUME QueueInv, IntentType,
         NEW taken \in Seq(Intent), NEW left \in Seq(Intent),
         NEW sent \in Seq(Report),
         Distinct(left), Range(left) \cup Range(taken) = Range(ring),
         Range(left) \cap Range(taken) = {},
         ring' = left, rejected' = rejected \cup Range(taken),
         reports' = sent \o UnsentReports(taken),
         Told(sent, submitted \cup rejected),
         UNCHANGED <<batch, submitted>>,
         wpc' = "placing" => wpc = "placing",
         wpc' \in Resting => batch = <<>>
  PROVE  Settles
<1>1. Told(reports', submitted' \cup rejected')
  <2>1. /\ UnsentReports(taken) \in Seq(Report)
        /\ Told(UnsentReports(taken), submitted \cup rejected')
    BY UnsentType, ToldUnsent
  <2>2. Told(sent, submitted \cup rejected')
    BY ToldGrows
  <2>3. QED
    BY <2>1, <2>2, ToldBoth
<1>2. QueueInv'
  BY <1>1 DEF QueueInv
<1>3. QED
  BY <1>2 DEF Settles, Known, Undecided

LEMMA ReconcileSettles ==
  ASSUME QueueInv, IntentType, NEW s, NEW sent \in Seq(Report),
         ReconcileOpenOrders(s, sent) \/ NoRecovery(s, sent),
         Told(sent, submitted \cup rejected), UNCHANGED <<batch, submitted>>,
         wpc' = "placing" => wpc = "placing",
         wpc' \in Resting => batch = <<>>
  PROVE  Settles
<1>1. ring \in Seq(Intent) /\ Distinct(ring) /\ <<>> \in Seq(Intent)
  BY DEF IntentType, QueueInv
<1>2. CASE NoRecovery(s, sent)
  BY <1>2, QueuesStay DEF NoRecovery
<1>3. CASE ReconcileOpenOrders(s, sent)
  <2>1. PICK taken, left :
          /\ \/ taken = <<>> /\ left = ring
             \/ taken = BatchOf(ring) /\ left = AfterBatch(ring)
          /\ ring' = left
          /\ rejected' = rejected \cup Range(taken)
          /\ reports' = sent \o UnsentReports(taken)
    BY <1>3, Zenon DEF ReconcileOpenOrders
  <2>2. /\ taken \in Seq(Intent) /\ left \in Seq(Intent) /\ Distinct(left)
        /\ Range(left) \cup Range(taken) = Range(ring)
        /\ Range(left) \cap Range(taken) = {}
    <3>1. CASE taken = <<>> /\ left = ring
      BY <1>1, <3>1, EmptyRange
    <3>2. CASE taken = BatchOf(ring) /\ left = AfterBatch(ring)
      BY <1>1, <3>2, BatchType, BatchApart, Zenon
    <3>3. QED
      BY <2>1, <3>1, <3>2
  <2>3. QED
    BY <2>1, <2>2, QueueDrops, Zenon
<1>4. QED
  BY <1>2, <1>3

LEMMA RejectSettles ==
  ASSUME QueueInv, IntentType, RejectQueuedIntents,
         UNCHANGED <<batch, submitted, wpc>>
  PROVE  Settles
<1>1. /\ ring \in Seq(Intent) /\ <<>> \in Seq(Intent) /\ reports \in Seq(Report)
      /\ Distinct(ring) /\ Told(reports, submitted \cup rejected)
      /\ wpc \in Resting => batch = <<>>
  BY DEF IntentType, QueueInv
<1>2. QED
  BY <1>1, EmptyRange, QueueDrops, Zenon DEF RejectQueuedIntents

LEMMA CommandSettles ==
  ASSUME QueueInv, IntentType, HandleCommand
  PROVE  Settles
<1>1. UNCHANGED <<batch, submitted, wpc>>
  BY Zenon DEF HandleCommand, EnableIntake, DisableIntake, EnterEmergency,
         CancelOrders, ReplaceOrder, ReconcileSnapshot, TakeCommand
<1>2. RejectQueuedIntents \/ UNCHANGED <<ring, rejected, reports>>
  BY Zenon DEF HandleCommand, EnableIntake, DisableIntake, EnterEmergency,
         CancelOrders, ReplaceOrder, ReconcileSnapshot
<1>3. CASE RejectQueuedIntents
  BY <1>1, <1>3, RejectSettles
<1>4. CASE UNCHANGED <<ring, rejected, reports>>
  BY <1>1, <1>4, QueuesStay DEF QueueInv
<1>5. QED
  BY <1>2, <1>3, <1>4

LEMMA EventSettles ==
  ASSUME QueueInv, IntentType, LoopType, PrivateEvent
  PROVE  Settles
<1> DEFINE D == submitted \cup rejected
<1>1. /\ reports \in Seq(Report) /\ Event \in Seq(Report)
      /\ \A id \in StreamId : <<[kind |-> "sync", stream |-> id]>> \in Seq(Report)
  BY DEF IntentType, Event, Report
<1>2. /\ Told(reports, D) /\ Told(Event, D)
      /\ \A id \in StreamId : Told(<<[kind |-> "sync", stream |-> id]>>, D)
  BY DEF QueueInv, Told, Event
<1>3. /\ reports \o Event \in Seq(Report) /\ Told(reports \o Event, D)
      /\ \A id \in StreamId :
           LET more == Append(reports, [kind |-> "sync", stream |-> id])
           IN more \in Seq(Report) /\ Told(more, D)
  <2>1. reports \o Event \in Seq(Report) /\ Told(reports \o Event, D)
    BY <1>1, <1>2, ToldBoth
  <2>2. ASSUME NEW id \in StreamId
        PROVE  LET more == Append(reports, [kind |-> "sync", stream |-> id])
               IN more \in Seq(Report) /\ Told(more, D)
    <3> DEFINE one == [kind |-> "sync", stream |-> id]
    <3>1. <<one>> \in Seq(Report) /\ Told(<<one>>, D)
      BY <1>1, <1>2, Zenon
    <3>2. one \in Report
      BY DEF Report
    <3> HIDE DEF one
    <3>3. Append(reports, one) = reports \o <<one>>
      BY <1>1, <3>2
    <3>4. Append(reports, one) \in Seq(Report) /\ Told(Append(reports, one), D)
      <4>1. Append(reports, one) \in Seq(Report)
        BY <1>1, <3>2
      <4> HIDE DEF D
      <4>2. Told(reports \o <<one>>, D)
        BY <1>1, <1>2, <3>1, ToldBoth, Zenon
      <4>3. QED
        BY <3>3, <4>1, <4>2, Zenon
    <3>5. QED
      BY <3>4 DEF one
  <2>3. QED
    BY <2>1, <2>2, Zenon
<1>4. \E s : \E sent \in Seq(Report) :
        /\ Told(sent, D)
        /\ ReconcileOpenOrders(s, sent) \/ NoRecovery(s, sent)
  BY <1>1, <1>2, <1>3, Zenon
     DEF PrivateEvent, ConnectionStatus, StreamBarrier, StreamSynchronized,
         EventsMissed, StreamFailed, Misrouted, OrderEvent
<1>5. UNCHANGED <<batch, submitted>>
  BY Zenon DEF PrivateEvent, ConnectionStatus, StreamBarrier,
         StreamSynchronized, EventsMissed, StreamFailed, Misrouted, OrderEvent,
         TakeEvent
<1>6. wpc' \in {"events", "control", "applied"}
  BY Zenon DEF PrivateEvent, ConnectionStatus, StreamBarrier,
         StreamSynchronized, EventsMissed, StreamFailed, Misrouted, OrderEvent,
         TakeEvent
<1>7. QED
  BY <1>4, <1>5, <1>6, ReconcileSettles, Zenon DEF Resting

LEMMA RecoverySettles ==
  ASSUME QueueInv, IntentType,
         PollApplied \/ RetryStreamRecovery \/ PeriodicReconcile
  PROVE  Settles
<1>1. \E s : ReconcileOpenOrders(s, reports) \/ NoRecovery(s, reports)
  BY Zenon DEF PollApplied, RetryStreamRecovery, PeriodicReconcile
<1>2. UNCHANGED <<batch, submitted>> /\ wpc' # "placing"
  BY DEF PollApplied, RetryStreamRecovery, PeriodicReconcile
<1>3. wpc' \in Resting => batch = <<>>
  BY DEF PollApplied, RetryStreamRecovery, PeriodicReconcile, Resting, QueueInv
<1>4. reports \in Seq(Report) /\ Told(reports, submitted \cup rejected)
  BY DEF IntentType, QueueInv
<1>5. QED
  BY <1>1, <1>2, <1>3, <1>4, ReconcileSettles, Zenon

LEMMA ReceiveSettles ==
  ASSUME QueueInv, IntentType, ReceiveEnvelopes
  PROVE  Settles
<1>1. /\ batch = <<>> /\ batch' = BatchOf(ring) /\ ring' = AfterBatch(ring)
      /\ UNCHANGED <<submitted, rejected, reports>>
      /\ wpc' = IF ring = <<>> THEN "timeouts" ELSE "control"
  BY DEF ReceiveEnvelopes, QueueInv, Resting
<1>2. ring \in Seq(Intent) /\ Distinct(ring)
  BY DEF IntentType, QueueInv
<1>3. /\ Distinct(batch') /\ Distinct(ring')
      /\ Range(batch') \cap Range(ring') = {}
      /\ Range(batch') \cup Range(ring') = Range(ring)
  BY <1>1, <1>2, BatchApart
<1>4. wpc' \in Resting => batch' = <<>>
  BY <1>1, <1>2, BatchAssumption DEF BatchOf, Resting
<1>5. QueueInv'
  BY <1>1, <1>3, <1>4 DEF QueueInv
<1>6. QED
  BY <1>1, <1>3, <1>5, EmptyRange DEF Settles, Known, Undecided

LEMMA RejectIntentSettles ==
  ASSUME QueueInv, IntentType, LoopType, RejectIntent
  PROVE  Settles
<1> DEFINE i == Head(batch)
<1>1. /\ batch' = Tail(batch) /\ rejected' = rejected \cup {i}
      /\ reports' = reports \o UnsentReports(<<i>>)
      /\ UNCHANGED <<ring, submitted>>
      /\ wpc' = IF Tail(batch) = <<>> THEN "timeouts" ELSE "control"
  BY DEF RejectIntent, NextIntent
<1>2. batch \in Seq(Intent) /\ batch # <<>> /\ Distinct(batch) /\ i \in Intent
  BY DEF RejectIntent, IntentType, LoopType, QueueInv
<1>3. /\ Range(batch) = {i} \cup Range(batch') /\ i \notin Range(batch')
      /\ Distinct(batch')
  BY <1>1, <1>2, HeadApart
<1> HIDE DEF i
<1>4. Told(reports', submitted' \cup rejected')
  <2>1. <<i>> \in Seq(Intent) /\ Range(<<i>>) = {i}
    BY <1>2 DEF Range
  <2>2. /\ UnsentReports(<<i>>) \in Seq(Report)
        /\ Told(UnsentReports(<<i>>), submitted' \cup rejected')
    BY <1>1, <2>1, UnsentType, ToldUnsent, Zenon
  <2>3. reports \in Seq(Report) /\ Told(reports, submitted' \cup rejected')
    BY <1>1, ToldGrows DEF IntentType, QueueInv
  <2>4. QED
    BY <1>1, <2>2, <2>3, ToldBoth
<1>5. QueueInv'
  BY <1>1, <1>3, <1>4 DEF QueueInv, Resting
<1>6. QED
  BY <1>1, <1>3, <1>5 DEF Settles, Known, Undecided

LEMMA SubmitSettles ==
  ASSUME QueueInv, IntentType, LoopType, SubmitIntent
  PROVE  Settles
<1>1. /\ submitted' = submitted \cup {Head(batch)} /\ wpc' = "placing"
      /\ UNCHANGED <<ring, batch, rejected, reports>>
  BY DEF SubmitIntent
<1>2. Head(batch) \in Range(batch)
  BY HeadApart DEF SubmitIntent, IntentType, LoopType, QueueInv
<1>3. Told(reports', submitted' \cup rejected')
  BY <1>1, ToldGrows DEF QueueInv
<1>4. QueueInv'
  BY <1>1, <1>2, <1>3 DEF QueueInv, Resting
<1>5. QED
  BY <1>1, <1>4 DEF Settles, Known, Undecided

LEMMA PlacementSettles ==
  ASSUME QueueInv, IntentType, LoopType, NEW outcome \in Outcome,
         PlacementReturns(outcome)
  PROVE  Settles
<1> DEFINE i == Head(batch)
<1>1. /\ batch' = Tail(batch) /\ rejected' \in {rejected, rejected \cup {i}}
      /\ UNCHANGED <<ring, submitted>> /\ i \in submitted
      /\ wpc' = IF Tail(batch) = <<>> THEN "timeouts" ELSE "control"
  BY DEF PlacementReturns, NextIntent, QueueInv
<1>2. batch \in Seq(Intent) /\ batch # <<>> /\ Distinct(batch) /\ i \in Intent
  BY DEF PlacementReturns, IntentType, LoopType, QueueInv
<1>3. /\ Range(batch) = {i} \cup Range(batch') /\ i \notin Range(batch')
      /\ Distinct(batch')
  BY <1>1, <1>2, HeadApart
<1>4. PICK more \in {NewReport(i), UnsentReports(<<i>>), <<>>,
                     Append(NewReport(i), [kind |-> "reject", intent |-> i])} :
        reports' = reports \o more
  BY Zenon DEF PlacementReturns, Outcome
<1> HIDE DEF i
<1>5. more \in Seq(Report) /\ Told(more, submitted)
  <2>1. <<i>> \in Seq(Intent) /\ Range(<<i>>) = {i} /\ i \in submitted
    BY <1>1, <1>2 DEF Range
  <2>2. /\ UnsentReports(<<i>>) \in Seq(Report)
        /\ Told(UnsentReports(<<i>>), submitted)
    BY <2>1, UnsentType, ToldUnsent, Zenon
  <2>3. NewReport(i) \in Seq(Report) /\ Told(NewReport(i), submitted)
    BY <1>2, <2>1 DEF NewReport, Report, Told
  <2>4. LET both == Append(NewReport(i), [kind |-> "reject", intent |-> i])
        IN both \in Seq(Report) /\ Told(both, submitted)
    BY <1>2, <2>1 DEF NewReport, Report, Told
  <2>5. <<>> \in Seq(Report) /\ Told(<<>>, submitted)
    BY DEF Told
  <2>6. QED
    BY <1>4, <2>2, <2>3, <2>4, <2>5, Zenon
<1>6. Told(reports', submitted' \cup rejected')
  <2>1. submitted \subseteq submitted' \cup rejected'
        /\ submitted \cup rejected \subseteq submitted' \cup rejected'
    BY <1>1
  <2>2. reports \in Seq(Report) /\ Told(reports, submitted \cup rejected)
    BY DEF IntentType, QueueInv
  <2>3. Told(more, submitted' \cup rejected') /\ Told(reports, submitted' \cup rejected')
    BY <1>5, <2>1, <2>2, ToldGrows
  <2>4. QED
    BY <1>4, <1>5, <2>2, <2>3, ToldBoth
<1>7. QueueInv'
  BY <1>1, <1>3, <1>6 DEF QueueInv, Resting
<1>8. QED
  BY <1>1, <1>3, <1>7 DEF Settles, Known, Undecided

LEMMA WorkerSettles ==
  ASSUME QueueInv, IntentType, LoopType, Worker
  PROVE  Settles
<1>1. CASE HandleCommand
  BY <1>1, CommandSettles
<1>2. CASE PrivateEvent
  BY <1>2, EventSettles
<1>3. CASE PollApplied \/ RetryStreamRecovery \/ PeriodicReconcile
  BY <1>3, RecoverySettles
<1>4. CASE ReceiveEnvelopes \/ RejectIntent \/ SubmitIntent
  BY <1>4, ReceiveSettles, RejectIntentSettles, SubmitSettles
<1>5. ASSUME NEW outcome \in Outcome, PlacementReturns(outcome)
      PROVE  Settles
  BY <1>5, PlacementSettles
<1>6. CASE ControlDrained \/ PollEnds \/ CheckAckTimeouts \/ Wake
  <2>1. UNCHANGED <<ring, batch, submitted, rejected, reports>>
    BY <1>6 DEF ControlDrained, PollEnds, CheckAckTimeouts, Wake, queueVars
  <2>2. wpc' # "placing" /\ (wpc' \in Resting => batch = <<>>)
    BY <1>6 DEF ControlDrained, PollEnds, CheckAckTimeouts, Wake, QueueInv,
                Resting
  <2>3. Told(reports', submitted \cup rejected)
    BY <2>1 DEF QueueInv
  <2>4. QED
    BY <2>1, <2>2, <2>3, QueuesStay
<1>7. QED
  BY <1>1, <1>2, <1>3, <1>4, <1>5, <1>6 DEF Worker, Loop

(* The engine drops the reports it has applied.                            *)
LEMMA DrainSettles ==
  ASSUME QueueInv, IntentType, NEW n \in 1..Len(reports), NEW fault,
         DrainReports(n, fault)
  PROVE  Settles
<1>1. /\ UNCHANGED <<ring, batch, submitted, rejected, wpc>>
      /\ reports' = SubSeq(reports, n + 1, Len(reports))
  BY DEF DrainReports
<1>2. Told(reports', submitted \cup rejected)
  <2>1. reports \in Seq(Report) /\ Told(reports, submitted \cup rejected)
    BY DEF IntentType, QueueInv
  <2>2. /\ Len(reports) \in Nat /\ DOMAIN reports' = 1..(Len(reports) - n)
        /\ \A k \in 1..(Len(reports) - n) :
             n + k \in DOMAIN reports /\ reports'[k] = reports[n + k]
    BY <1>1, <2>1
  <2>3. QED
    BY <2>1, <2>2 DEF Told
<1>3. QED
  BY <1>1, <1>2, QueuesStay DEF QueueInv

LEMMA EnqueueApart ==
  ASSUME QueueInv, IntentType, NEW i \in Intent, EnqueueIntent(i)
  PROVE  /\ QueueInv' /\ Known \subseteq Known'
         /\ i \notin Known /\ Undecided' = Undecided \cup {i}
<1>1. /\ ring' = Append(ring, i) /\ i \notin Known
      /\ UNCHANGED <<batch, submitted, rejected, reports, wpc>>
  BY DEF EnqueueIntent, Known
<1>2. Distinct(ring') /\ Range(ring') = Range(ring) \cup {i}
  BY <1>1, AddedLast DEF IntentType, QueueInv, Known
<1>3. QueueInv'
  BY <1>1, <1>2 DEF QueueInv, Known
<1>4. QED
  BY <1>1, <1>2, <1>3 DEF Known, Undecided

LEMMA QueueStep ==
  ASSUME QueueInv, IntentType, LoopType, [Next]_vars
  PROVE  Settles \/ (QueueInv' /\ \E i \in Intent : EnqueueIntent(i))
<1>1. CASE Worker
  BY <1>1, WorkerSettles
<1>2. CASE EngineReports
  BY <1>2, DrainSettles DEF EngineReports
<1>3. CASE ClearHalt \/ (\E kind \in CommandKind : SendCommand(kind)) \/ UNCHANGED vars
  <2>1. UNCHANGED <<ring, batch, submitted, rejected, reports, wpc>>
    BY <1>3 DEF ClearHalt, SendCommand, vars, queueVars
  <2>2. QED
    BY <2>1, QueuesStay DEF QueueInv
<1>4. CASE \E i \in Intent : EnqueueIntent(i)
  BY <1>4, EnqueueApart
<1>5. QED
  BY <1>1, <1>2, <1>3, <1>4 DEF Next, Neighbours

-----------------------------------------------------------------------------
(* The command FIFO.                                                       *)

(* Commands are queued in the order of their identifiers.                  *)
Ordered ==
  \A m, n \in DOMAIN control : m < n => control[m].id < control[n].id

LEMMA PostOrdered ==
  ASSUME CommandType, Ordered, NEW kind, PostCommand(kind)
  PROVE  /\ Ordered'
         /\ DOMAIN control' = 1..(Len(control) + 1)
         /\ \A m \in 1..Len(control) : control'[m] = control[m]
         /\ control'[Len(control) + 1] = [id |-> Len(replies) + 1, kind |-> kind]
         /\ Len(replies') = Len(replies) + 1
         /\ replies'[Len(replies) + 1] = "pending"
         /\ \A k \in 1..Len(replies) : replies'[k] = replies[k]
<1>1. /\ Len(control) \in Nat /\ Len(replies) \in Nat
      /\ DOMAIN control = 1..Len(control) /\ DOMAIN replies = 1..Len(replies)
      /\ \A m \in 1..Len(control) : control[m].id \in 1..Len(replies)
  BY DEF CommandType
<1>2. /\ DOMAIN control' = 1..(Len(control) + 1)
      /\ \A m \in 1..Len(control) : control'[m] = control[m]
      /\ control'[Len(control) + 1] = [id |-> Len(replies) + 1, kind |-> kind]
  BY DEF PostCommand, CommandType
<1>3. /\ Len(replies') = Len(replies) + 1
      /\ replies'[Len(replies) + 1] = "pending"
      /\ \A k \in 1..Len(replies) : replies'[k] = replies[k]
  BY DEF PostCommand, CommandType
<1>4. ASSUME NEW m \in DOMAIN control', NEW n \in DOMAIN control', m < n
      PROVE  control'[m].id < control'[n].id
  <2>1. m \in 1..Len(control) /\ (n \in 1..Len(control) \/ n = Len(control) + 1)
    BY <1>1, <1>2, <1>4
  <2>2. CASE n \in 1..Len(control)
    BY <1>1, <1>2, <1>4, <2>1, <2>2 DEF Ordered
  <2>3. CASE n = Len(control) + 1
    BY <1>1, <1>2, <2>1, <2>3
  <2>4. QED
    BY <2>1, <2>2, <2>3
<1>5. QED
  BY <1>2, <1>3, <1>4 DEF Ordered

(* What taking a command does to the FIFO, the replies and the operator's  *)
(* intake latch.                                                           *)
Taken ==
  /\ control # <<>> /\ control' = Tail(control)
  /\ \E x \in {"ok", "refused"} :
       replies' = [replies EXCEPT ![Head(control).id] = x]
  /\ Head(control).kind = "intake_off" => ~w'.operator
  /\ Head(control).kind # "intake_on" /\ ~w.operator => ~w'.operator

LEMMA CommandTaken ==
  ASSUME IntakeInv, HandleCommand
  PROVE  Taken
<1>1. control # <<>> /\ control' = Tail(control)
  BY Zenon DEF HandleCommand, EnableIntake, DisableIntake, EnterEmergency,
         CancelOrders, ReplaceOrder, ReconcileSnapshot, TakeCommand
<1>2. Reply("ok") \/ Reply("refused")
  BY Zenon DEF HandleCommand, EnableIntake, DisableIntake, EnterEmergency,
         CancelOrders, ReplaceOrder, ReconcileSnapshot
<1>3. DisableIntake => ~w'.operator
  BY DEF DisableIntake, IntakeInv, Sound, WorkerState
<1>4. Head(control).kind = "intake_off" => DisableIntake
  BY DEF HandleCommand, EnableIntake, EnterEmergency, CancelOrders,
         ReplaceOrder, ReconcileSnapshot, TakeCommand
<1>5. Head(control).kind # "intake_on" => ~EnableIntake
  BY DEF EnableIntake, TakeCommand
<1>6. Follows(w, w', confirmed) => w'.operator = w.operator
  BY DEF Follows
<1>7. QED
  BY <1>1, <1>2, <1>3, <1>4, <1>5, <1>6, CommandsFollow DEF Taken, Reply

LEMMA TakenOrdered ==
  ASSUME CommandType, Ordered, Taken
  PROVE  /\ Ordered'
         /\ Len(control) \in Nat \ {0} /\ Head(control) = control[1]
         /\ DOMAIN control = 1..Len(control)
         /\ DOMAIN control' = 1..(Len(control) - 1)
         /\ \A m \in 1..(Len(control) - 1) :
              /\ control'[m] = control[m + 1]
              /\ control[1].id < control[m + 1].id
<1>1. /\ Len(control) \in Nat \ {0} /\ Head(control) = control[1]
      /\ DOMAIN control = 1..Len(control)
      /\ DOMAIN control' = 1..(Len(control) - 1)
      /\ \A m \in 1..(Len(control) - 1) : control'[m] = control[m + 1]
  BY DEF Taken, CommandType
<1>2. \A m \in 1..(Len(control) - 1) : control[1].id < control[m + 1].id
  BY <1>1 DEF Ordered
<1>3. ASSUME NEW m \in DOMAIN control', NEW n \in DOMAIN control', m < n
      PROVE  control'[m].id < control'[n].id
  <2>1. /\ m + 1 \in DOMAIN control /\ n + 1 \in DOMAIN control /\ m + 1 < n + 1
        /\ control'[m] = control[m + 1] /\ control'[n] = control[n + 1]
    BY <1>1, <1>3
  <2>2. QED
    BY <2>1, Zenon DEF Ordered
<1>4. QED
  BY <1>1, <1>2, <1>3 DEF Ordered

(* Every other step of the worker leaves the FIFO and the operator's latch *)
(* alone.                                                                  *)
LEMMA OtherwiseUntouched ==
  ASSUME IntakeInv, Worker, ~HandleCommand
  PROVE  UNCHANGED <<control, replies>> /\ w'.operator = w.operator
<1>1. UNCHANGED <<control, replies>>
  <2>1. CASE PrivateEvent
    BY <2>1, Zenon DEF PrivateEvent, ConnectionStatus, StreamBarrier,
                StreamSynchronized, EventsMissed, StreamFailed, Misrouted,
                OrderEvent, TakeEvent
  <2>2. CASE Loop
    BY <2>2, Zenon DEF Loop, ControlDrained, PollEnds, PollApplied,
                RetryStreamRecovery, ReceiveEnvelopes, RejectIntent,
                SubmitIntent, PlacementReturns, CheckAckTimeouts,
                PeriodicReconcile, Wake
  <2>3. QED
    BY <2>1, <2>2 DEF Worker
<1>2. Follows(w, w', confirmed)
  <2>1. ~EnableIntake /\ ~DisableIntake
    BY DEF HandleCommand
  <2>2. [Next]_vars
    BY DEF Next
  <2>3. QED
    BY <2>1, <2>2, IntakeStep
<1>3. QED
  BY <1>1, <1>2 DEF Follows

LEMMA OrderedStep ==
  ASSUME CommandType, IntakeInv, Ordered, [Next]_vars
  PROVE  Ordered'
<1>1. CASE HandleCommand
  BY <1>1, CommandTaken, TakenOrdered
<1>2. CASE UNCHANGED <<control, replies>>
  BY <1>2 DEF Ordered
<1>3. CASE Worker /\ ~HandleCommand
  BY <1>2, <1>3, OtherwiseUntouched
<1>4. CASE Neighbours
  BY <1>2, <1>4, PostOrdered, Zenon
     DEF Neighbours, EnqueueIntent, EngineReports, ClearHalt, SendCommand
<1>5. CASE UNCHANGED vars
  BY <1>2, <1>5 DEF vars
<1>6. QED
  BY <1>1, <1>3, <1>4, <1>5 DEF Next

(* All that is used of the worker below.                                   *)
WorkerInv == TypeInv /\ IntakeInv /\ FaultHalts /\ QueueInv /\ Ordered

(* The worker's queues, for any way of driving it: an intent waits in one  *)
(* place only, no intent is reported before it is decided, and commands    *)
(* are taken in the order they were issued.                                *)
THEOREM WorkerInvariant == Spec => []WorkerInv
<1>1. Init => WorkerInv
  <2>1. SUFFICES ASSUME Init PROVE WorkerInv
    OBVIOUS
  <2>2. CommandType /\ IntentType
    <3>1. CommandType
      BY <2>1 DEF Init, CommandType
    <3>2. IntentType
      BY <2>1 DEF Init, IntentType
    <3>3. QED
      BY <3>1, <3>2
  <2>3. LoopType
    BY <2>1, BatchAssumption, BoundAssumption DEF Init, LoopType
  <2>4. IntakeInv
    BY <2>1 DEF Init, IntakeInv, Sound, Latched, Tracked, Synchronized,
                WorkerState
  <2>5. FaultHalts /\ Ordered
    <3>1. FaultHalts
      BY <2>1, Zenon DEF Init, FaultHalts
    <3>2. DOMAIN control = {}
      BY <2>1 DEF Init
    <3>3. QED
      BY <3>1, <3>2, Zenon DEF Ordered
  <2>6. QueueInv
    BY <2>1 DEF Init, QueueInv, Distinct, Range, Told, Resting
  <2>7. QED
    BY <2>2, <2>3, <2>4, <2>5, <2>6 DEF WorkerInv, TypeInv
<1>2. WorkerInv /\ [Next]_vars => WorkerInv'
  <2>1. SUFFICES ASSUME WorkerInv, [Next]_vars PROVE WorkerInv'
    OBVIOUS
  <2>2. TypeInv' /\ IntakeInv' /\ FaultHalts'
    BY <2>1, TypeStep, IntakeStep, FaultStep DEF WorkerInv
  <2>3. QueueInv'
    BY <2>1, QueueStep DEF WorkerInv, TypeInv, Settles
  <2>4. Ordered'
    BY <2>1, OrderedStep DEF WorkerInv, TypeInv
  <2>5. QED
    BY <2>2, <2>3, <2>4 DEF WorkerInv
<1>3. QED
  BY <1>1, <1>2, PTL DEF Spec

-----------------------------------------------------------------------------
(* The control plane.                                                      *)

(* No command that is queued will enable the intake, and it is disabled.   *)
NoneEnables == \A k \in DOMAIN control : control[k].kind # "intake_on"
Shut == ~w.operator /\ NoneEnables

(* The intake is shut once the FIFO has been worked off.                   *)
Closing ==
  \/ Shut
  \/ \E k \in DOMAIN control :
       /\ control[k].kind = "intake_off"
       /\ \A m \in k..Len(control) : control[m].kind # "intake_on"

(* Command k disables the intake, and none behind it enables it again.     *)
Disables(k) ==
  /\ \A m \in DOMAIN control :
       /\ control[m].id = k => control[m].kind = "intake_off"
       /\ control[m].id >= k => control[m].kind # "intake_on"
  /\ replies[k] # "pending" => Shut

(* Between the pause of a guarded reconciliation and its verdict; from the *)
(* decision to resume to the change of the mode.                           *)
Reading == {"readback", "snapshot", "snapshot_wait", "confirm"}
Resuming == {"resume", "resume_wait", "commit"}

PlaneType ==
  /\ mode \in Mode /\ unconfirmed \in BOOLEAN
  /\ queued \subseteq Intent /\ barred \subseteq Intent
  /\ op \in OperationState /\ op.waits \in 0..Len(replies)
  /\ op.at \in Waiting => op.waits # 0
  /\ op.at \in Resuming => op.target \in Active

(* The invariant of the control plane: while an emergency, a pause or a    *)
(* barred intent requires it, the intake is shut or the command that shuts *)
(* it is queued with no enabling command behind it.                        *)
PlaneInv ==
  /\ PlaneType
  /\ HaltStopsTrading
  /\ UndecidedIsReserved
  /\ mode = "emergency" => Closing
  /\ op.at = "pause_wait" => Disables(op.waits)
  /\ op.at \in Reading => Shut
  /\ barred \cap Undecided # {} => Shut
  /\ barred \subseteq Known

(* What every step but the sending of an enabling command does to the      *)
(* command FIFO.                                                           *)
Channel ==
  /\ Shut => Shut'
  /\ Closing => Closing'
  /\ \A k \in 1..Len(replies) : Disables(k) => Disables(k)'

LEMMA ChannelStays ==
  ASSUME UNCHANGED <<control, replies>>, w'.operator = w.operator
  PROVE  Channel
BY DEF Channel, Shut, Closing, NoneEnables, Disables

LEMMA ChannelPosts ==
  ASSUME CommandType, Ordered, NEW kind, kind # "intake_on", PostCommand(kind),
         w' = w
  PROVE  /\ Channel
         /\ kind = "intake_off" =>
              Closing' /\ \A new : new = Len(replies) + 1 => Disables(new)'
<1> DEFINE last == Len(control) + 1
<1>0. PICK new : new = Len(replies) + 1
  OBVIOUS
<1>1. /\ Len(control) \in Nat /\ Len(replies) \in Nat
      /\ DOMAIN control = 1..Len(control)
      /\ \A m \in 1..Len(control) : control[m].id \in 1..Len(replies)
  BY DEF CommandType
<1>2. /\ DOMAIN control' = 1..last /\ Len(control') = last
      /\ \A m \in 1..Len(control) : control'[m] = control[m]
      /\ control'[last].id = new /\ control'[last].kind = kind
      /\ replies'[new] = "pending"
      /\ \A k \in 1..Len(replies) : replies'[k] = replies[k]
  BY <1>0, PostOrdered DEF PostCommand, CommandType
<1>3. /\ last \in 1..last /\ 1..Len(control) \subseteq 1..last
      /\ \A m \in 1..last : m \in 1..Len(control) \/ m = last
      /\ \A k \in 1..Len(control) :
           \A m \in k..last : m \in k..Len(control) \/ m = last
      /\ \A m \in last..last : m = last
  BY <1>1
<1>4. /\ \A k \in 1..Len(replies) : k # new /\ ~(k >= new)
      /\ new \in Nat
  BY <1>0, <1>1
<1> HIDE DEF last
<1>5. Shut => Shut'
  BY <1>1, <1>2, <1>3 DEF Shut, NoneEnables
<1>6. Closing => Closing'
  BY <1>1, <1>2, <1>3, <1>5 DEF Closing
<1>7. ASSUME NEW k \in 1..Len(replies), Disables(k)
      PROVE  Disables(k)'
  BY <1>1, <1>2, <1>3, <1>4, <1>5, <1>7 DEF Disables
<1>8. ASSUME kind = "intake_off"
      PROVE  Closing' /\ Disables(new)'
  <2>1. Closing'
    BY <1>2, <1>3, <1>8 DEF Closing
  <2>2. Disables(new)'
    BY <1>1, <1>2, <1>3, <1>4, <1>8 DEF Disables
  <2>3. QED
    BY <2>1, <2>2
<1>9. QED
  BY <1>0, <1>5, <1>6, <1>7, <1>8 DEF Channel

LEMMA ChannelTakes ==
  ASSUME CommandType, Ordered, Taken
  PROVE  Channel
<1>1. /\ Len(control) \in Nat \ {0} /\ Head(control) = control[1]
      /\ DOMAIN control = 1..Len(control)
      /\ DOMAIN control' = 1..(Len(control) - 1) /\ Len(control') = Len(control) - 1
      /\ \A m \in 1..(Len(control) - 1) :
           /\ control'[m] = control[m + 1] /\ m + 1 \in 1..Len(control)
           /\ control[1].id < control[m + 1].id
  <2>1. Len(control) \in Nat \ {0} /\ Len(control') = Len(control) - 1
    BY DEF Taken, CommandType
  <2>2. \A m \in 1..(Len(control) - 1) : m + 1 \in 1..Len(control)
    BY <2>1
  <2>3. QED
    BY <2>1, <2>2, TakenOrdered
<1>2. /\ control[1].kind = "intake_off" => ~w'.operator
      /\ control[1].kind # "intake_on" /\ ~w.operator => ~w'.operator
  BY <1>1, Zenon DEF Taken
<1>3. NoneEnables => NoneEnables' /\ control[1].kind # "intake_on"
  <2>1. 1 \in DOMAIN control
    BY <1>1
  <2>2. QED
    BY <1>1, <2>1, Zenon DEF NoneEnables
<1>4. Shut => Shut'
  BY <1>2, <1>3, Zenon DEF Shut
<1>5. Closing => Closing'
  <2>1. SUFFICES ASSUME NEW k \in 1..Len(control), control[k].kind = "intake_off",
                        \A m \in k..Len(control) : control[m].kind # "intake_on"
                 PROVE  Closing'
    BY <1>1, <1>4 DEF Closing
  <2>2. CASE k = 1
    <3>1. NoneEnables'
      BY <1>1, <2>1, <2>2 DEF NoneEnables
    <3>2. QED
      BY <1>2, <2>1, <2>2, <3>1 DEF Closing, Shut
  <2>3. CASE k # 1
    <3>1. /\ k - 1 \in 1..(Len(control) - 1) /\ (k - 1) + 1 = k
          /\ \A m \in (k - 1)..(Len(control) - 1) :
               m + 1 \in k..Len(control) /\ m \in 1..(Len(control) - 1)
      BY <1>1, <2>3
    <3>2. /\ control'[k - 1].kind = "intake_off"
          /\ \A m \in (k - 1)..Len(control') : control'[m].kind # "intake_on"
      BY <1>1, <2>1, <3>1
    <3>3. QED
      BY <1>1, <3>1, <3>2, Zenon DEF Closing
  <2>4. QED
    BY <2>2, <2>3
<1>6. ASSUME NEW k \in 1..Len(replies), Disables(k)
      PROVE  Disables(k)'
  <2>1. \A m \in DOMAIN control' :
          /\ control'[m].id = k => control'[m].kind = "intake_off"
          /\ control'[m].id >= k => control'[m].kind # "intake_on"
    BY <1>1, <1>6 DEF Disables
  <2>2. CASE control[1].id # k
    <3>1. replies'[k] = replies[k]
      BY <1>1, <2>2 DEF Taken, CommandType
    <3>2. QED
      BY <1>4, <1>6, <2>1, <3>1 DEF Disables
  <2>3. CASE control[1].id = k
    <3>1. ~w'.operator
      BY <1>1, <1>2, <1>6, <2>3 DEF Disables
    <3>2. \A m \in 1..(Len(control) - 1) : control[m + 1].id >= k
      <4>1. /\ Len(replies) \in Nat
            /\ \A m \in 1..Len(control) : control[m].id \in 1..Len(replies)
        BY DEF CommandType
      <4>2. ASSUME NEW m \in 1..(Len(control) - 1) PROVE control[m + 1].id >= k
        <5>1. control[m + 1].id \in Nat /\ k \in Nat
          BY <1>1, <4>1
        <5>2. k < control[m + 1].id
          BY <1>1, <2>3, Zenon
        <5>3. QED
          BY <5>1, <5>2
      <4>3. QED
        BY <4>2
    <3>3. NoneEnables'
      BY <1>1, <2>1, <3>2 DEF NoneEnables
    <3>4. QED
      BY <2>1, <3>1, <3>3, Zenon DEF Disables, Shut
  <2>4. QED
    BY <2>2, <2>3
<1>7. QED
  BY <1>4, <1>5, <1>6 DEF Channel

LEMMA PauseChannel ==
  ASSUME CommandType, Ordered, PauseTrading, w' = w
  PROVE  Channel
BY ChannelStays, ChannelPosts DEF PauseTrading, channelVars

LEMMA OperationChannel ==
  ASSUME CommandType, Ordered, Operation, ~SendResume
  PROVE  Channel
<1>1. CASE UNCHANGED <<workerVars, channelVars>>
  BY <1>1, ChannelStays DEF workerVars, channelVars
<1>2. CASE BeginPause \/ BeginResume \/ BeginReconcile \/ EnterDegrade
           \/ ReplyTimeout \/ ResumeRejected \/ ResumeCommit \/ CompareSnapshot
  BY <1>1, <1>2
     DEF BeginPause, BeginResume, BeginReconcile, Begin, EnterDegrade,
         ReplyTimeout, ResumeRejected, ResumeCommit, CompareSnapshot
<1>3. CASE PauseReturns \/ EmergencyReturns \/ SnapshotReturns \/ AbortReturns
           \/ ResumeGranted \/ ResumeRefused
  BY <1>1, <1>3
     DEF PauseReturns, EmergencyReturns, SnapshotReturns, AbortReturns,
         ResumeGranted, ResumeRefused, Replied
<1>4. CASE BeginEmergency
  BY <1>4, ChannelPosts DEF BeginEmergency, workerVars
<1>5. CASE SendPause \/ SendEmergency \/ SendSnapshot \/ SendAbort
  BY <1>5, ChannelPosts
     DEF SendPause, SendEmergency, SendSnapshot, SendAbort, Send, workerVars
<1>6. CASE PauseEngine \/ ResumeAbort
  BY <1>6, PauseChannel DEF PauseEngine, ResumeAbort, workerVars
<1>7. CASE DrainPausePrefix
  <2>1. ASSUME NEW n, NEW failed, NEW doubt, ApplyReports(n, failed, doubt)
        PROVE  Channel
    BY <2>1, PauseChannel, ChannelStays DEF ApplyReports, DrainReports, channelVars
  <2>2. QED
    BY <1>1, <1>7, <2>1 DEF DrainPausePrefix
<1>8. QED
  BY <1>2, <1>3, <1>4, <1>5, <1>6, <1>7 DEF Operation

LEMMA PlaneChannel ==
  ASSUME WorkerInv, [ControlNext]_allVars, ~SendResume
  PROVE  Channel
<1>1. CommandType /\ Ordered /\ IntakeInv
  BY DEF WorkerInv, TypeInv
<1>2. CASE Operation
  BY <1>1, <1>2, OperationChannel
<1>3. ASSUME NEW i \in Intent, Enqueue(i)
      PROVE  Channel
  BY <1>3, ChannelStays DEF Enqueue, EnqueueIntent
<1>4. CASE EngineDrain
  BY <1>1, <1>4, PauseChannel, ChannelStays
     DEF EngineDrain, ApplyReports, DrainReports, channelVars
<1>5. CASE EnginePause
  BY <1>1, <1>5, PauseChannel DEF EnginePause, workerVars
<1>6. CASE ImportCheckpoint
  BY <1>6, ChannelStays DEF ImportCheckpoint, ClearHalt
<1>7. CASE UngatedCommand
  BY <1>1, <1>7, UngatedAssumption, ChannelPosts DEF UngatedCommand, SendCommand
<1>8. CASE Worker
  BY <1>1, <1>8, CommandTaken, ChannelTakes, OtherwiseUntouched, ChannelStays
<1>9. CASE UNCHANGED allVars
  BY <1>9, ChannelStays DEF allVars, vars
<1>10. QED
  BY <1>2, <1>3, <1>4, <1>5, <1>6, <1>7, <1>8, <1>9 DEF ControlNext, Engine

(* Where an operation may go.                                              *)

At == Waiting \cup {"idle", "pause", "pause_send", "resume", "commit", "abort",
                    "emergency", "readback", "snapshot", "confirm"}

OpFits ==
  /\ op \in OperationState /\ op.waits \in 0..Len(replies)
  /\ op.at \in Waiting => op.waits # 0
  /\ op.at \in Resuming => op.target \in Active

(* An operation that awaits nothing is at `at`, and only one that resumes  *)
(* has a mode to restore.                                                  *)
Rests(o, at) ==
  /\ o \in OperationState /\ o.at = at /\ o.waits = 0
  /\ at \in Resuming => o.target \in Active

LEMMA IdleRests == Rests(Idle, "idle")
BY BoundAssumption DEF Rests, Idle, OperationState, Mode, Active, Resuming

LEMMA RecordSet ==
  ASSUME NEW A, NEW T, NEW W, NEW M, NEW a \in A, NEW k \in W,
         NEW o \in [at : A, then : T, waits : W, target : M]
  PROVE  LET next == [o EXCEPT !.at = a, !.waits = k]
         IN /\ next \in [at : A, then : T, waits : W, target : M]
            /\ next.at = a /\ next.waits = k /\ next.target = o.target
BY Zenon

LEMMA OpSet ==
  ASSUME op \in OperationState, NEW at \in At, NEW k \in 0..MaxCommands
  PROVE  LET next == [op EXCEPT !.at = at, !.waits = k]
         IN /\ next \in OperationState /\ next.at = at /\ next.waits = k
            /\ next.target = op.target
<1>1. OperationState = [at : At, then : {"idle", "readback"},
                        waits : 0..MaxCommands, target : Mode]
  BY Zenon DEF OperationState, At
<1>2. QED
  BY <1>1, RecordSet, Zenon

LEMMA GoesToRests ==
  ASSUME OpFits, NEW at \in At, at \in Resuming => op.target \in Active
  PROVE  Rests(GoesTo(at), at)
<1>1. CASE at = "idle"
  BY <1>1, IdleRests DEF GoesTo
<1>2. CASE at # "idle"
  <2>1. op \in OperationState /\ 0 \in 0..MaxCommands
    BY BoundAssumption DEF OpFits
  <2>2. QED
    BY <1>2, <2>1, OpSet, Zenon DEF GoesTo, Rests
<1>3. QED
  BY <1>1, <1>2

LEMMA PauseAgainRests ==
  ASSUME OpFits
  PROVE  Rests(PauseAgain, "pause")
<1>1. Rests(GoesTo("pause"), "pause")
  BY GoesToRests DEF At, Resuming
<1>2. QED
  BY <1>1 DEF PauseAgain, Rests, OperationState

LEMMA RestsFits ==
  ASSUME NEW at \in At \ Waiting, Rests(op', at), replies' \in Seq({"pending", "ok", "refused"})
  PROVE  OpFits' /\ op'.at = at
BY DEF Rests, OpFits

LEMMA StaysFit ==
  ASSUME OpFits, op' = op, Len(replies) \in Nat, Len(replies') \in Nat,
         Len(replies) <= Len(replies')
  PROVE  OpFits'
BY DEF OpFits

LEMMA SendFits ==
  ASSUME OpFits, CommandType, NEW from, NEW kind, NEW next \in Waiting,
         Send(from, kind, next), next = "resume_wait" => op.target \in Active
  PROVE  OpFits' /\ op'.at = next
<1>1. /\ op' = [op EXCEPT !.at = next, !.waits = Len(replies) + 1]
      /\ Len(replies) \in Nat /\ Len(replies) < MaxCommands
      /\ Len(replies') = Len(replies) + 1
  BY DEF Send, PostCommand, CommandType
<1>2. /\ op' \in OperationState /\ op'.at = next /\ op'.waits = Len(replies) + 1
      /\ op'.target = op.target
  <2>1. Len(replies) + 1 \in 0..MaxCommands /\ op \in OperationState /\ next \in At
    BY <1>1, BoundAssumption DEF OpFits, At
  <2>2. QED
    BY <1>1, <2>1, OpSet, Zenon
<1>3. QED
  BY <1>1, <1>2 DEF OpFits, Waiting, Resuming

(* Steps that leave the operation where it is.                             *)
Aside ==
  \/ Engine \/ UngatedCommand \/ EnterDegrade \/ UNCHANGED allVars
  \/ Worker /\ UNCHANGED ctlVars

LEMMA AsideStays ==
  ASSUME Aside
  PROVE  op' = op /\ barred' = barred
BY Zenon DEF Aside, Engine, Enqueue, EngineDrain, EnginePause, ImportCheckpoint,
       UngatedCommand, EnterDegrade, allVars, ctlVars

(* What a step does to the operation: it keeps it well formed; a           *)
(* reconciliation reads only after its pause returned; a pause waits only  *)
(* for the command it sent.                                                *)
OpStep ==
  /\ OpFits'
  /\ op'.at \in Reading => op.at \in Reading \/ PauseReturns
  /\ op'.at = "pause_wait" => SendPause \/ op' = op

LEMMA RestsStep ==
  ASSUME NEW at \in At \ Waiting, Rests(op', at), CommandType',
         at \in Reading => op.at \in Reading \/ PauseReturns
  PROVE  OpStep
<1>1. OpFits' /\ op'.at = at
  BY RestsFits DEF CommandType
<1>2. QED
  BY <1>1 DEF OpStep, Waiting

LEMMA BeginSteps ==
  ASSUME OpFits, CommandType', mode \in Mode,
         BeginPause \/ BeginResume \/ BeginReconcile \/ BeginEmergency
  PROVE  OpStep
<1>1. CASE BeginPause
  <2>1. Rests(op', "pause")
    BY <1>1, BoundAssumption
       DEF BeginPause, Begin, Rests, OperationState, Resuming, Mode, Active
  <2>2. QED
    BY <2>1, RestsStep DEF At, Waiting, Reading
<1>2. CASE BeginResume
  <2>1. Rests(op', "resume")
    BY <1>2, BoundAssumption
       DEF BeginResume, Begin, Rests, OperationState, Resuming, Mode, Active
  <2>2. QED
    BY <2>1, RestsStep DEF At, Waiting, Reading
<1>3. CASE BeginReconcile
  <2>1. Rests(op', "pause")
    BY <1>3, BoundAssumption
       DEF BeginReconcile, Begin, Rests, OperationState, Resuming
  <2>2. QED
    BY <2>1, RestsStep DEF At, Waiting, Reading
<1>4. CASE BeginEmergency
  <2>1. Rests(op', "emergency")
    BY <1>4, IdleRests
       DEF BeginEmergency, Rests, OperationState, Resuming
  <2>2. QED
    BY <2>1, RestsStep DEF At, Waiting, Reading
<1>5. QED
  BY <1>1, <1>2, <1>3, <1>4

LEMMA SendSteps ==
  ASSUME OpFits, CommandType,
         SendPause \/ SendEmergency \/ SendSnapshot \/ SendAbort \/ SendResume
  PROVE  OpStep
<1>1. CASE SendPause
  <2>1. OpFits' /\ op'.at = "pause_wait"
    BY <1>1, SendFits DEF SendPause, Waiting
  <2>2. QED
    BY <1>1, <2>1 DEF OpStep, Reading
<1>2. CASE SendEmergency
  <2>1. OpFits' /\ op'.at = "emergency_wait"
    BY <1>2, SendFits DEF SendEmergency, Waiting
  <2>2. QED
    BY <2>1 DEF OpStep, Reading
<1>3. CASE SendSnapshot
  <2>1. OpFits' /\ op'.at = "snapshot_wait" /\ op.at = "snapshot"
    BY <1>3, SendFits DEF SendSnapshot, Send, Waiting
  <2>2. QED
    BY <2>1 DEF OpStep, Reading
<1>4. CASE SendAbort
  <2>1. OpFits' /\ op'.at = "abort_wait"
    BY <1>4, SendFits DEF SendAbort, Waiting
  <2>2. QED
    BY <2>1 DEF OpStep, Reading
<1>5. CASE SendResume
  <2>1. op.at = "resume" /\ op.target \in Active
    BY <1>5 DEF SendResume, Send, OpFits, Resuming
  <2>2. OpFits' /\ op'.at = "resume_wait"
    BY <1>5, <2>1, SendFits DEF SendResume, Waiting
  <2>3. QED
    BY <2>2 DEF OpStep, Reading
<1>6. QED
  BY <1>1, <1>2, <1>3, <1>4, <1>5

LEMMA ReplySteps ==
  ASSUME OpFits, CommandType',
         PauseReturns \/ EmergencyReturns \/ SnapshotReturns \/ AbortReturns
           \/ ResumeGranted \/ ResumeRefused \/ ReplyTimeout
  PROVE  OpStep
<1>1. CASE PauseReturns
  <2>1. op' = GoesTo(op.then) /\ op.then \in {"idle", "readback"}
    BY <1>1 DEF PauseReturns, Replied, OpFits, OperationState
  <2>2. PICK at \in {"idle", "readback"} : op' = GoesTo(at)
    BY <2>1
  <2>3. at \in At \ Waiting /\ at \notin Resuming
    BY <2>2 DEF At, Waiting, Resuming
  <2>4. QED
    BY <1>1, <2>2, <2>3, GoesToRests, RestsStep
<1>2. CASE EmergencyReturns \/ AbortReturns \/ ResumeRefused
  <2>1. op' = GoesTo("idle")
    BY <1>2 DEF EmergencyReturns, AbortReturns, ResumeRefused, Replied
  <2>2. "idle" \in At \ Waiting /\ "idle" \notin Resuming /\ "idle" \notin Reading
    BY DEF At, Waiting, Resuming, Reading
  <2>3. QED
    BY <2>1, <2>2, GoesToRests, RestsStep
<1>3. CASE SnapshotReturns
  <2>1. op' = GoesTo("confirm") /\ op.at \in Reading
    BY <1>3 DEF SnapshotReturns, Replied, Reading
  <2>2. "confirm" \in At \ Waiting /\ "confirm" \notin Resuming
    BY DEF At, Waiting, Resuming
  <2>3. QED
    BY <2>1, <2>2, GoesToRests, RestsStep
<1>4. CASE ResumeGranted
  <2>1. op' = GoesTo("commit") /\ op.target \in Active
    BY <1>4 DEF ResumeGranted, Replied, OpFits, Resuming
  <2>2. "commit" \in At \ Waiting /\ "commit" \notin Reading
    BY DEF At, Waiting, Reading
  <2>3. QED
    BY <2>1, <2>2, GoesToRests, RestsStep
<1>5. CASE ReplyTimeout
  <2>1. op' = PauseAgain \/ op' = Idle
    BY <1>5 DEF ReplyTimeout
  <2>2. {"idle", "pause"} \subseteq At \ Waiting
        /\ "idle" \notin Reading /\ "pause" \notin Reading
    BY DEF At, Waiting, Reading
  <2>3. QED
    BY <2>1, <2>2, IdleRests, PauseAgainRests, RestsStep
<1>6. QED
  BY <1>1, <1>2, <1>3, <1>4, <1>5

LEMMA LocalSteps ==
  ASSUME OpFits, CommandType',
         PauseEngine \/ ResumeRejected \/ ResumeCommit \/ ResumeAbort
           \/ DrainPausePrefix \/ CompareSnapshot
  PROVE  OpStep
<1>1. CASE PauseEngine
  <2>1. "pause_send" \in At \ Waiting /\ "pause_send" \notin Resuming \cup Reading
    BY DEF At, Waiting, Resuming, Reading
  <2>2. QED
    BY <1>1, <2>1, GoesToRests, RestsStep DEF PauseEngine
<1>2. CASE ResumeRejected \/ ResumeCommit
  <2>1. "idle" \in At \ Waiting /\ "idle" \notin Reading
    BY DEF At, Waiting, Reading
  <2>2. QED
    BY <1>2, <2>1, IdleRests, RestsStep DEF ResumeRejected, ResumeCommit
<1>3. CASE ResumeAbort
  <2>1. "abort" \in At \ Waiting /\ "abort" \notin Resuming \cup Reading
    BY DEF At, Waiting, Resuming, Reading
  <2>2. QED
    BY <1>3, <2>1, GoesToRests, RestsStep DEF ResumeAbort
<1>4. CASE DrainPausePrefix
  <2>1. op.at \in Reading /\ \E at \in {"snapshot", "idle"} : op' = GoesTo(at)
    BY <1>4 DEF DrainPausePrefix, Reading
  <2>2. PICK at \in {"snapshot", "idle"} : op' = GoesTo(at)
    BY <2>1
  <2>3. at \in At \ Waiting /\ at \notin Resuming
    BY DEF At, Waiting, Resuming
  <2>4. QED
    BY <2>1, <2>2, <2>3, GoesToRests, RestsStep
<1>5. CASE CompareSnapshot
  <2>1. \/ op' = PauseAgain
        \/ op' = GoesTo("resume") /\ op.target \in Active
        \/ op' = GoesTo("idle")
    BY <1>5 DEF CompareSnapshot
  <2>2. /\ {"pause", "resume", "idle"} \subseteq At \ Waiting
        /\ {"pause", "resume", "idle"} \cap Reading = {}
        /\ "idle" \notin Resuming
    BY DEF At, Waiting, Resuming, Reading
  <2>3. CASE op' = PauseAgain
    BY <2>2, <2>3, PauseAgainRests, RestsStep
  <2>4. CASE op' = GoesTo("resume") /\ op.target \in Active
    BY <2>2, <2>4, GoesToRests, RestsStep
  <2>5. CASE op' = GoesTo("idle")
    BY <2>2, <2>5, GoesToRests, RestsStep
  <2>6. QED
    BY <2>1, <2>3, <2>4, <2>5
<1>6. QED
  BY <1>1, <1>2, <1>3, <1>4, <1>5

LEMMA RepliesGrow ==
  ASSUME CommandType, [Next]_vars
  PROVE  Len(replies) \in Nat /\ Len(replies') \in Nat /\ Len(replies) <= Len(replies')
<1>1. CommandType'
  BY CommandStep
<1>2. Len(replies) \in Nat /\ Len(replies') \in Nat
  BY <1>1 DEF CommandType
<1>3. CASE HandleCommand
  <2>1. Reply("ok") \/ Reply("refused")
    BY <1>3, Zenon DEF HandleCommand, EnableIntake, DisableIntake, EnterEmergency,
           CancelOrders, ReplaceOrder, ReconcileSnapshot
  <2>2. DOMAIN replies' = DOMAIN replies
    BY <2>1 DEF Reply
  <2>3. Len(replies') = Len(replies)
    BY <1>1, <2>2 DEF CommandType
  <2>4. QED
    BY <1>2, <2>3
<1>4. CASE UNCHANGED replies
  BY <1>2, <1>4
<1>5. ASSUME NEW kind, PostCommand(kind)
      PROVE  Len(replies) <= Len(replies')
  BY <1>2, <1>5 DEF PostCommand, CommandType
<1>6. CASE PrivateEvent
  BY <1>2, <1>4, <1>6, Zenon DEF PrivateEvent, ConnectionStatus, StreamBarrier,
              StreamSynchronized, EventsMissed, StreamFailed, Misrouted,
              OrderEvent, TakeEvent
<1>7. CASE Loop /\ ~HandleCommand
  BY <1>2, <1>4, <1>7 DEF Loop, ControlDrained, PollEnds, PollApplied,
              RetryStreamRecovery, ReceiveEnvelopes, RejectIntent,
              SubmitIntent, PlacementReturns, CheckAckTimeouts,
              PeriodicReconcile, Wake
<1>8. CASE Neighbours
  BY <1>2, <1>4, <1>5, <1>8
     DEF Neighbours, EnqueueIntent, EngineReports, ClearHalt, SendCommand
<1>9. CASE UNCHANGED vars
  BY <1>2, <1>4, <1>9 DEF vars
<1>10. QED
  BY <1>2, <1>3, <1>6, <1>7, <1>8, <1>9 DEF Next, Worker

LEMMA OperationStep ==
  ASSUME PlaneType, CommandType, [ControlNext]_allVars
  PROVE  OpStep
<1>1. OpFits /\ mode \in Mode
  BY DEF PlaneType, OpFits
<1>2. CommandType'
  BY ControlIsNext, CommandStep
<1>3. CASE Aside
  <2>1. op' = op
    BY <1>3, AsideStays
  <2>2. OpFits'
    BY <1>1, <2>1, ControlIsNext, RepliesGrow, StaysFit
  <2>3. QED
    BY <2>1, <2>2 DEF OpStep
<1>4. CASE Operation /\ ~EnterDegrade
  BY <1>1, <1>2, <1>4, BeginSteps, SendSteps, ReplySteps, LocalSteps DEF Operation
<1>5. QED
  BY <1>3, <1>4 DEF ControlNext, Aside

(* The engine's mode and its reservations.                                 *)

LEMMA PauseIsInactive ==
  ASSUME PauseTrading, mode \in Mode
  PROVE  mode' \in Mode \ Active /\ (mode' = "emergency" => mode = "emergency")
BY DEF PauseTrading, Mode, Active

(* What a step does to the mode: trading stops with every halt and every   *)
(* doubt, and only BeginEmergency enters the emergency mode.               *)
ModeStep ==
  /\ mode' \in Mode /\ unconfirmed' \in BOOLEAN
  /\ HaltStopsTrading'
  /\ mode' = "emergency" => mode = "emergency" \/ BeginEmergency

LEMMA ApplyMode ==
  ASSUME PlaneType, HaltStopsTrading, FaultHalts, NEW n, NEW failed,
         NEW doubt \in BOOLEAN, ApplyReports(n, failed, doubt)
  PROVE  ModeStep
<1>1. CASE failed # {} \/ doubt
  <2>1. unconfirmed' = TRUE /\ PauseTrading
    BY <1>1 DEF ApplyReports
  <2>2. QED
    BY <2>1, PauseIsInactive DEF PlaneType, ModeStep, HaltStopsTrading
<1>2. CASE ~(failed # {} \/ doubt)
  <2>1. UNCHANGED <<mode, unconfirmed>>
    BY <1>2 DEF ApplyReports
  <2>2. halted' = halted
    BY <1>2 DEF ApplyReports, DrainReports, FaultHalts
  <2>3. QED
    BY <2>1, <2>2 DEF PlaneType, ModeStep, HaltStopsTrading
<1>3. QED
  BY <1>1, <1>2

LEMMA HaltedStays ==
  ASSUME UNCHANGED <<mode, unconfirmed, halted>>, PlaneType, HaltStopsTrading
  PROVE  ModeStep
BY DEF PlaneType, ModeStep, HaltStopsTrading

LEMMA OperationMode ==
  ASSUME PlaneType, HaltStopsTrading, FaultHalts, Operation
  PROVE  ModeStep
<1>1. CASE UNCHANGED <<workerVars, engineCtl>>
  BY <1>1, HaltedStays DEF workerVars, engineCtl, engineVars
<1>2. CASE BeginPause \/ BeginResume \/ BeginReconcile \/ ReplyTimeout
           \/ ResumeRejected
  BY <1>1, <1>2 DEF BeginPause, BeginResume, BeginReconcile, Begin,
                    ReplyTimeout, ResumeRejected
<1>3. CASE PauseReturns \/ EmergencyReturns \/ SnapshotReturns \/ AbortReturns
           \/ ResumeGranted \/ ResumeRefused
  BY <1>1, <1>3
     DEF PauseReturns, EmergencyReturns, SnapshotReturns, AbortReturns,
         ResumeGranted, ResumeRefused, Replied
<1>4. CASE SendPause \/ SendEmergency \/ SendSnapshot \/ SendAbort \/ SendResume
  BY <1>1, <1>4
     DEF SendPause, SendEmergency, SendSnapshot, SendAbort, SendResume, Send
<1>5. CASE BeginEmergency
  BY <1>5 DEF BeginEmergency, ModeStep, PlaneType, HaltStopsTrading, Mode,
              Active, workerVars, engineVars
<1>6. CASE EnterDegrade
  BY <1>6 DEF EnterDegrade, ModeStep, PlaneType, HaltStopsTrading, Mode,
              Active, workerVars, engineVars
<1>7. CASE PauseEngine \/ ResumeAbort
  <2>1. PauseTrading /\ UNCHANGED unconfirmed
    BY <1>7 DEF PauseEngine, ResumeAbort
  <2>2. QED
    BY <2>1, PauseIsInactive DEF PlaneType, ModeStep, HaltStopsTrading
<1>8. CASE ResumeCommit
  <2>1. /\ mode' = op.target /\ op.target \in Active
        /\ ~halted /\ ~unconfirmed /\ UNCHANGED <<halted, unconfirmed>>
    BY <1>8 DEF ResumeCommit, ResumeReady, PlaneType, Resuming, workerVars,
                engineVars
  <2>2. QED
    BY <2>1 DEF PlaneType, ModeStep, HaltStopsTrading, Mode, Active
<1>9. CASE DrainPausePrefix
  <2>1. CASE UNCHANGED <<workerVars, channelVars, engineCtl>>
    BY <1>1, <2>1
  <2>2. QED
    BY <1>9, <2>1, ApplyMode DEF DrainPausePrefix
<1>10. CASE CompareSnapshot
  <2>1. UNCHANGED <<mode, halted>> /\ (unconfirmed' => unconfirmed)
        /\ unconfirmed' \in BOOLEAN
    BY <1>10, Zenon DEF CompareSnapshot, workerVars, engineVars
  <2>2. QED
    BY <2>1 DEF PlaneType, ModeStep, HaltStopsTrading
<1>11. QED
  BY <1>2, <1>3, <1>4, <1>5, <1>6, <1>7, <1>8, <1>9, <1>10 DEF Operation

LEMMA PlaneMode ==
  ASSUME PlaneType, HaltStopsTrading, FaultHalts, [ControlNext]_allVars
  PROVE  ModeStep
<1>1. CASE Operation
  BY <1>1, OperationMode
<1>2. ASSUME NEW i \in Intent, Enqueue(i)
      PROVE  ModeStep
  BY <1>2, HaltedStays DEF Enqueue, EnqueueIntent, engineVars
<1>3. CASE EngineDrain
  BY <1>3, ApplyMode DEF EngineDrain
<1>4. CASE EnginePause
  <2>1. PauseTrading /\ unconfirmed' \in BOOLEAN
    BY <1>4, Zenon DEF EnginePause, PlaneType
  <2>2. QED
    BY <2>1, PauseIsInactive DEF PlaneType, ModeStep, HaltStopsTrading
<1>5. CASE ImportCheckpoint
  <2>1. mode' = mode /\ mode \notin Active /\ unconfirmed' = TRUE
    BY <1>5 DEF ImportCheckpoint, ClearHalt, HaltStopsTrading
  <2>2. QED
    BY <2>1 DEF PlaneType, ModeStep, HaltStopsTrading
<1>6. CASE UngatedCommand
  BY <1>6, HaltedStays DEF UngatedCommand, SendCommand, engineVars, ctlVars,
                           engineCtl
<1>7. CASE Worker /\ UNCHANGED ctlVars
  <2>1. halted' = halted
    <3>1. CASE HandleCommand
      BY <3>1 DEF HandleCommand, EnableIntake, DisableIntake, EnterEmergency,
                  CancelOrders, ReplaceOrder, ReconcileSnapshot, TakeCommand,
                  engineVars
    <3>2. CASE PrivateEvent
      BY <3>2, Zenon DEF PrivateEvent, ConnectionStatus, StreamBarrier,
                  StreamSynchronized, EventsMissed, StreamFailed, Misrouted,
                  OrderEvent, TakeEvent, engineVars
    <3>3. CASE Loop /\ ~HandleCommand
      BY <3>3 DEF Loop, ControlDrained, PollEnds, PollApplied,
                  RetryStreamRecovery, ReceiveEnvelopes, RejectIntent,
                  SubmitIntent, PlacementReturns, CheckAckTimeouts,
                  PeriodicReconcile, Wake, engineVars
    <3>4. QED
      BY <1>7, <3>1, <3>2, <3>3 DEF Worker
  <2>2. QED
    BY <1>7, <2>1, HaltedStays DEF ctlVars, engineCtl
<1>8. CASE UNCHANGED allVars
  BY <1>8, HaltedStays DEF allVars, vars, engineVars, ctlVars, engineCtl
<1>9. QED
  BY <1>1, <1>2, <1>3, <1>4, <1>5, <1>6, <1>7, <1>8 DEF ControlNext, Engine

(* A reservation is released only by a report of a decided intent.         *)
LEMMA ApplyReserved ==
  ASSUME WorkerInv, UndecidedIsReserved, NEW n, NEW failed, NEW doubt,
         ApplyReports(n, failed, doubt)
  PROVE  UndecidedIsReserved' /\ queued' \subseteq queued
<1>1. /\ DrainReports(n, failed # {}) /\ queued' = queued \ Settled(n, failed)
      /\ n \in 1..Len(reports)
  BY DEF ApplyReports, DrainReports
<1>2. Settled(n, failed) \subseteq submitted \cup rejected
  <2>1. ASSUME NEW i \in Settled(n, failed) PROVE i \in submitted \cup rejected
    <3>1. PICK k \in 1..n : reports[k] \in {[kind |-> "new", intent |-> i],
                                            [kind |-> "unsent", intent |-> i]}
      BY <2>1 DEF Settled
    <3>2. k \in DOMAIN reports
      BY <1>1, <3>1 DEF WorkerInv, TypeInv, IntentType
    <3>3. reports[k].kind \in {"new", "unsent"} /\ reports[k].intent = i
      BY <3>1
    <3>4. QED
      BY <3>2, <3>3, Zenon DEF WorkerInv, QueueInv, Told
  <2>2. QED
    BY <2>1
<1>3. Undecided \cap (submitted \cup rejected) = {}
  BY DEF WorkerInv, QueueInv, Undecided
<1>4. Undecided' = Undecided
  BY <1>1 DEF DrainReports, Undecided
<1>5. QED
  BY <1>1, <1>2, <1>3, <1>4 DEF UndecidedIsReserved

(* The steps of the control plane, by what they do to queues and           *)
(* reservations.                                                           *)
Applies == \E n \in 1..Len(reports) : \E failed, doubt : ApplyReports(n, failed, doubt)
Enqueues == \E i \in Intent : Enqueue(i)
Leaves == UNCHANGED queued /\ (UNCHANGED workerVars \/ ClearHalt \/ Worker)

LEMMA OperationKinds ==
  ASSUME Operation
  PROVE  Leaves \/ Applies
<1>1. CASE BeginPause \/ BeginResume \/ BeginReconcile \/ BeginEmergency
           \/ EnterDegrade \/ PauseEngine \/ ReplyTimeout \/ ResumeRejected
           \/ ResumeCommit \/ ResumeAbort \/ CompareSnapshot
  BY <1>1, Zenon
     DEF Leaves, BeginPause, BeginResume, BeginReconcile, Begin, BeginEmergency,
         EnterDegrade, PauseEngine, ReplyTimeout, ResumeRejected, ResumeCommit,
         ResumeAbort, CompareSnapshot, engineCtl
<1>2. CASE PauseReturns \/ EmergencyReturns \/ SnapshotReturns \/ AbortReturns
           \/ ResumeGranted \/ ResumeRefused
  BY <1>2, Zenon
     DEF Leaves, PauseReturns, EmergencyReturns, SnapshotReturns, AbortReturns,
         ResumeGranted, ResumeRefused, Replied, engineCtl
<1>3. CASE SendPause \/ SendEmergency \/ SendSnapshot \/ SendAbort \/ SendResume
  BY <1>3, Zenon
     DEF Leaves, SendPause, SendEmergency, SendSnapshot, SendAbort, SendResume,
         Send, engineCtl
<1>4. CASE DrainPausePrefix
  <2>1. ASSUME NEW failed, NEW doubt, ApplyReports(Len(reports), failed, doubt)
        PROVE  Applies
    <3>1. Len(reports) \in 1..Len(reports)
      BY <2>1 DEF ApplyReports, DrainReports
    <3>2. QED
      BY <2>1, <3>1, Zenon DEF Applies
  <2>2. QED
    BY <1>4, <2>1, Zenon DEF DrainPausePrefix, Leaves, engineCtl
<1>5. QED
  BY <1>1, <1>2, <1>3, <1>4, Zenon DEF Operation

LEMMA PlaneKinds ==
  ASSUME [ControlNext]_allVars
  PROVE  Leaves \/ Applies \/ Enqueues
<1>1. CASE Operation
  BY <1>1, OperationKinds
<1>2. CASE \E i \in Intent : Enqueue(i)
  BY <1>2 DEF Enqueues
<1>3. CASE EngineDrain
  BY <1>3, Zenon DEF EngineDrain, Applies
<1>4. CASE EnginePause \/ ImportCheckpoint
  BY <1>4, Zenon DEF EnginePause, ImportCheckpoint, Leaves
<1>5. CASE UngatedCommand
  BY <1>5 DEF UngatedCommand, SendCommand, Leaves, workerVars, ctlVars, engineCtl
<1>6. CASE Worker /\ UNCHANGED ctlVars
  BY <1>6 DEF Leaves, ctlVars, engineCtl
<1>7. CASE UNCHANGED allVars
  BY <1>7 DEF Leaves, allVars, vars, workerVars, ctlVars, engineCtl
<1>8. QED
  BY <1>1, <1>2, <1>3, <1>4, <1>5, <1>6, <1>7 DEF ControlNext, Engine

LEMMA LeavesSettles ==
  ASSUME WorkerInv, Leaves
  PROVE  Settles
<1>1. QueueInv /\ IntentType /\ LoopType
  BY DEF WorkerInv, TypeInv
<1>2. CASE UNCHANGED workerVars \/ ClearHalt
  <2>1. UNCHANGED <<ring, batch, submitted, rejected, reports, wpc>>
    BY <1>2 DEF workerVars, ClearHalt, queueVars
  <2>2. QED
    BY <1>1, <2>1, QueuesStay DEF QueueInv
<1>3. QED
  BY <1>1, <1>2, WorkerSettles DEF Leaves

LEMMA AppliesSettles ==
  ASSUME WorkerInv, Applies
  PROVE  Settles
<1>1. QueueInv /\ IntentType
  BY DEF WorkerInv, TypeInv
<1>2. QED
  BY <1>1, DrainSettles DEF Applies, ApplyReports

LEMMA PlaneReserved ==
  ASSUME PlaneType, WorkerInv, UndecidedIsReserved, [ControlNext]_allVars
  PROVE  UndecidedIsReserved' /\ queued' \subseteq Intent
<1>1. CASE Leaves
  BY <1>1, LeavesSettles DEF Leaves, Settles, UndecidedIsReserved, PlaneType
<1>2. CASE Applies
  BY <1>2, ApplyReserved DEF Applies, PlaneType
<1>3. CASE Enqueues
  <2>1. PICK i \in Intent : EnqueueIntent(i) /\ queued' = queued \cup {i}
    BY <1>3 DEF Enqueues, Enqueue
  <2>2. Undecided' = Undecided \cup {i}
    BY <2>1, EnqueueApart DEF WorkerInv, TypeInv
  <2>3. QED
    BY <2>1, <2>2 DEF UndecidedIsReserved, PlaneType
<1>4. QED
  BY <1>1, <1>2, <1>3, PlaneKinds

(* Barred intents: none is enqueued again, and while one is undecided the  *)
(* intake is shut.                                                         *)
LEMMA BarredStep ==
  ASSUME PlaneInv, WorkerInv, [ControlNext]_allVars, barred' = barred
  PROVE  /\ barred' \subseteq Known'
         /\ barred' \cap Undecided' # {} => Shut'
<1>1. barred \subseteq Known /\ (barred \cap Undecided # {} => Shut)
  BY DEF PlaneInv
<1>2. Known \subseteq Known' /\ barred \cap Undecided' \subseteq barred \cap Undecided
  <2>1. CASE Settles
    BY <2>1 DEF Settles
  <2>2. CASE Enqueues
    <3>1. PICK i \in Intent : EnqueueIntent(i)
      BY <2>2 DEF Enqueues, Enqueue
    <3>2. Known \subseteq Known' /\ i \notin Known /\ Undecided' = Undecided \cup {i}
      BY <3>1, EnqueueApart DEF WorkerInv, TypeInv
    <3>3. QED
      BY <1>1, <3>2
  <2>3. QED
    BY <2>1, <2>2, PlaneKinds, LeavesSettles, AppliesSettles
<1>3. SendResume => Undecided = {}
  BY DEF SendResume, ResumeReady, PlaneInv, UndecidedIsReserved
<1>4. QED
  BY <1>1, <1>2, <1>3, PlaneChannel DEF Channel

(* A pause that returned left the intake shut.                             *)
LEMMA ReturnedIsShut ==
  ASSUME PlaneInv, PauseReturns
  PROVE  Shut
<1>1. op.at = "pause_wait" /\ replies[op.waits] = "ok"
  BY DEF PauseReturns, Replied
<1>2. Disables(op.waits)
  BY <1>1 DEF PlaneInv
<1>3. QED
  BY <1>1, <1>2 DEF Disables

LEMMA PlaneStep ==
  ASSUME PlaneInv, WorkerInv, [ControlNext]_allVars
  PROVE  PlaneInv'
<1>1. PlaneType /\ CommandType /\ Ordered /\ FaultHalts
  BY DEF PlaneInv, WorkerInv, TypeInv
<1>2. OpStep
  BY <1>1, OperationStep
<1>3. ModeStep
  BY <1>1, PlaneMode DEF PlaneInv
<1>4. UndecidedIsReserved' /\ queued' \subseteq Intent
  BY <1>1, PlaneReserved DEF PlaneInv
<1>5. ~SendResume => Channel
  BY PlaneChannel
<1>6. barred' = barred \/ PauseReturns
  <2>1. CASE Aside
    BY <2>1, AsideStays
  <2>2. CASE Operation
    BY <2>2, Zenon
       DEF Operation, BeginPause, BeginResume, BeginReconcile, Begin,
           BeginEmergency, EnterDegrade, PauseEngine, SendPause, SendEmergency,
           SendSnapshot, SendAbort, SendResume, Send, EmergencyReturns,
           SnapshotReturns, AbortReturns, ResumeGranted, ResumeRefused,
           ReplyTimeout, ResumeRejected, ResumeCommit, ResumeAbort,
           DrainPausePrefix, CompareSnapshot
  <2>3. QED
    BY <2>1, <2>2 DEF ControlNext, Aside
<1>7. PauseReturns => Shut' /\ UNCHANGED <<ring, batch, submitted, rejected>>
  <2>1. PauseReturns => UNCHANGED <<workerVars, channelVars>>
    BY DEF PauseReturns, Replied
  <2>2. QED
    BY <2>1, ReturnedIsShut
       DEF Shut, NoneEnables, workerVars, channelVars, queueVars
<1>8. barred' \subseteq Known' /\ (barred' \cap Undecided' # {} => Shut')
  <2>1. CASE barred' = barred
    BY <2>1, BarredStep
  <2>2. CASE PauseReturns
    <3>1. barred' = barred \cup Undecided /\ Known' = Known /\ Undecided \subseteq Known
      BY <1>7, <2>2 DEF PauseReturns, Known, Undecided
    <3>2. QED
      BY <1>7, <2>2, <3>1 DEF PlaneInv
  <2>3. QED
    BY <1>6, <2>1, <2>2
<1>9. PlaneType'
  <2>1. OpFits'
    BY <1>2 DEF OpStep
  <2>2. barred' \subseteq Intent
    <3>1. IntentType
      BY DEF WorkerInv, TypeInv
    <3>2. Undecided \subseteq Intent
      BY <3>1, UnsentType DEF Undecided, IntentType
    <3>3. QED
      BY <1>1, <1>6, <3>2 DEF PauseReturns, PlaneType
  <2>3. QED
    BY <1>3, <1>4, <2>1, <2>2 DEF PlaneType, OpFits, ModeStep
<1>10. mode' = "emergency" => Closing'
  <2>1. CASE BeginEmergency
    <3>1. PostCommand("intake_off") /\ w' = w
      BY <2>1 DEF BeginEmergency, workerVars
    <3>2. QED
      BY <1>1, <3>1, ChannelPosts
  <2>2. CASE SendResume
    BY <2>2 DEF SendResume, Send, engineCtl
  <2>3. CASE ~BeginEmergency /\ ~SendResume
    BY <1>3, <1>5, <2>3 DEF ModeStep, PlaneInv, Channel
  <2>4. QED
    BY <2>1, <2>2, <2>3
<1>11. op'.at = "pause_wait" => Disables(op.waits)'
  <2>1. SUFFICES ASSUME op'.at = "pause_wait" PROVE Disables(op.waits)'
    OBVIOUS
  <2>2. PICK k : k = op'.waits
    OBVIOUS
  <2>3. Disables(k)'
    <3>1. CASE SendPause
      <4>1. PostCommand("intake_off") /\ w' = w
        BY <3>1 DEF SendPause, Send, workerVars
      <4>2. k = Len(replies) + 1
        <5>1. /\ op \in OperationState
              /\ op' = [op EXCEPT !.at = "pause_wait", !.waits = Len(replies) + 1]
          BY <1>1, <3>1 DEF SendPause, Send, PlaneType
        <5>2. QED
          BY <2>2, <5>1 DEF OperationState
      <4>3. QED
        BY <1>1, <4>1, <4>2, ChannelPosts
    <3>2. CASE op' = op
      <4>1. ~SendResume
        BY <2>1, <3>2 DEF SendResume, Send
      <4>2. Disables(k) /\ k \in 1..Len(replies)
        <5>1. Disables(k)
          BY <2>1, <2>2, <3>2 DEF PlaneInv
        <5>2. k \in 0..Len(replies) /\ k # 0 /\ Len(replies) \in Nat
          BY <1>1, <2>1, <2>2, <3>2 DEF PlaneType, Waiting, CommandType
        <5>3. QED
          BY <5>1, <5>2
      <4>3. QED
        BY <1>5, <4>1, <4>2 DEF Channel
    <3>3. QED
      BY <1>2, <2>1, <3>1, <3>2 DEF OpStep
  <2>4. QED
    BY <2>2, <2>3, Zenon DEF Disables
<1>12. op'.at \in Reading => Shut'
  <2>1. SUFFICES ASSUME op'.at \in Reading PROVE Shut'
    OBVIOUS
  <2>2. CASE PauseReturns
    BY <1>7, <2>2
  <2>3. CASE op.at \in Reading
    <3>1. ~SendResume
      BY <2>3 DEF SendResume, Send, Reading
    <3>2. QED
      BY <1>5, <2>3, <3>1 DEF Channel, PlaneInv
  <2>4. QED
    BY <1>2, <2>1, <2>2, <2>3 DEF OpStep
<1>13. QED
  BY <1>3, <1>4, <1>8, <1>9, <1>10, <1>11, <1>12 DEF PlaneInv, ModeStep

(* The inductive invariant of the control plane.                           *)
THEOREM PlaneInvariant == ControlSpec => [](PlaneInv /\ WorkerInv)
<1>1. ControlInit => PlaneInv
  <2>1. SUFFICES ASSUME ControlInit PROVE PlaneInv
    OBVIOUS
  <2>2. /\ mode = "normal" /\ queued = {} /\ unconfirmed = FALSE /\ op = Idle
        /\ barred = {} /\ ring = <<>> /\ batch = <<>> /\ replies = <<>>
        /\ halted = FALSE
    BY <2>1 DEF ControlInit, Init
  <2>3. PlaneType
    <3>1. /\ Len(replies) = 0 /\ Idle \in OperationState
          /\ Idle.at = "idle" /\ Idle.waits = 0
      BY <2>2, IdleRests DEF Rests
    <3>2. unconfirmed \in BOOLEAN
      BY <2>2, Zenon
    <3>3. QED
      BY <2>2, <3>1, <3>2 DEF PlaneType, Mode, Active, Waiting, Resuming
  <2>4. Undecided = {}
    BY <2>2, EmptyRange DEF Undecided
  <2>5. QED
    BY <2>2, <2>3, <2>4
       DEF PlaneInv, HaltStopsTrading, UndecidedIsReserved, Idle, Reading
<1>2. PlaneInv /\ WorkerInv /\ [ControlNext]_allVars => PlaneInv'
  BY PlaneStep
<1>3. QED
  BY <1>1, <1>2, ControlImplementsWorker, WorkerInvariant, PTL DEF ControlSpec

(* While a report could not be applied, or the reservations await their    *)
(* readback, the engine does not trade, whatever operation is in flight.   *)
THEOREM HaltedNeverTrades == ControlSpec => []HaltStopsTrading
<1>1. PlaneInv => HaltStopsTrading
  BY DEF PlaneInv
<1>2. QED
  BY <1>1, PlaneInvariant, PTL

(* The state invariant of the control plane: types, a reservation behind   *)
(* every intent the worker may still submit, and no enabling command       *)
(* behind an emergency stop.                                               *)
THEOREM ControlSafe == ControlSpec => []ControlInv
<1>1. PlaneInv /\ WorkerInv /\ TypeOK => ControlInv
  <2>1. SUFFICES ASSUME PlaneInv, WorkerInv, TypeOK PROVE ControlInv
    OBVIOUS
  <2>2. ControlTypeOK
    BY <2>1 DEF PlaneInv, PlaneType, ControlTypeOK
  <2>3. EmergencyWins
    <3>1. w.accepting => w.operator
      BY <2>1 DEF WorkerInv, IntakeInv, Sound, Latched
    <3>2. QED
      BY <2>1, <3>1, Zenon DEF PlaneInv, EmergencyWins, Closing, Shut
  <2>4. QED
    BY <2>1, <2>2, <2>3 DEF ControlInv, PlaneInv
<1>2. QED
  BY <1>1, PlaneInvariant, ControlImplementsWorker, TypeCorrect, PTL

(* An intent that is submitted was undecided, and the intake was open.     *)
LEMMA SubmittedWasUndecided ==
  ASSUME WorkerInv, [Next]_vars, submitted' # submitted
  PROVE  w.operator /\ submitted' \ submitted \subseteq Undecided
<1>1. w.accepting
  BY SubmissionNeedsIntake
<1>2. w.operator
  BY <1>1 DEF WorkerInv, IntakeInv, Sound, Latched
<1>3. SubmitIntent
  <2>1. CASE HandleCommand
    BY <2>1, Zenon DEF HandleCommand, EnableIntake, DisableIntake, EnterEmergency,
                CancelOrders, ReplaceOrder, ReconcileSnapshot, TakeCommand
  <2>2. CASE PrivateEvent
    BY <2>2, Zenon DEF PrivateEvent, ConnectionStatus, StreamBarrier,
                StreamSynchronized, EventsMissed, StreamFailed, Misrouted,
                OrderEvent, TakeEvent
  <2>3. CASE Loop /\ ~HandleCommand
    BY <2>3 DEF Loop, ControlDrained, PollEnds, PollApplied,
                RetryStreamRecovery, ReceiveEnvelopes, RejectIntent,
                PlacementReturns, CheckAckTimeouts, PeriodicReconcile, Wake,
                queueVars
  <2>4. CASE Neighbours \/ UNCHANGED vars
    BY <2>4 DEF Neighbours, EnqueueIntent, EngineReports, DrainReports,
                ClearHalt, SendCommand, vars, queueVars
  <2>5. QED
    BY <2>1, <2>2, <2>3, <2>4 DEF Next, Worker
<1>4. Head(batch) \in Range(batch)
  BY <1>3, HeadApart
     DEF SubmitIntent, WorkerInv, TypeInv, IntentType, LoopType, QueueInv
<1>5. QED
  BY <1>2, <1>3, <1>4 DEF SubmitIntent, Undecided

(* Once pause_trading has returned, no intent enqueued before it is ever   *)
(* submitted, not even from a batch the worker had already taken.          *)
THEOREM PauseIsFinal == ControlSpec => PausedIntentsStayUnsent
<1>1. PlaneInv /\ WorkerInv /\ [ControlNext]_allVars
        => [barred \cap (submitted' \ submitted) = {}]_allVars
  <2>1. SUFFICES ASSUME PlaneInv, WorkerInv, [ControlNext]_allVars,
                        submitted' # submitted
                 PROVE  barred \cap (submitted' \ submitted) = {}
    OBVIOUS
  <2>2. w.operator /\ submitted' \ submitted \subseteq Undecided
    BY <2>1, ControlIsNext, SubmittedWasUndecided
  <2>3. barred \cap Undecided = {}
    BY <2>1, <2>2 DEF PlaneInv, Shut
  <2>4. QED
    BY <2>2, <2>3
<1>2. QED
  BY <1>1, PlaneInvariant, PTL DEF ControlSpec, PausedIntentsStayUnsent

(* From the pause acknowledgement of a guarded reconciliation to its       *)
(* verdict nothing is submitted.                                           *)
THEOREM ReadbackIsQuiet == ControlSpec => SnapshotIsQuiet
<1>1. PlaneInv /\ WorkerInv /\ [ControlNext]_allVars
        => [(op.at \in {"readback", "snapshot", "snapshot_wait", "confirm"})
              => submitted' = submitted]_allVars
  <2>1. SUFFICES ASSUME PlaneInv, WorkerInv, [ControlNext]_allVars,
                        op.at \in Reading, submitted' # submitted
                 PROVE  FALSE
    BY Zenon DEF Reading
  <2>2. w.operator
    BY <2>1, ControlIsNext, SubmittedWasUndecided
  <2>3. QED
    BY <2>1, <2>2 DEF PlaneInv, Shut
<1>2. QED
  BY <1>1, PlaneInvariant, PTL DEF ControlSpec, SnapshotIsQuiet

=============================================================================
