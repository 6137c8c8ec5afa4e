--------------------------- MODULE ExecutionWorker ---------------------------
(***************************************************************************)
(* The execution worker of market-core/engine: one task that owns the      *)
(* execution clients.  It takes order intents from the engine's FIFO,      *)
(* decides whether each may still be submitted, follows the private        *)
(* execution streams of its clients, and obeys a FIFO of control commands. *)
(*                                                                         *)
(* The worker state that the intake decision rests on is the record `w`.   *)
(* Its handlers are functions from one such record to the next, because    *)
(* the code composes them inside one uninterrupted step (an event updates  *)
(* the connection tracking and may then complete a recovery).  A step ends *)
(* where the task awaits something another task can change.                *)
(*                                                                         *)
(* The engine appears only by what the worker sees of it: it enqueues      *)
(* intents, applies reports in FIFO order and acknowledges stream markers. *)
(* The clients' adapters and the venue are the environment: what a poll    *)
(* returns, what a placement answers and what a snapshot shows are chosen  *)
(* freely among the outcomes the code distinguishes.                       *)
(***************************************************************************)
EXTENDS Integers, Sequences, Functions

CONSTANTS
  Client,        \* the execution clients, one private stream each
  Intent,        \* order intents, each enqueued at most once
  BatchSize,     \* intents taken from the FIFO at once
  EventLimit,    \* private events handled per poll
  MaxStream,     \* bound: stream generations opened by the adapters
  MaxEvents,     \* bound: private events delivered
  MaxCommands    \* bound: control commands sent

ASSUME BatchAssumption ==
  /\ BatchSize \in Nat \ {0}
  /\ EventLimit \in Nat \ {0}

ASSUME BoundAssumption ==
  MaxStream \in Nat /\ MaxEvents \in Nat /\ MaxCommands \in Nat

VARIABLES
  w,          \* the intake latches and the stream tracking, a WorkerState
  wpc,        \* where the task is in its loop
  polled,     \* private events handled by the current poll
  ring,       \* the intent FIFO between engine and worker
  batch,      \* intents already taken, not yet decided (head first)
  unacked,    \* orders waiting for the venue's acknowledgement
  cancelSent, \* those whose timeout cancellation was sent
  control,    \* the control FIFO
  replies,    \* command id -> what its reply channel was sent
  reports,    \* the report FIFO from worker to engine
  applied,    \* stream markers the engine acknowledged, not yet polled
  halted,     \* the engine's reconciliation_halt latch
  streams,    \* stream generations opened so far, over all clients
  events,     \* private events delivered so far
  submitted,  \* history: intents handed to an adapter
  rejected,   \* history: intents reported as never submitted
  confirmed,  \* history: stream markers the engine acknowledged
  faulted,    \* history: a report failed and no checkpoint replaced it
  stale       \* history: intents that were already queued, undecided, when
              \* the engine acknowledged a stream marker

queueVars  == <<ring, batch, submitted, rejected, stale>>
ackVars    == <<unacked, cancelSent>>
engineVars == <<applied, halted, confirmed, faulted>>
envVars    == <<streams, events>>
vars == <<w, wpc, polled, queueVars, ackVars, control, replies, reports,
          engineVars, envVars>>

None == 0   \* no stream generation: identifiers start at one

StreamId == 1..MaxStream

WorkerState ==
  [accepting : BOOLEAN, operator : BOOLEAN, emergency : BOOLEAN,
   recovery : BOOLEAN, drain : BOOLEAN,
   connected : [Client -> BOOLEAN],
   barrier : [Client -> StreamId \cup {None}],
   ack : [Client -> StreamId \cup {None}],
   latest : [Client -> StreamId \cup {None}]]

CommandKind == {"intake_on", "intake_off", "emergency", "cancel", "replace",
                "reconcile"}

Command == [id : 1..MaxCommands, kind : CommandKind]

Report ==
  [kind : {"unsent", "new", "reject"}, intent : Intent]
    \cup [kind : {"sync"}, stream : StreamId]
    \cup [kind : {"event"}]

----------------------------------------------------------------------------
(* The intake latches.                                                     *)

MutantLatchRecovery(s) == [s EXCEPT !.recovery = TRUE, !.drain = TRUE]

LatchRecovery(s) ==
  [s EXCEPT !.accepting = FALSE, !.recovery = TRUE, !.drain = TRUE]

LatchEmergency(s) ==
  [s EXCEPT !.accepting = FALSE, !.emergency = TRUE]

(* Stream tracking: what one private event does to the worker state.       *)

OnConnectionStatus(s, c, up) ==
  LET t == IF ~up \/ s.barrier[c] = None
             THEN [s EXCEPT !.connected[c] = up] ELSE s
  IN IF up THEN t ELSE LatchRecovery(t)

OnBarrier(s, c, id) ==
  IF id > s.latest[c]
    THEN LatchRecovery([s EXCEPT !.latest[c] = id, !.barrier[c] = id,
                                 !.ack[c] = None, !.connected[c] = FALSE])
    ELSE s

MutantOnSynchronized(s, c, id, up) ==
  IF s.barrier[c] = id
    THEN LatchRecovery([s EXCEPT !.barrier[c] = None, !.connected[c] = up])
    ELSE s

OnSynchronized(s, c, id, up) ==
  IF s.barrier[c] = id
    THEN LatchRecovery([s EXCEPT !.barrier[c] = None, !.ack[c] = id,
                                 !.connected[c] = up])
    ELSE s

OnStreamLost(s, c) == LatchRecovery([s EXCEPT !.connected[c] = FALSE])

(* Every client is connected and its latest stream is engine-applied.      *)
Synchronized(s) ==
  \A c \in Client : s.connected[c] /\ s.barrier[c] = None /\ s.ack[c] = None

----------------------------------------------------------------------------
(* Completing a recovery.  `good` stands for a complete open-order         *)
(* snapshot, healthy clients and tracked orders that match it; `healthy`   *)
(* for the clients' health read again just before the intake reopens.      *)

BatchOf(q) == SubSeq(q, 1, IF BatchSize < Len(q) THEN BatchSize ELSE Len(q))
AfterBatch(q) == SubSeq(q, Len(BatchOf(q)) + 1, Len(q))
UnsentReports(q) == [k \in DOMAIN q |-> [kind |-> "unsent", intent |-> q[k]]]

StreamRecoveryReady(s) == s.recovery /\ Synchronized(s)

MutantReopen(s) ==
  [s EXCEPT !.recovery = FALSE, !.drain = FALSE, !.accepting = @ \/ ~s.emergency]

Reopen(s) ==
  [s EXCEPT !.recovery = FALSE, !.drain = FALSE,
            !.accepting = @ \/ (s.operator /\ ~s.emergency)]

(* The step reaches reconcile_open_orders in state s, with `sent` already  *)
(* published.  While s.drain holds, one batch of the FIFO is rejected per  *)
(* pass and the intake stays closed until the FIFO is found empty.         *)
ReconcileOpenOrders(s, sent) ==
  \E good, healthy \in BOOLEAN :
    LET passes == StreamRecoveryReady(s) /\ good
        drains == passes /\ s.drain
        taken  == IF drains THEN BatchOf(ring) ELSE <<>>
        left   == IF drains THEN AfterBatch(ring) ELSE ring
    IN /\ w' = IF passes /\ (drains => left = <<>>) /\ healthy
                 THEN Reopen(s) ELSE s
       /\ ring' = left
       /\ rejected' = rejected \cup Range(taken)
       /\ reports' = sent \o UnsentReports(taken)

(* The same step without a recovery attempt.                               *)
NoRecovery(s, sent) ==
  w' = s /\ reports' = sent /\ UNCHANGED <<ring, rejected>>

MutantRejectQueuedIntents ==
  /\ ring' = ring
  /\ rejected' = rejected \cup Range(ring)
  /\ reports' = reports \o UnsentReports(ring)

RejectQueuedIntents ==
  /\ ring' = <<>>
  /\ rejected' = rejected \cup Range(ring)
  /\ reports' = reports \o UnsentReports(ring)

----------------------------------------------------------------------------
(* Control commands, taken one at a time wherever the task polls them: at  *)
(* the top of the loop and before each intent of a batch.                  *)

TakeCommand(kind) ==
  /\ wpc = "control" /\ control # <<>> /\ Head(control).kind = kind
  /\ control' = Tail(control)
  /\ UNCHANGED <<wpc, polled, batch, submitted, stale, ackVars, engineVars,
                 envVars>>

Reply(result) == replies' = [replies EXCEPT ![Head(control).id] = result]

EnableIntake ==
  /\ TakeCommand("intake_on")
  /\ IF w.emergency \/ w.recovery
       THEN w' = w /\ Reply("refused")
       ELSE /\ w' = [w EXCEPT !.operator = TRUE, !.accepting = TRUE]
            /\ Reply("ok")
  /\ UNCHANGED <<ring, rejected, reports>>

DisableIntake ==
  /\ TakeCommand("intake_off")
  /\ w' = [w EXCEPT !.operator = FALSE, !.accepting = FALSE]
  /\ RejectQueuedIntents
  /\ Reply("ok")

EnterEmergency ==
  /\ TakeCommand("emergency")
  /\ w' = LatchEmergency(w)
  /\ Reply("ok")
  /\ UNCHANGED <<ring, rejected, reports>>

CancelOrders ==
  /\ TakeCommand("cancel")
  /\ \E unknown \in BOOLEAN : w' = IF unknown THEN LatchEmergency(w) ELSE w
  /\ Reply("ok")
  /\ UNCHANGED <<ring, rejected, reports>>

ReplaceOrder ==
  /\ TakeCommand("replace")
  /\ \/ /\ w' = w
        /\ \/ Reply("refused")
           \/ w.accepting /\ ~w.emergency /\ ~w.recovery /\ Reply("ok")
        /\ UNCHANGED <<ring, rejected, reports>>
     \/ /\ w.accepting /\ ~w.emergency /\ ~w.recovery
        /\ w' = LatchEmergency(w)
        /\ RejectQueuedIntents
        /\ Reply("refused")

ReconcileSnapshot ==
  /\ TakeCommand("reconcile")
  /\ Reply("ok")
  /\ UNCHANGED <<w, ring, rejected, reports>>

ControlDrained ==
  /\ wpc = "control" /\ control = <<>>
  /\ wpc' = "events" /\ polled' = 0
  /\ UNCHANGED <<w, queueVars, ackVars, control, replies, reports, engineVars,
                 envVars>>

----------------------------------------------------------------------------
(* Private events.  An item is handled at the poll or, by the same code,   *)
(* at the idle wait; the adapter decides which item comes next.            *)

TakeEvent ==
  /\ events < MaxEvents /\ events' = events + 1
  /\ \/ /\ wpc = "events" /\ polled < EventLimit
        /\ polled' = polled + 1 /\ wpc' = wpc
     \/ wpc = "idle" /\ wpc' = "control" /\ polled' = polled
  /\ UNCHANGED <<batch, submitted, stale, control, replies, engineVars>>

Event == <<[kind |-> "event"]>>

ConnectionStatus(c, up) ==
  /\ TakeEvent
  /\ IF up /\ w.barrier[c] = None /\ w.ack[c] = None
       THEN ReconcileOpenOrders(OnConnectionStatus(w, c, up), reports \o Event)
       ELSE NoRecovery(OnConnectionStatus(w, c, up), reports \o Event)
  /\ UNCHANGED <<ackVars, streams>>

(* A barrier opens a new generation, or repeats one this client had.       *)
StreamBarrier(c, id) ==
  /\ TakeEvent
  /\ id = streams + 1 \/ id <= w.latest[c]
  /\ streams' = IF id > streams THEN id ELSE streams
  /\ NoRecovery(OnBarrier(w, c, id), reports \o Event)
  /\ UNCHANGED ackVars

StreamSynchronized(c, id, up) ==
  /\ TakeEvent
  /\ id <= w.latest[c]
  /\ NoRecovery(OnSynchronized(w, c, id, up),
                Append(reports, [kind |-> "sync", stream |-> id]))
  /\ UNCHANGED <<ackVars, streams>>

(* ReconciliationRequired; the attempt that follows finds c disconnected.  *)
EventsMissed(c) ==
  /\ TakeEvent
  /\ NoRecovery(OnStreamLost(w, c), reports \o Event)
  /\ UNCHANGED <<ackVars, streams>>

(* A stream error, or the end of a stream that is not a healthy finite     *)
(* one, is reported as a disconnection and ends the poll.                  *)
StreamFailed(c) ==
  /\ events < MaxEvents /\ events' = events + 1
  /\ \/ wpc = "events" /\ polled < EventLimit /\ wpc' = "applied"
     \/ wpc = "idle" /\ wpc' = "control"
  /\ NoRecovery(OnStreamLost(w, c), reports \o Event)
  /\ UNCHANGED <<polled, batch, submitted, stale, control, replies, ackVars,
                 engineVars, streams>>

(* An event of an order that belongs to another client is discarded.       *)
Misrouted ==
  /\ TakeEvent
  /\ NoRecovery(LatchRecovery(LatchEmergency(w)), reports)
  /\ UNCHANGED <<ackVars, streams>>

(* A fill beyond the tracked remaining quantity latches the emergency.     *)
OrderEvent(i, overfill) ==
  /\ TakeEvent
  /\ i \in submitted
  /\ unacked' = unacked \ {i} /\ cancelSent' = cancelSent \ {i}
  /\ NoRecovery(IF overfill THEN LatchEmergency(w) ELSE w, reports \o Event)
  /\ UNCHANGED streams

PollEnds ==
  /\ wpc = "events" /\ wpc' = "applied"
  /\ UNCHANGED <<w, polled, queueVars, ackVars, control, replies, reports,
                 engineVars, envVars>>

----------------------------------------------------------------------------
(* The rest of the loop.                                                   *)

(* The channel of acknowledgements is emptied at once and only matched by  *)
(* identifier, so it is a set; a superseded generation matches no client.  *)
PollApplied ==
  /\ wpc = "applied" /\ applied' = {}
  /\ LET matched == {c \in Client : w.ack[c] \in applied}
         s == [w EXCEPT !.ack =
                 [c \in Client |-> IF c \in matched THEN None ELSE w.ack[c]]]
     IN IF \E c \in matched : w.connected[c]
          THEN ReconcileOpenOrders(s, reports)
          ELSE NoRecovery(s, reports)
  /\ wpc' = IF batch = <<>> THEN "retry"
            ELSE IF polled < EventLimit THEN "gate" ELSE "control"
  /\ UNCHANGED <<polled, batch, submitted, stale, ackVars, control, replies,
                 halted, confirmed, faulted, envVars>>

MutantRetryStreamRecovery ==
  /\ wpc = "retry"
  /\ NoRecovery(w, reports)
  /\ wpc' = IF polled < EventLimit THEN "receive" ELSE "timeouts"
  /\ UNCHANGED <<polled, batch, submitted, stale, ackVars, control, replies,
                 engineVars, envVars>>

RetryStreamRecovery ==
  /\ wpc = "retry"
  /\ ReconcileOpenOrders(w, reports) \/ NoRecovery(w, reports)
  /\ wpc' = IF polled < EventLimit THEN "receive" ELSE "timeouts"
  /\ UNCHANGED <<polled, batch, submitted, stale, ackVars, control, replies,
                 engineVars, envVars>>

MutantReceiveEnvelopes ==
  /\ wpc = "receive"
  /\ batch' = IF w.accepting THEN BatchOf(ring) ELSE <<>>
  /\ ring' = IF w.accepting THEN AfterBatch(ring) ELSE ring
  /\ wpc' = IF batch' = <<>> THEN "timeouts" ELSE "control"
  /\ UNCHANGED <<w, polled, submitted, rejected, stale, ackVars, control,
                 replies, reports, engineVars, envVars>>

ReceiveEnvelopes ==
  /\ wpc = "receive"
  /\ batch' = BatchOf(ring) /\ ring' = AfterBatch(ring)
  /\ wpc' = IF ring = <<>> THEN "timeouts" ELSE "control"
  /\ UNCHANGED <<w, polled, submitted, rejected, stale, ackVars, control,
                 replies, reports, engineVars, envVars>>

(* The intent at the head of the batch is decided.                         *)
NextIntent ==
  /\ batch' = Tail(batch)
  /\ wpc' = IF Tail(batch) = <<>> THEN "timeouts" ELSE "control"

(* A closed intake, or any of the lifecycle, routing, account, product,    *)
(* price and rate gates, rejects the intent before the adapter is called.  *)
RejectIntent ==
  /\ wpc = "gate"
  /\ NextIntent
  /\ rejected' = rejected \cup {Head(batch)}
  /\ reports' = reports \o UnsentReports(<<Head(batch)>>)
  /\ UNCHANGED <<w, polled, ring, submitted, stale, ackVars, control, replies,
                 engineVars, envVars>>

SubmitIntent ==
  /\ wpc = "gate" /\ w.accepting
  /\ submitted' = submitted \cup {Head(batch)}
  /\ wpc' = "placing"
  /\ UNCHANGED <<w, polled, ring, batch, rejected, stale, ackVars, control,
                 replies, reports, engineVars, envVars>>

NewReport(i) == <<[kind |-> "new", intent |-> i]>>

(* What the placement of the head intent answers: an order id; an order id *)
(* the worker already tracks; proof that the venue was never reached; a    *)
(* definite refusal; an error that leaves the outcome unknown.             *)
PlacementReturns(outcome) ==
  LET i == Head(batch) IN
  /\ wpc = "placing"
  /\ NextIntent
  /\ reports' = reports \o
       CASE outcome \in {"placed", "unknown"} -> NewReport(i)
         [] outcome = "duplicate" -> <<>>
         [] outcome = "unattempted" -> UnsentReports(<<i>>)
         [] outcome = "refused" ->
              Append(NewReport(i), [kind |-> "reject", intent |-> i])
  /\ w' = IF outcome \in {"duplicate", "unknown"} THEN LatchEmergency(w) ELSE w
  /\ unacked' = IF outcome \in {"placed", "unknown"}
                  THEN unacked \cup {i} ELSE unacked
  /\ rejected' = IF outcome = "unattempted" THEN rejected \cup {i} ELSE rejected
  /\ UNCHANGED <<polled, ring, submitted, stale, cancelSent, control, replies,
                 engineVars, envVars>>

Outcome == {"placed", "duplicate", "unattempted", "refused", "unknown"}

(* Orders in `late` exceeded the acknowledgement timeout; the cancellation *)
(* of those in `failed` was refused and will be tried again.               *)
CheckAckTimeouts ==
  /\ wpc = "timeouts" /\ wpc' = "reconcile"
  /\ \E late \in SUBSET (unacked \ cancelSent) : \E failed \in SUBSET late :
       /\ w' = IF late = {} THEN w ELSE LatchEmergency(w)
       /\ cancelSent' = cancelSent \cup (late \ failed)
  /\ UNCHANGED <<polled, queueVars, unacked, control, replies, reports,
                 engineVars, envVars>>

PeriodicReconcile ==
  /\ wpc = "reconcile" /\ wpc' = "idle"
  /\ ReconcileOpenOrders(w, reports) \/ NoRecovery(w, reports)
  /\ UNCHANGED <<polled, batch, submitted, stale, ackVars, control, replies,
                 engineVars, envVars>>

(* The idle wait ends: a notification, a command, or the maintenance timer.*)
Wake ==
  /\ wpc = "idle" /\ wpc' = "control"
  /\ UNCHANGED <<w, polled, queueVars, ackVars, control, replies, reports,
                 engineVars, envVars>>

----------------------------------------------------------------------------
(* The worker's neighbours.                                                *)

Undecided ==
  Range(ring) \cup (Range(batch) \ submitted)

(* The engine enqueues an intent unless its own halt latch is set.         *)
EnqueueIntent(i) ==
  /\ ~halted
  /\ i \notin Range(ring) \cup Range(batch) \cup submitted \cup rejected
  /\ ring' = Append(ring, i)
  /\ UNCHANGED <<w, wpc, polled, batch, submitted, rejected, stale, ackVars,
                 control, replies, reports, engineVars, envVars>>

(* The stream markers among the next n reports.                            *)
Markers(n) ==
  {id \in StreamId :
     \E k \in 1..n : reports[k] = [kind |-> "sync", stream |-> id]}

MutantDrainReports(n, fault) ==
  LET acks == IF halted THEN {} ELSE Markers(n)
  IN /\ n \in 1..Len(reports)
     /\ reports' = SubSeq(reports, n + 1, Len(reports))
     /\ halted' = (halted \/ fault)
     /\ faulted' = (faulted \/ fault)
     /\ applied' = applied \cup acks
     /\ confirmed' = confirmed \cup acks
     /\ stale' = IF acks = {} THEN stale ELSE stale \cup Undecided
     /\ UNCHANGED <<w, wpc, polled, ring, batch, submitted, rejected, ackVars,
                    envVars>>

(* The engine applies the next n reports.  `fault` says that it could not  *)
(* apply one of them; it applies the rest, but acknowledges no marker of   *)
(* the batch, nor any later marker while the halt lasts.                   *)
DrainReports(n, fault) ==
  LET acks == IF halted \/ fault THEN {} ELSE Markers(n)
  IN /\ n \in 1..Len(reports)
     /\ reports' = SubSeq(reports, n + 1, Len(reports))
     /\ halted' = (halted \/ fault)
     /\ faulted' = (faulted \/ fault)
     /\ applied' = applied \cup acks
     /\ confirmed' = confirmed \cup acks
     /\ stale' = IF acks = {} THEN stale ELSE stale \cup Undecided
     /\ UNCHANGED <<w, wpc, polled, ring, batch, submitted, rejected, ackVars,
                    envVars>>

(* Independently read checkpoints replace the engine's execution state.    *)
ClearHalt ==
  /\ halted /\ halted' = FALSE /\ faulted' = FALSE
  /\ UNCHANGED <<w, wpc, polled, queueVars, ackVars, control, replies, reports,
                 applied, confirmed, envVars>>

PostCommand(kind) ==
  /\ Len(replies) < MaxCommands
  /\ replies' = Append(replies, "pending")
  /\ control' = Append(control, [id |-> Len(replies) + 1, kind |-> kind])

SendCommand(kind) ==
  /\ PostCommand(kind)
  /\ UNCHANGED <<w, wpc, polled, queueVars, ackVars, reports, engineVars,
                 envVars>>

----------------------------------------------------------------------------
Init ==
  /\ w = [accepting |-> TRUE, operator |-> TRUE, emergency |-> FALSE,
          recovery |-> FALSE, drain |-> FALSE,
          connected |-> [c \in Client |-> TRUE],
          barrier |-> [c \in Client |-> None],
          ack |-> [c \in Client |-> None],
          latest |-> [c \in Client |-> None]]
  /\ wpc = "control" /\ polled = 0
  /\ ring = <<>> /\ batch = <<>>
  /\ unacked = {} /\ cancelSent = {}
  /\ control = <<>> /\ replies = <<>>
  /\ reports = <<>> /\ applied = {} /\ halted = FALSE
  /\ streams = 0 /\ events = 0
  /\ submitted = {} /\ rejected = {} /\ confirmed = {}
  /\ faulted = FALSE /\ stale = {}

HandleCommand ==
  EnableIntake \/ DisableIntake \/ EnterEmergency \/ CancelOrders
    \/ ReplaceOrder \/ ReconcileSnapshot

PrivateEvent ==
  \/ \E c \in Client :
       \/ \E up \in BOOLEAN : ConnectionStatus(c, up)
       \/ \E id \in StreamId : StreamBarrier(c, id)
       \/ \E id \in StreamId, up \in BOOLEAN : StreamSynchronized(c, id, up)
       \/ EventsMissed(c)
       \/ StreamFailed(c)
  \/ Misrouted
  \/ \E i \in Intent, overfill \in BOOLEAN : OrderEvent(i, overfill)

Loop ==
  \/ HandleCommand \/ ControlDrained \/ PollEnds \/ PollApplied
  \/ RetryStreamRecovery \/ ReceiveEnvelopes \/ RejectIntent \/ SubmitIntent
  \/ \E outcome \in Outcome : PlacementReturns(outcome)
  \/ CheckAckTimeouts \/ PeriodicReconcile \/ Wake

Worker == Loop \/ PrivateEvent

(* The engine may pause the worker in the same step, awaiting no reply.    *)
EngineReports ==
  /\ \E n \in 1..Len(reports), fault \in BOOLEAN : DrainReports(n, fault)
  /\ UNCHANGED <<control, replies>> \/ PostCommand("intake_off")

Neighbours ==
  \/ \E i \in Intent : EnqueueIntent(i)
  \/ EngineReports \/ ClearHalt
  \/ \E kind \in CommandKind : SendCommand(kind)

Next == Worker \/ Neighbours

Spec == Init /\ [][Next]_vars

----------------------------------------------------------------------------
(* Properties.                                                             *)

(* Type invariant of the worker, its queues and the history variables.     *)
TypeOK ==
  /\ w \in WorkerState
  /\ wpc \in {"control", "events", "applied", "retry", "receive", "gate",
              "placing", "timeouts", "reconcile", "idle"}
  /\ polled \in 0..EventLimit
  /\ ring \in Seq(Intent) /\ batch \in Seq(Intent)
  /\ wpc \in {"gate", "placing"} => batch # <<>>
  /\ unacked \subseteq Intent /\ cancelSent \subseteq unacked
  /\ replies \in Seq({"pending", "ok", "refused"})
  /\ control \in Seq(Command)
  /\ \A k \in DOMAIN control : control[k].id \in DOMAIN replies
  /\ reports \in Seq(Report) /\ applied \subseteq StreamId
  /\ halted \in BOOLEAN /\ faulted \in BOOLEAN
  /\ streams \in 0..MaxStream /\ events \in 0..MaxEvents
  /\ submitted \subseteq Intent /\ rejected \subseteq Intent
  /\ stale \subseteq Intent /\ confirmed \subseteq StreamId

(* While the worker accepts intents the operator has it enabled, no        *)
(* emergency and no recovery is latched, and every client's private stream *)
(* is connected, past its barrier and applied by the engine.               *)
OpenIntakeIsHealthy ==
  w.accepting => /\ w.operator /\ ~w.emergency /\ ~w.recovery
                 /\ Synchronized(w)

(* The worker leaves recovery only when the engine has acknowledged the    *)
(* newest stream generation of every client: an acknowledgement of a       *)
(* superseded generation, or of another client's, never counts.            *)
LatestStreamApplied ==
  ~w.recovery => \A c \in Client : w.latest[c] \in confirmed \cup {None}

(* emergency_latched is never cleared, and no intent reaches an adapter    *)
(* once it is set.                                                         *)
EmergencyIsFinal ==
  [][w.emergency => w'.emergency /\ submitted' = submitted]_vars

(* An intake the operator paused is reopened by an enabling command only,  *)
(* whatever the streams, the snapshots and the recovery do meanwhile.      *)
PauseOutlivesRecovery ==
  [][~w.operator /\ w'.accepting => EnableIntake]_vars

(* The engine acknowledges a stream marker only when it has applied every  *)
(* report up to and beyond it in the batch, with no failed report before.  *)
AcknowledgedMeansApplied ==
  [][confirmed' # confirmed => ~faulted']_vars

----------------------------------------------------------------------------
(* Fairness.  The task and the engine's report drain keep running.  While  *)
(* a recovery is ready, its retry timer keeps firing and the venue         *)
(* eventually answers an attempt with a matching snapshot.                 *)

RecoveryPass ==
  /\ RetryStreamRecovery
  /\ StreamRecoveryReady(w)
  /\ ring' = AfterBatch(ring)
  /\ ring' = <<>> => ~w'.recovery

FairSpec ==
  Spec /\ WF_vars(Loop) /\ WF_vars(EngineReports) /\ SF_vars(RecoveryPass)

(* Every intent the engine enqueued is eventually handed to an adapter or  *)
(* reported as unsent, also while the intake is closed: its risk           *)
(* reservation is not held by an intent nobody will ever look at.          *)
EveryIntentDecided ==
  \A i \in Intent :
    i \in Undecided ~> i \in submitted \cup rejected

(* Once every stream stays connected and applied, the recovery ends, even  *)
(* though each pass rejects only one batch of the intent FIFO.             *)
RecoveryCompletes ==
  <>[]Synchronized(w) => <>[](~w.recovery)

----------------------------------------------------------------------------
(* Statements of comments that the code does not meet (see the README).    *)

(* The comment on the recovery drain: an intent that was queued when the   *)
(* engine applied the stream watermark came from stale account state and   *)
(* is rejected, never submitted.                                           *)
WatermarkRejectsQueued ==
  [][\A i \in submitted' \ submitted : i \notin stale]_vars

(* The comment on the pause acknowledgement: when it is sent, every intent *)
(* that was already queued has been rejected.                              *)
PauseAckIsQuiescent ==
  [][DisableIntake => Undecided' = {}]_vars
====
