-------------------------- MODULE ExecutionControl --------------------------
(***************************************************************************)
(* The control plane over the execution worker: ExecutionControlHandle     *)
(* (pause, resume, degrade, emergency stop, guarded reconciliation), the   *)
(* engine's trading mode and the queued part of its risk reservations.     *)
(*                                                                         *)
(* Callers of the handle are serialised by operation_gate, so at most one  *)
(* operation is in progress; `op` is where it is.  It takes the engine     *)
(* lock for one step at a time and awaits the worker's replies in between, *)
(* while engine and worker keep running.  A reply may time out: the        *)
(* operation then ends, but its command stays in the worker's FIFO.        *)
(***************************************************************************)
EXTENDS ExecutionWorker

CONSTANT Ungated   \* bound: the ungated commands that callers issue

ASSUME UngatedAssumption == Ungated \subseteq {"cancel", "replace", "reconcile"}

VARIABLES
  mode,        \* the engine's trading mode
  queued,      \* reservations of intents not yet bound to an order
  unconfirmed, \* the reservations require an authoritative readback
  op,          \* the operation in progress, an Operation record
  barred       \* history: intents undecided when some pause returned

engineCtl == <<mode, queued, unconfirmed>>
ctlVars   == <<engineCtl, op, barred>>
allVars   == <<vars, ctlVars>>

Active == {"normal", "degraded"}
Mode == Active \cup {"paused", "emergency"}

(* `at` is where the operation is, `then` where it continues after a       *)
(* pause, `waits` the command whose reply it awaits, `target` the mode a   *)
(* resume restores.                                                        *)
Waiting == {"pause_wait", "resume_wait", "abort_wait", "emergency_wait",
            "snapshot_wait"}
OperationState ==
  [at : Waiting \cup {"idle", "pause", "pause_send", "resume", "commit",
                      "abort", "emergency", "readback", "snapshot", "confirm"},
   then : {"idle", "readback"}, waits : 0..MaxCommands, target : Mode]
Idle == [at |-> "idle", then |-> "idle", waits |-> 0, target |-> "normal"]
GoesTo(next) == IF next = "idle" THEN Idle ELSE [op EXCEPT !.at = next, !.waits = 0]

(* The queues and the worker as an operation's step leaves them.           *)
workerVars == <<w, wpc, polled, queueVars, ackVars, reports, engineVars, envVars>>
channelVars == <<control, replies>>

----------------------------------------------------------------------------
(* Steps of the engine.                                                    *)

MutantPauseTrading ==
  /\ mode' = IF mode = "emergency" THEN mode ELSE "paused"
  /\ IF mode \in Active
       THEN /\ Len(replies) < MaxCommands
            /\ replies' = Append(replies, "pending")
            /\ control' = <<[id |-> Len(replies) + 1, kind |-> "intake_off"]>>
       ELSE UNCHANGED channelVars

(* Emergency is sticky; the worker is told only if the mode changes.       *)
PauseTrading ==
  /\ mode' = IF mode = "emergency" THEN mode ELSE "paused"
  /\ IF mode \in Active THEN PostCommand("intake_off") ELSE UNCHANGED channelVars

MutantResumeReady == ~halted /\ ~unconfirmed

ResumeReady == ~halted /\ queued = {} /\ ~unconfirmed

Enqueue(i) ==
  /\ mode \in Active /\ ~unconfirmed
  /\ EnqueueIntent(i)
  /\ queued' = queued \cup {i}
  /\ UNCHANGED <<mode, unconfirmed, op, barred>>

(* A report that is applied binds the intent to an order or, for an unsent *)
(* intent, drops it: either way its queued reservation is gone.            *)
Settled(n, failed) ==
  {i \in Intent : \E k \in (1..n) \ failed :
     reports[k] \in {[kind |-> "new", intent |-> i],
                     [kind |-> "unsent", intent |-> i]}}

(* Reports 1..n are applied except those in `failed`, which latch the      *)
(* halt; `doubt` stands for a report that leaves the reservations unsure.  *)
ApplyReports(n, failed, doubt) ==
  /\ DrainReports(n, failed # {})
  /\ queued' = queued \ Settled(n, failed)
  /\ IF failed # {} \/ doubt
       THEN unconfirmed' = TRUE /\ PauseTrading
       ELSE UNCHANGED <<mode, unconfirmed, channelVars>>

EngineDrain ==
  /\ \E n \in 1..Len(reports) : \E failed \in SUBSET (1..n), doubt \in BOOLEAN :
       ApplyReports(n, failed, doubt)
  /\ UNCHANGED <<op, barred>>

(* The engine pauses by itself: a risk view that cannot be computed, or an *)
(* ambiguous market price.                                                 *)
EnginePause ==
  /\ PauseTrading
  /\ unconfirmed' \in {unconfirmed, TRUE}
  /\ UNCHANGED <<workerVars, queued, op, barred>>

(* Imported checkpoints end the halt; trading stays paused.                *)
ImportCheckpoint ==
  /\ ClearHalt
  /\ unconfirmed' = TRUE
  /\ UNCHANGED <<mode, queued, op, barred>>

----------------------------------------------------------------------------
(* The operations.                                                         *)

Begin(next, then, target) ==
  /\ op = Idle
  /\ op' = [at |-> next, then |-> then, waits |-> 0, target |-> target]
  /\ UNCHANGED <<workerVars, channelVars, engineCtl, barred>>

BeginPause     == Begin("pause", "idle", "normal")
BeginResume    == Begin("resume", "idle", "normal")
BeginReconcile == Begin("pause", "readback", mode)

(* enter_degrade_mode never leaves a pause and needs no reply.  The        *)
(* sentinel calls it on the engine directly, between the steps of any      *)
(* operation.                                                              *)
EnterDegrade ==
  /\ mode \in Active /\ ~halted /\ ~unconfirmed
  /\ mode' = "degraded"
  /\ UNCHANGED <<workerVars, channelVars, queued, unconfirmed, op, barred>>

MutantBeginEmergency ==
  /\ op = Idle /\ op' = [op EXCEPT !.at = "emergency"]
  /\ mode' = "emergency"
  /\ IF mode \in Active THEN PostCommand("intake_off") ELSE UNCHANGED channelVars
  /\ UNCHANGED <<workerVars, queued, unconfirmed, barred>>

BeginEmergency ==
  /\ op = Idle /\ op' = [op EXCEPT !.at = "emergency"]
  /\ mode' = "emergency"
  /\ PostCommand("intake_off")
  /\ UNCHANGED <<workerVars, queued, unconfirmed, barred>>

PauseEngine ==
  /\ op.at = "pause" /\ op' = GoesTo("pause_send")
  /\ PauseTrading
  /\ UNCHANGED <<workerVars, queued, unconfirmed, barred>>

(* An operation posts a command and awaits its reply.                      *)
Send(from, kind, next) ==
  /\ op.at = from /\ op' = [op EXCEPT !.at = next, !.waits = Len(replies) + 1]
  /\ PostCommand(kind)
  /\ UNCHANGED <<workerVars, engineCtl, barred>>

SendPause     == Send("pause_send", "intake_off", "pause_wait")
SendEmergency == Send("emergency", "emergency", "emergency_wait")
SendSnapshot  == Send("snapshot", "reconcile", "snapshot_wait")
SendAbort     == Send("abort", "intake_off", "abort_wait")

(* The reply arrived: the operation goes on.                               *)
Replied(from, result, next) ==
  /\ op.at = from /\ replies[op.waits] = result /\ op' = GoesTo(next)
  /\ UNCHANGED <<workerVars, channelVars, engineCtl>>

PauseReturns ==
  /\ Replied("pause_wait", "ok", op.then)
  /\ barred' = barred \cup Undecided

EmergencyReturns == Replied("emergency_wait", "ok", "idle") /\ UNCHANGED barred
SnapshotReturns  == Replied("snapshot_wait", "ok", "confirm") /\ UNCHANGED barred
AbortReturns     == Replied("abort_wait", "ok", "idle") /\ UNCHANGED barred
ResumeGranted    == Replied("resume_wait", "ok", "commit") /\ UNCHANGED barred
ResumeRefused    == Replied("resume_wait", "refused", "idle") /\ UNCHANGED barred

(* A guarded reconciliation that fails after its pause pauses once more.   *)
PauseAgain == [GoesTo("pause") EXCEPT !.then = "idle"]

MutantReplyTimeout ==
  /\ op.at \in Waiting /\ replies[op.waits] = "pending"
  /\ op' = CASE op.at = "snapshot_wait" -> PauseAgain
             [] op.at = "pause_wait" -> GoesTo(op.then)
             [] OTHER -> Idle
  /\ UNCHANGED <<workerVars, channelVars, engineCtl, barred>>

(* The reply is late: the caller gets an error, the command stays queued.  *)
ReplyTimeout ==
  /\ op.at \in Waiting /\ replies[op.waits] = "pending"
  /\ op' = IF op.at = "snapshot_wait" THEN PauseAgain ELSE Idle
  /\ UNCHANGED <<workerVars, channelVars, engineCtl, barred>>

ResumeRejected ==
  /\ op.at = "resume" /\ op' = Idle
  /\ mode = "emergency" \/ ~ResumeReady
  /\ UNCHANGED <<workerVars, channelVars, engineCtl, barred>>

(* The check under the engine's lock and the send are one step: what may   *)
(* happen between them does not read the command queue, and ResumeCommit   *)
(* checks the engine again.                                                *)
SendResume ==
  /\ mode # "emergency" /\ ResumeReady
  /\ Send("resume", "intake_on", "resume_wait")

MutantResumeCommit ==
  /\ op.at = "commit" /\ op' = Idle
  /\ mode # "emergency"
  /\ mode' = op.target
  /\ UNCHANGED <<workerVars, channelVars, queued, unconfirmed, barred>>

(* The intake is open; the mode follows only if nothing changed meanwhile. *)
ResumeCommit ==
  /\ op.at = "commit" /\ op' = Idle
  /\ mode # "emergency" /\ ResumeReady
  /\ mode' = op.target
  /\ UNCHANGED <<workerVars, channelVars, queued, unconfirmed, barred>>

ResumeAbort ==
  /\ op.at = "commit" /\ op' = GoesTo("abort")
  /\ mode = "emergency" \/ ~ResumeReady
  /\ PauseTrading
  /\ UNCHANGED <<workerVars, queued, unconfirmed, barred>>

(* Before the snapshot, the reports already published are applied.         *)
DrainPausePrefix ==
  /\ op.at = "readback"
  /\ \/ /\ reports = <<>> /\ op' = GoesTo("snapshot")
        /\ UNCHANGED <<workerVars, channelVars, engineCtl>>
     \/ \E failed \in SUBSET (1..Len(reports)), doubt \in BOOLEAN :
          /\ ApplyReports(Len(reports), failed, doubt)
          /\ op' = GoesTo(IF failed = {} THEN "snapshot" ELSE "idle")
  /\ UNCHANGED barred

(* The snapshot is compared with OMS and Portfolio under one engine lock.  *)
(* `matches` is the outcome of the comparison; only a full readback        *)
(* (`balances`) may also confirm the reservations.                         *)
CompareSnapshot ==
  /\ op.at = "confirm"
  /\ \E matches, balances \in BOOLEAN :
       LET healthy == matches /\ (balances => ~halted /\ queued = {})
       IN /\ op' = IF ~healthy THEN PauseAgain
                   ELSE GoesTo(IF op.target \in Active THEN "resume" ELSE "idle")
          /\ unconfirmed' = (unconfirmed /\ ~(healthy /\ balances))
  /\ UNCHANGED <<workerVars, channelVars, mode, queued, barred>>

(* Cancellations, replacements and account inspections take no gate.       *)
UngatedCommand ==
  /\ \E kind \in Ungated : SendCommand(kind)
  /\ UNCHANGED ctlVars

----------------------------------------------------------------------------
ControlInit ==
  /\ Init
  /\ mode = "normal" /\ queued = {} /\ unconfirmed = FALSE
  /\ op = Idle /\ barred = {}

Operation ==
  \/ BeginPause \/ BeginResume \/ BeginReconcile \/ BeginEmergency
  \/ EnterDegrade \/ PauseEngine
  \/ SendPause \/ SendEmergency \/ SendSnapshot \/ SendAbort \/ SendResume
  \/ PauseReturns \/ EmergencyReturns \/ SnapshotReturns \/ AbortReturns
  \/ ResumeGranted \/ ResumeRefused \/ ReplyTimeout
  \/ ResumeRejected \/ ResumeCommit \/ ResumeAbort
  \/ DrainPausePrefix \/ CompareSnapshot

Engine ==
  \/ \E i \in Intent : Enqueue(i)
  \/ EngineDrain \/ EnginePause \/ ImportCheckpoint

ControlNext ==
  \/ Operation \/ Engine \/ UngatedCommand
  \/ Worker /\ UNCHANGED ctlVars

ControlSpec == ControlInit /\ [][ControlNext]_allVars

----------------------------------------------------------------------------
(* Properties.                                                             *)

(* Type invariant of the control plane.                                    *)
ControlTypeOK ==
  /\ TypeOK
  /\ mode \in Mode
  /\ queued \subseteq Intent /\ barred \subseteq Intent
  /\ unconfirmed \in BOOLEAN
  /\ op \in OperationState /\ op.waits \in 0..Len(replies)
  /\ op.at \in Waiting => op.waits # 0

(* An intent that may still reach a venue holds its queued reservation.    *)
UndecidedIsReserved == Undecided \subseteq queued

(* Once pause_trading has returned, no intent that was enqueued before is  *)
(* ever submitted, not even one the worker had already taken into its      *)
(* batch, and not after any later resume.                                  *)
PausedIntentsStayUnsent ==
  [][barred \cap (submitted' \ submitted) = {}]_allVars

(* From the pause acknowledgement of a guarded reconciliation to its       *)
(* verdict no order is submitted: the snapshot is taken of a quiet venue.  *)
SnapshotIsQuiet ==
  [][(op.at \in {"readback", "snapshot", "snapshot_wait", "confirm"})
       => submitted' = submitted]_allVars

(* In emergency mode an accepting worker is about to be closed for good: a *)
(* closing command is queued and no enabling one behind it, not even one   *)
(* left over from a resume whose reply timed out.                          *)
EmergencyWins ==
  mode = "emergency" /\ w.accepting =>
    \E k \in DOMAIN control :
      /\ control[k].kind = "intake_off"
      /\ \A m \in k..Len(control) : control[m].kind # "intake_on"

(* While a report could not be applied, or the reservations await their    *)
(* readback, the engine is not trading: no resume in flight can slip past. *)
HaltStopsTrading == halted \/ unconfirmed => mode \notin Active

(* The state invariant of the control plane: types, reservations that      *)
(* outlive every intent the worker may still submit, and no enabling       *)
(* command behind an emergency stop.                                       *)
ControlInv == ControlTypeOK /\ UndecidedIsReserved /\ EmergencyWins

(* The worker task keeps running.                                          *)
ControlFairSpec == ControlSpec /\ WF_allVars(Loop /\ UNCHANGED ctlVars)

(* An emergency stop closes the intake for good, whatever commands were    *)
(* still queued and whether or not its own reply timed out.                *)
EmergencyCloses == mode = "emergency" ~> [](~w.accepting)
====
