------------------------ MODULE ExecutionWorkerProofs ------------------------
(***************************************************************************)
(* The intake decisions of the execution worker, for every set of clients  *)
(* and intents, every batch size and every number of events, stream        *)
(* generations and commands.                                               *)
(*                                                                         *)
(* The argument is about the record w alone.  Every handler is a function  *)
(* from one sound record to another; an action applies one or two of them. *)
(***************************************************************************)
EXTENDS ExecutionWorker, TLAPS

-----------------------------------------------------------------------------
(* Soundness of a worker record.                                           *)

(* An accepting worker is enabled and latched by nothing; one that is not  *)
(* recovering has all its streams synchronised.                            *)
Latched(s) ==
  /\ s.accepting => s.operator /\ ~s.emergency /\ ~s.recovery
  /\ ~s.recovery => Synchronized(s)

(* The newest generation of a client is behind its barrier, waits for the  *)
(* engine, or has been acknowledged by it.                                 *)
Tracked(s, acknowledged) ==
  \A c \in Client :
    /\ s.barrier[c] \in {None, s.latest[c]}
    /\ \/ s.latest[c] = None
       \/ s.barrier[c] = s.latest[c]
       \/ s.ack[c] = s.latest[c]
       \/ s.latest[c] \in acknowledged

Sound(s, acknowledged) ==
  s \in WorkerState /\ Latched(s) /\ Tracked(s, acknowledged)

(* What every handler but an intake command does.                          *)
Follows(s, t, acknowledged) ==
  /\ Sound(t, acknowledged)
  /\ t.operator = s.operator
  /\ s.emergency => t.emergency

LEMMA FollowsTransitive ==
  ASSUME NEW A, NEW s, NEW t, NEW u, Follows(s, t, A), Follows(t, u, A)
  PROVE  Follows(s, u, A)
BY DEF Follows

(* A later acknowledgement keeps a record sound.                           *)
LEMMA SoundMonotone ==
  ASSUME NEW A, NEW B, A \subseteq B, NEW s, Sound(s, A)
  PROVE  Sound(s, B)
BY DEF Sound, Tracked

LEMMA LatchRecoveryFollows ==
  ASSUME NEW A, NEW s \in WorkerState, Tracked(s, A)
  PROVE  /\ Follows(s, LatchRecovery(s), A)
BY Zenon DEF Follows, Sound, Latched, Tracked, LatchRecovery, WorkerState

LEMMA LatchEmergencyFollows ==
  ASSUME NEW A, NEW s, Sound(s, A)
  PROVE  Follows(s, LatchEmergency(s), A)
BY Zenon DEF Follows, Sound, Latched, Tracked, LatchEmergency, WorkerState, Synchronized

LEMMA ConnectionStatusFollows ==
  ASSUME NEW A, NEW s, Sound(s, A), NEW c \in Client, NEW up \in BOOLEAN
  PROVE  Follows(s, OnConnectionStatus(s, c, up), A)
<1> DEFINE t == IF ~up \/ s.barrier[c] = None
                  THEN [s EXCEPT !.connected[c] = up] ELSE s
<1>1. /\ t \in WorkerState /\ Tracked(t, A)
      /\ t.operator = s.operator /\ t.emergency = s.emergency
      /\ t.accepting = s.accepting /\ t.recovery = s.recovery
  BY DEF Sound, Tracked, WorkerState
<1>2. CASE up
  <2>1. Synchronized(s) => Synchronized(t)
    BY <1>2 DEF Synchronized, Sound, WorkerState
  <2>2. QED
    BY <1>1, <1>2, <2>1 DEF Follows, Sound, Latched, OnConnectionStatus
<1>3. CASE ~up
  <2>1. Follows(t, LatchRecovery(t), A)
    BY <1>1, LatchRecoveryFollows
  <2>2. OnConnectionStatus(s, c, up) = LatchRecovery(t)
    BY <1>3 DEF OnConnectionStatus
  <2>3. QED
    BY <1>1, <2>1, <2>2 DEF Follows
<1>4. QED
  BY <1>2, <1>3

LEMMA BarrierFollows ==
  ASSUME NEW A, NEW s, Sound(s, A), NEW c \in Client, NEW id \in StreamId
  PROVE  Follows(s, OnBarrier(s, c, id), A)
<1> DEFINE t == [s EXCEPT !.latest[c] = id, !.barrier[c] = id,
                          !.ack[c] = None, !.connected[c] = FALSE]
<1>1. /\ t \in WorkerState /\ Tracked(t, A)
      /\ t.operator = s.operator /\ t.emergency = s.emergency
  BY Zenon DEF Sound, Tracked, WorkerState
<1>2. Follows(t, LatchRecovery(t), A)
  BY <1>1, LatchRecoveryFollows
<1>3. Follows(s, s, A)
  BY DEF Follows
<1>4. OnBarrier(s, c, id) \in {s, LatchRecovery(t)}
  BY DEF OnBarrier
<1>5. QED
  BY <1>1, <1>2, <1>3, <1>4 DEF Follows

LEMMA SynchronizedFollows ==
  ASSUME NEW A, NEW s, Sound(s, A), NEW c \in Client, NEW id \in StreamId,
         NEW up \in BOOLEAN
  PROVE  Follows(s, OnSynchronized(s, c, id, up), A)
<1> DEFINE t == [s EXCEPT !.barrier[c] = None, !.ack[c] = id,
                          !.connected[c] = up]
<1>1. CASE s.barrier[c] = id
  <2>1. s.latest[c] = id
    BY <1>1 DEF Sound, Tracked, StreamId, None
  <2>2. /\ t \in WorkerState /\ Tracked(t, A)
        /\ t.operator = s.operator /\ t.emergency = s.emergency
    BY <2>1, Zenon DEF Sound, Tracked, WorkerState
  <2>3. Follows(t, LatchRecovery(t), A)
    BY <2>2, LatchRecoveryFollows
  <2>4. QED
    BY <1>1, <2>2, <2>3 DEF Follows, OnSynchronized
<1>2. CASE s.barrier[c] # id
  BY <1>2 DEF Follows, OnSynchronized
<1>3. QED
  BY <1>1, <1>2

LEMMA StreamLostFollows ==
  ASSUME NEW A, NEW s, Sound(s, A), NEW c \in Client
  PROVE  Follows(s, OnStreamLost(s, c), A)
<1> DEFINE t == [s EXCEPT !.connected[c] = FALSE]
<1>1. /\ t \in WorkerState /\ Tracked(t, A)
      /\ t.operator = s.operator /\ t.emergency = s.emergency
  BY Zenon DEF Sound, Tracked, WorkerState
<1>2. Follows(t, LatchRecovery(t), A)
  BY <1>1, LatchRecoveryFollows
<1>3. QED
  BY <1>1, <1>2 DEF Follows, OnStreamLost

LEMMA ReopenFollows ==
  ASSUME NEW A, NEW s, Sound(s, A), StreamRecoveryReady(s)
  PROVE  Follows(s, Reopen(s), A)
BY Zenon DEF Follows, Sound, Latched, Tracked, Reopen, WorkerState, Synchronized,
       StreamRecoveryReady

-----------------------------------------------------------------------------
(* What the actions do to the record.                                      *)

LEMMA StutterFollows ==
  ASSUME NEW A, NEW s, Sound(s, A)
  PROVE  Follows(s, s, A)
BY DEF Follows

LEMMA ReconcileFollows ==
  ASSUME NEW A, NEW s, NEW t, NEW sent, Sound(t, A), Follows(s, t, A),
         ReconcileOpenOrders(t, sent)
  PROVE  Follows(s, w', A)
<1>1. w' = t \/ (w' = Reopen(t) /\ StreamRecoveryReady(t))
  BY DEF ReconcileOpenOrders
<1>2. QED
  BY <1>1, ReopenFollows, FollowsTransitive

(* Acknowledged streams are matched by identifier.                         *)
LEMMA AppliedFollows ==
  ASSUME NEW A, NEW B, B \subseteq A, B \subseteq StreamId,
         NEW s, Sound(s, A),
         NEW M \in SUBSET Client, \A c \in M : s.ack[c] \in B
  PROVE  Follows(s, [s EXCEPT !.ack =
                       [c \in Client |-> IF c \in M THEN None ELSE s.ack[c]]], A)
<1> DEFINE t == [s EXCEPT !.ack =
                   [c \in Client |-> IF c \in M THEN None ELSE s.ack[c]]]
<1>1. /\ t \in WorkerState
      /\ t.operator = s.operator /\ t.emergency = s.emergency
      /\ t.accepting = s.accepting /\ t.recovery = s.recovery
      /\ t.barrier = s.barrier /\ t.latest = s.latest
      /\ t.connected = s.connected
      /\ \A c \in Client : t.ack[c] = IF c \in M THEN None ELSE s.ack[c]
  BY DEF Sound, WorkerState
<1>2. Tracked(t, A)
  BY <1>1 DEF Sound, Tracked, StreamId, None
<1>3. Latched(t)
  BY <1>1 DEF Sound, Latched, Synchronized
<1>4. QED
  BY <1>1, <1>2, <1>3 DEF Follows, Sound

IntakeInv ==
  /\ Sound(w, confirmed)
  /\ applied \subseteq confirmed
  /\ confirmed \subseteq StreamId

LEMMA CommandsFollow ==
  ASSUME IntakeInv, HandleCommand
  PROVE  /\ Sound(w', confirmed)
         /\ EnableIntake \/ DisableIntake \/ Follows(w, w', confirmed)
<1> USE DEF IntakeInv
<1>1. CASE EnableIntake
  <2>1. CASE w.emergency \/ w.recovery
    BY <1>1, <2>1 DEF EnableIntake
  <2>2. CASE ~(w.emergency \/ w.recovery)
    <3>1. w' = [w EXCEPT !.operator = TRUE, !.accepting = TRUE]
      BY <1>1, <2>2 DEF EnableIntake
    <3>2. w' \in WorkerState /\ Tracked(w', confirmed)
      BY <3>1, Zenon DEF Sound, Tracked, WorkerState
    <3>3. Latched(w')
      BY <2>2, <3>1 DEF Sound, Latched, WorkerState, Synchronized
    <3>4. QED
      BY <1>1, <3>2, <3>3 DEF Sound
  <2>3. QED
    BY <2>1, <2>2
<1>2. CASE DisableIntake
  <2>1. w' = [w EXCEPT !.operator = FALSE, !.accepting = FALSE]
    BY <1>2 DEF DisableIntake
  <2>2. w' \in WorkerState /\ Tracked(w', confirmed)
    BY <2>1, Zenon DEF Sound, Tracked, WorkerState
  <2>3. Latched(w')
    BY <2>1 DEF Sound, Latched, WorkerState, Synchronized
  <2>4. QED
    BY <1>2, <2>2, <2>3 DEF Sound
<1>3. CASE EnterEmergency
  BY <1>3, LatchEmergencyFollows DEF EnterEmergency, Follows
<1>4. CASE CancelOrders
  BY <1>4, LatchEmergencyFollows, StutterFollows DEF CancelOrders, Follows
<1>5. CASE ReplaceOrder
  BY <1>5, LatchEmergencyFollows, StutterFollows DEF ReplaceOrder, Follows
<1>6. CASE ReconcileSnapshot
  BY <1>6, StutterFollows DEF ReconcileSnapshot, Follows
<1>7. QED
  BY <1>1, <1>2, <1>3, <1>4, <1>5, <1>6 DEF HandleCommand

LEMMA EventsFollow ==
  ASSUME IntakeInv, PrivateEvent
  PROVE  Follows(w, w', confirmed)
<1> USE DEF IntakeInv, NoRecovery
<1>1. ASSUME NEW c \in Client, NEW up \in BOOLEAN, ConnectionStatus(c, up)
      PROVE  Follows(w, w', confirmed)
  <2>1. Follows(w, OnConnectionStatus(w, c, up), confirmed)
    BY ConnectionStatusFollows
  <2>2. QED
    BY <1>1, <2>1, ReconcileFollows DEF ConnectionStatus, Follows
<1>2. ASSUME NEW c \in Client, NEW id \in StreamId, StreamBarrier(c, id)
      PROVE  Follows(w, w', confirmed)
  BY <1>2, BarrierFollows DEF StreamBarrier
<1>3. ASSUME NEW c \in Client, NEW id \in StreamId, NEW up \in BOOLEAN,
             StreamSynchronized(c, id, up)
      PROVE  Follows(w, w', confirmed)
  BY <1>3, SynchronizedFollows DEF StreamSynchronized
<1>4. ASSUME NEW c \in Client, EventsMissed(c) \/ StreamFailed(c)
      PROVE  Follows(w, w', confirmed)
  BY <1>4, StreamLostFollows DEF EventsMissed, StreamFailed
<1>5. CASE Misrouted
  <2>1. Follows(w, LatchEmergency(w), confirmed)
    BY LatchEmergencyFollows
  <2>2. Follows(LatchEmergency(w), LatchRecovery(LatchEmergency(w)), confirmed)
    BY <2>1, LatchRecoveryFollows DEF Follows, Sound
  <2>3. w' = LatchRecovery(LatchEmergency(w))
    BY <1>5 DEF Misrouted
  <2>4. QED
    BY <2>1, <2>2, <2>3, FollowsTransitive
<1>6. ASSUME NEW i \in Intent, NEW overfill \in BOOLEAN, OrderEvent(i, overfill)
      PROVE  Follows(w, w', confirmed)
  BY <1>6, LatchEmergencyFollows, StutterFollows DEF OrderEvent
<1>7. QED
  BY <1>1, <1>2, <1>3, <1>4, <1>5, <1>6 DEF PrivateEvent

LEMMA LoopFollows ==
  ASSUME IntakeInv, Loop
  PROVE  /\ Sound(w', confirmed)
         /\ EnableIntake \/ DisableIntake \/ Follows(w, w', confirmed)
<1> USE DEF IntakeInv, NoRecovery
<1>1. Follows(w, w, confirmed)
  BY StutterFollows
<1>2. CASE HandleCommand
  BY <1>2, CommandsFollow
<1>3. CASE PollApplied
  <2> DEFINE matched == {c \in Client : w.ack[c] \in applied}
             t == [w EXCEPT !.ack =
                     [c \in Client |-> IF c \in matched THEN None ELSE w.ack[c]]]
  <2>1. Follows(w, t, confirmed)
    <3>1. matched \in SUBSET Client /\ \A c \in matched : w.ack[c] \in applied
      OBVIOUS
    <3>2. applied \subseteq StreamId
      OBVIOUS
    <3> HIDE DEF matched
    <3>3. QED
      BY <3>1, <3>2, AppliedFollows, Zenon
  <2>2. ReconcileOpenOrders(t, reports) \/ w' = t
    BY <1>3 DEF PollApplied
  <2> HIDE DEF t
  <2>3. QED
    BY <2>1, <2>2, ReconcileFollows DEF Follows
<1>4. CASE RetryStreamRecovery \/ PeriodicReconcile
  BY <1>1, <1>4, ReconcileFollows
     DEF RetryStreamRecovery, PeriodicReconcile, Follows
<1>5. CASE \E outcome \in Outcome : PlacementReturns(outcome)
  BY <1>1, <1>5, LatchEmergencyFollows DEF PlacementReturns, Follows
<1>6. CASE CheckAckTimeouts
  BY <1>1, <1>6, LatchEmergencyFollows DEF CheckAckTimeouts, Follows
<1>7. CASE \/ ControlDrained \/ PollEnds \/ ReceiveEnvelopes \/ RejectIntent
           \/ SubmitIntent \/ Wake
  BY <1>1, <1>7 DEF ControlDrained, PollEnds, ReceiveEnvelopes, RejectIntent,
                    SubmitIntent, Wake
<1>8. QED
  BY <1>2, <1>3, <1>4, <1>5, <1>6, <1>7 DEF Loop

(* The worker only takes acknowledgements; the engine adds them.           *)
LEMMA EngineState ==
  ASSUME [Next]_vars
  PROVE  \/ UNCHANGED <<halted, confirmed, faulted>> /\ applied' \in {applied, {}}
         \/ ClearHalt
         \/ \E n \in 1..Len(reports), fault \in BOOLEAN : DrainReports(n, fault)
<1>1. CASE HandleCommand
  BY <1>1 DEF HandleCommand, EnableIntake, DisableIntake, EnterEmergency,
              CancelOrders, ReplaceOrder, ReconcileSnapshot, TakeCommand,
              engineVars
<1>2. CASE PrivateEvent
  BY <1>2, Zenon DEF PrivateEvent, ConnectionStatus, StreamBarrier,
              StreamSynchronized, EventsMissed, StreamFailed, Misrouted,
              OrderEvent, TakeEvent, engineVars
<1>3. CASE Loop /\ ~HandleCommand
  BY <1>3, Zenon DEF Loop, ControlDrained, PollEnds, PollApplied, RetryStreamRecovery,
              ReceiveEnvelopes, RejectIntent, SubmitIntent, PlacementReturns,
              CheckAckTimeouts, PeriodicReconcile, Wake, engineVars
<1>4. CASE Neighbours
  BY <1>4 DEF Neighbours, EnqueueIntent, EngineReports, SendCommand, engineVars
<1>5. CASE UNCHANGED vars
  BY <1>5 DEF vars, engineVars
<1>6. QED
  BY <1>1, <1>2, <1>3, <1>4, <1>5 DEF Next, Worker

LEMMA AcknowledgementsGrow ==
  ASSUME IntakeInv, [Next]_vars
  PROVE  /\ confirmed \subseteq confirmed'
         /\ confirmed' \subseteq StreamId
         /\ applied' \subseteq confirmed'
BY EngineState, Zenon DEF IntakeInv, ClearHalt, DrainReports, Markers

LEMMA IntakeStep ==
  ASSUME IntakeInv, [Next]_vars
  PROVE  /\ IntakeInv'
         /\ EnableIntake \/ DisableIntake \/ Follows(w, w', confirmed)
<1>1. /\ Sound(w', confirmed)
      /\ EnableIntake \/ DisableIntake \/ Follows(w, w', confirmed)
  <2>1. CASE Loop
    BY <2>1, LoopFollows
  <2>2. CASE PrivateEvent
    BY <2>2, EventsFollow DEF Follows
  <2>3. CASE Neighbours \/ UNCHANGED vars
    <3>1. w' = w
      BY <2>3 DEF Neighbours, EnqueueIntent, EngineReports, DrainReports,
                  ClearHalt, SendCommand, vars
    <3>2. QED
      BY <3>1, StutterFollows DEF IntakeInv
  <2>4. QED
    BY <2>1, <2>2, <2>3 DEF Next, Worker
<1>2. Sound(w', confirmed')
  BY <1>1, AcknowledgementsGrow, SoundMonotone
<1>3. QED
  BY <1>1, <1>2, AcknowledgementsGrow DEF IntakeInv

(* The inductive invariant of the intake: the record stays sound, and only *)
(* acknowledged streams are ever handed back to the worker.                *)
THEOREM IntakeInvariant == Spec => []IntakeInv
<1>1. Init => IntakeInv
  BY DEF Init, IntakeInv, Sound, Latched, Tracked, Synchronized, WorkerState
<1>2. IntakeInv /\ [Next]_vars => IntakeInv'
  BY IntakeStep
<1>3. QED
  BY <1>1, <1>2, PTL DEF Spec

(* The intake is open only with every latch clear and every client's       *)
(* stream connected, past its barrier and applied by the engine.           *)
THEOREM OpenIntake == Spec => []OpenIntakeIsHealthy
<1>1. IntakeInv => OpenIntakeIsHealthy
  BY DEF IntakeInv, Sound, Latched, OpenIntakeIsHealthy
<1>2. QED
  BY <1>1, IntakeInvariant, PTL

(* A recovery ends only when the newest generation of every client was     *)
(* acknowledged.                                                           *)
THEOREM LatestApplied == Spec => []LatestStreamApplied
<1>1. IntakeInv => LatestStreamApplied
  <2>1. SUFFICES ASSUME IntakeInv, ~w.recovery, NEW c \in Client
                 PROVE  w.latest[c] \in confirmed \cup {None}
    BY DEF LatestStreamApplied
  <2>2. w.barrier[c] = None /\ w.ack[c] = None
    BY <2>1 DEF IntakeInv, Sound, Latched, Synchronized
  <2>3. QED
    BY <2>1, <2>2 DEF IntakeInv, Sound, Tracked
<1>2. QED
  BY <1>1, IntakeInvariant, PTL

(* Intents reach an adapter only from an accepting worker.                 *)
LEMMA SubmissionNeedsIntake ==
  ASSUME [Next]_vars, submitted' # submitted
  PROVE  w.accepting
<1>1. CASE HandleCommand
  BY <1>1 DEF HandleCommand, EnableIntake, DisableIntake, EnterEmergency,
              CancelOrders, ReplaceOrder, ReconcileSnapshot, TakeCommand
<1>2. CASE PrivateEvent
  BY <1>2, Zenon DEF PrivateEvent, ConnectionStatus, StreamBarrier,
              StreamSynchronized, EventsMissed, StreamFailed, Misrouted,
              OrderEvent, TakeEvent
<1>3. CASE Loop /\ ~HandleCommand
  BY <1>3, Zenon DEF Loop, ControlDrained, PollEnds, PollApplied, RetryStreamRecovery,
              ReceiveEnvelopes, RejectIntent, SubmitIntent, PlacementReturns,
              CheckAckTimeouts, PeriodicReconcile, Wake, queueVars
<1>4. CASE Neighbours
  BY <1>4 DEF Neighbours, EnqueueIntent, EngineReports, DrainReports,
              ClearHalt, SendCommand, queueVars
<1>5. CASE UNCHANGED vars
  BY <1>5 DEF vars, queueVars
<1>6. QED
  BY <1>1, <1>2, <1>3, <1>4, <1>5 DEF Next, Worker

(* The emergency latch is never cleared, and nothing is submitted under it.*)
THEOREM EmergencyFinal == Spec => EmergencyIsFinal
<1>1. IntakeInv /\ [Next]_vars
        => [w.emergency => w'.emergency /\ submitted' = submitted]_vars
  <2>1. SUFFICES ASSUME IntakeInv, [Next]_vars, w.emergency
                 PROVE  w'.emergency /\ submitted' = submitted
    OBVIOUS
  <2>2. ~w.accepting
    BY <2>1 DEF IntakeInv, Sound, Latched
  <2>3. submitted' = submitted
    BY <2>1, <2>2, SubmissionNeedsIntake
  <2>4. CASE EnableIntake
    BY <2>1, <2>3, <2>4 DEF EnableIntake, IntakeInv, Sound, WorkerState
  <2>5. CASE DisableIntake
    BY <2>1, <2>3, <2>5 DEF DisableIntake, IntakeInv, Sound, WorkerState
  <2>6. CASE Follows(w, w', confirmed)
    BY <2>1, <2>3, <2>6 DEF Follows
  <2>7. QED
    BY <2>1, <2>3, <2>4, <2>5, <2>6, IntakeStep
<1>2. QED
  BY <1>1, IntakeInvariant, PTL DEF Spec, EmergencyIsFinal

(* Only an enabling command reopens an intake that the operator closed.    *)
THEOREM PauseOutlives == Spec => PauseOutlivesRecovery
<1>1. IntakeInv /\ [Next]_vars
        => [~w.operator /\ w'.accepting => EnableIntake]_vars
  <2>1. SUFFICES ASSUME IntakeInv, [Next]_vars, ~w.operator, w'.accepting
                 PROVE  EnableIntake
    OBVIOUS
  <2>2. ~DisableIntake
    <3>1. w' = [w EXCEPT !.operator = FALSE, !.accepting = FALSE] => ~w'.accepting
      BY <2>1 DEF IntakeInv, Sound, WorkerState
    <3>2. QED
      BY <2>1, <3>1 DEF DisableIntake
  <2>3. ~Follows(w, w', confirmed)
    BY <2>1 DEF Follows, Sound, Latched
  <2>4. QED
    BY <2>1, <2>2, <2>3, IntakeStep
<1>2. QED
  BY <1>1, IntakeInvariant, PTL DEF Spec, PauseOutlivesRecovery

(* A failed report leaves the halt set until checkpoints replace it.       *)
FaultHalts == faulted \in BOOLEAN /\ halted \in BOOLEAN /\ (faulted => halted)

LEMMA FaultStep ==
  ASSUME FaultHalts, [Next]_vars
  PROVE  FaultHalts' /\ (confirmed' # confirmed => ~faulted')
<1>1. CASE UNCHANGED <<halted, confirmed, faulted>>
  BY <1>1 DEF FaultHalts
<1>2. CASE ClearHalt
  BY <1>2, Zenon DEF FaultHalts, ClearHalt
<1>3. CASE \E n \in 1..Len(reports), fault \in BOOLEAN : DrainReports(n, fault)
  <2>1. PICK n \in 1..Len(reports), fault \in BOOLEAN : DrainReports(n, fault)
    BY <1>3
  <2>2. halted' = (halted \/ fault) /\ faulted' = (faulted \/ fault)
    BY <2>1, Zenon DEF DrainReports
  <2>3. confirmed' # confirmed => ~halted /\ ~fault
    BY <2>1 DEF DrainReports
  <2>4. QED
    BY <2>2, <2>3, Zenon DEF FaultHalts
<1>4. QED
  BY <1>1, <1>2, <1>3, EngineState

(* A stream marker is acknowledged only with every report before it, and   *)
(* every report of its batch, applied.                                     *)
THEOREM Acknowledged == Spec => AcknowledgedMeansApplied
<1>1. Init => FaultHalts
  BY Zenon DEF Init, FaultHalts
<1>2. FaultHalts /\ [Next]_vars
        => FaultHalts' /\ [confirmed' # confirmed => ~faulted']_vars
  BY FaultStep
<1>3. QED
  BY <1>1, <1>2, PTL DEF Spec, AcknowledgedMeansApplied

-----------------------------------------------------------------------------
(* Type correctness, one group of variables at a time.                     *)

CommandType ==
  /\ replies \in Seq({"pending", "ok", "refused"})
  /\ control \in Seq(Command)
  /\ \A k \in DOMAIN control : control[k].id \in DOMAIN replies

IntentType ==
  /\ ring \in Seq(Intent) /\ batch \in Seq(Intent)
  /\ submitted \subseteq Intent /\ rejected \subseteq Intent
  /\ stale \subseteq Intent
  /\ reports \in Seq(Report)

LoopType ==
  /\ wpc \in {"control", "events", "applied", "retry", "receive", "gate",
              "placing", "timeouts", "reconcile", "idle"}
  /\ wpc \in {"gate", "placing"} => batch # <<>>
  /\ polled \in 0..EventLimit
  /\ streams \in 0..MaxStream /\ events \in 0..MaxEvents
  /\ unacked \subseteq Intent /\ cancelSent \subseteq unacked

LEMMA PostKeepsType ==
  ASSUME CommandType, NEW kind \in CommandKind, PostCommand(kind)
  PROVE  CommandType'
<1>1. replies' \in Seq({"pending", "ok", "refused"})
      /\ Len(replies') = Len(replies) + 1 /\ Len(replies) \in Nat
  BY DEF CommandType, PostCommand
<1>2. [id |-> Len(replies) + 1, kind |-> kind] \in Command
  BY <1>1, BoundAssumption DEF CommandType, PostCommand, Command
<1>3. control' \in Seq(Command)
  BY <1>2 DEF CommandType, PostCommand
<1>4. \A k \in DOMAIN control' : control'[k].id \in DOMAIN replies'
  <2>1. TAKE k \in DOMAIN control'
  <2>2. CASE k \in DOMAIN control
    BY <1>1, <2>2 DEF CommandType, PostCommand
  <2>3. CASE k = Len(control) + 1
    BY <1>1, <2>3 DEF CommandType, PostCommand
  <2>4. QED
    BY <2>2, <2>3 DEF CommandType, PostCommand
<1>5. QED
  BY <1>1, <1>3, <1>4 DEF CommandType

LEMMA TakeKeepsType ==
  ASSUME CommandType, NEW kind, TakeCommand(kind),
         Reply("ok") \/ Reply("refused")
  PROVE  CommandType'
<1>1. control # <<>> /\ control' = Tail(control)
  BY DEF TakeCommand
<1>2. control' \in Seq(Command)
      /\ \A k \in DOMAIN control' : k + 1 \in DOMAIN control
                                    /\ control'[k] = control[k + 1]
  BY <1>1 DEF CommandType
<1>3. replies' \in Seq({"pending", "ok", "refused"})
      /\ DOMAIN replies' = DOMAIN replies
  <2> DEFINE R == {"pending", "ok", "refused"}
  <2>1. PICK r \in R : replies' = [replies EXCEPT ![Head(control).id] = r]
    BY DEF Reply
  <2>2. Head(control).id \in 1..Len(replies)
    BY <1>1 DEF CommandType
  <2>3. replies \in Seq(R)
    BY DEF CommandType
  <2> HIDE DEF R
  <2>4. Len(replies) \in Nat /\ replies' \in [1..Len(replies) -> R]
    BY <2>1, <2>2, <2>3
  <2>5. QED
    BY <2>3, <2>4 DEF R
<1>4. QED
  BY <1>2, <1>3 DEF CommandType

LEMMA CommandStep ==
  ASSUME CommandType, [Next]_vars
  PROVE  CommandType'
<1>1. CASE HandleCommand
  BY <1>1, TakeKeepsType
     DEF HandleCommand, EnableIntake, DisableIntake, EnterEmergency,
         CancelOrders, ReplaceOrder, ReconcileSnapshot
<1>2. CASE UNCHANGED <<control, replies>>
  BY <1>2 DEF CommandType
<1>3. CASE PrivateEvent
  BY <1>2, <1>3, Zenon DEF PrivateEvent, ConnectionStatus, StreamBarrier,
              StreamSynchronized, EventsMissed, StreamFailed, Misrouted,
              OrderEvent, TakeEvent
<1>4. CASE Loop /\ ~HandleCommand
  BY <1>2, <1>4, Zenon DEF Loop, ControlDrained, PollEnds, PollApplied,
              RetryStreamRecovery, ReceiveEnvelopes, RejectIntent,
              SubmitIntent, PlacementReturns, CheckAckTimeouts,
              PeriodicReconcile, Wake
<1>5. CASE Neighbours
  <2>1. "intake_off" \in CommandKind
    BY DEF CommandKind
  <2>2. QED
    BY <1>2, <1>5, <2>1, PostKeepsType
       DEF Neighbours, EnqueueIntent, EngineReports, ClearHalt, SendCommand
<1>6. CASE UNCHANGED vars
  BY <1>2, <1>6 DEF vars
<1>7. QED
  BY <1>1, <1>3, <1>4, <1>5, <1>6 DEF Next, Worker

(* Splitting a batch from the FIFO, and reporting it as unsent.            *)
LEMMA BatchType ==
  ASSUME NEW q \in Seq(Intent)
  PROVE  /\ BatchOf(q) \in Seq(Intent) /\ AfterBatch(q) \in Seq(Intent)
         /\ q # <<>> => BatchOf(q) # <<>>
<1>1. Len(q) \in Nat /\ BatchSize \in Nat \ {0}
  BY BatchAssumption
<1> DEFINE n == IF BatchSize < Len(q) THEN BatchSize ELSE Len(q)
<1>2. n \in 0..Len(q) /\ (q # <<>> => n # 0)
  BY <1>1
<1>3. BatchOf(q) = SubSeq(q, 1, n)
  BY DEF BatchOf
<1> HIDE DEF n
<1>4. BatchOf(q) \in Seq(Intent) /\ Len(BatchOf(q)) = n
  BY <1>1, <1>2, <1>3
<1>5. AfterBatch(q) \in Seq(Intent)
  BY <1>1, <1>2, <1>4 DEF AfterBatch
<1>6. QED
  BY <1>2, <1>4, <1>5

LEMMA UnsentType ==
  ASSUME NEW q \in Seq(Intent)
  PROVE  UnsentReports(q) \in Seq(Report) /\ Range(q) \subseteq Intent
<1>1. \A k \in DOMAIN q : [kind |-> "unsent", intent |-> q[k]] \in Report
  BY DEF Report
<1>2. UnsentReports(q) \in [1..Len(q) -> Report]
  BY <1>1 DEF UnsentReports
<1>3. QED
  BY <1>2 DEF Range

LEMMA ReconcileType ==
  ASSUME IntentType, NEW s, NEW sent \in Seq(Report),
         ReconcileOpenOrders(s, sent) \/ NoRecovery(s, sent)
  PROVE  /\ ring' \in Seq(Intent) /\ rejected' \subseteq Intent
         /\ reports' \in Seq(Report)
<1>1. CASE ReconcileOpenOrders(s, sent)
  <2>1. PICK taken \in {<<>>, BatchOf(ring)}, left \in {ring, AfterBatch(ring)} :
          /\ ring' = left
          /\ rejected' = rejected \cup Range(taken)
          /\ reports' = sent \o UnsentReports(taken)
    BY <1>1, Zenon DEF ReconcileOpenOrders
  <2>2. taken \in Seq(Intent) /\ left \in Seq(Intent)
    <3>1. /\ <<>> \in Seq(Intent) /\ ring \in Seq(Intent)
          /\ BatchOf(ring) \in Seq(Intent) /\ AfterBatch(ring) \in Seq(Intent)
      BY BatchType DEF IntentType
    <3>2. QED
      BY <3>1, Zenon
  <2>3. QED
    BY <2>1, <2>2, UnsentType DEF IntentType
<1>2. CASE NoRecovery(s, sent)
  BY <1>2 DEF NoRecovery, IntentType
<1>3. QED
  BY <1>1, <1>2

LEMMA RejectQueuedType ==
  ASSUME IntentType, RejectQueuedIntents
  PROVE  /\ ring' \in Seq(Intent) /\ rejected' \subseteq Intent
         /\ reports' \in Seq(Report)
BY UnsentType DEF IntentType, RejectQueuedIntents

LEMMA CommandIntents ==
  ASSUME IntentType, HandleCommand
  PROVE  IntentType'
<1>1. /\ ring' \in Seq(Intent) /\ rejected' \subseteq Intent
      /\ reports' \in Seq(Report)
  BY RejectQueuedType
     DEF IntentType, HandleCommand, EnableIntake, DisableIntake,
         EnterEmergency, CancelOrders, ReplaceOrder, ReconcileSnapshot
<1>2. UNCHANGED <<batch, submitted, stale>>
  BY DEF HandleCommand, EnableIntake, DisableIntake, EnterEmergency,
         CancelOrders, ReplaceOrder, ReconcileSnapshot, TakeCommand
<1>3. QED
  BY <1>1, <1>2 DEF IntentType

LEMMA EventIntents ==
  ASSUME IntentType, PrivateEvent
  PROVE  IntentType'
<1>1. /\ reports \in Seq(Report) /\ reports \o Event \in Seq(Report)
      /\ \A id \in StreamId :
           Append(reports, [kind |-> "sync", stream |-> id]) \in Seq(Report)
  BY DEF IntentType, Event, Report
<1>2. /\ ring' \in Seq(Intent) /\ rejected' \subseteq Intent
      /\ reports' \in Seq(Report)
  BY <1>1, ReconcileType, Zenon
     DEF PrivateEvent, ConnectionStatus, StreamBarrier, StreamSynchronized,
         EventsMissed, StreamFailed, Misrouted, OrderEvent
<1>3. UNCHANGED <<batch, submitted, stale>>
  BY Zenon DEF PrivateEvent, ConnectionStatus, StreamBarrier, StreamSynchronized,
         EventsMissed, StreamFailed, Misrouted, OrderEvent, TakeEvent
<1>4. QED
  BY <1>2, <1>3 DEF IntentType

LEMMA PlacementType ==
  ASSUME IntentType, batch # <<>>, NEW outcome \in Outcome,
         PlacementReturns(outcome)
  PROVE  IntentType'
<1> DEFINE i == Head(batch)
<1>1. i \in Intent /\ Tail(batch) \in Seq(Intent)
  BY DEF IntentType
<1>2. /\ NewReport(i) \in Seq(Report)
      /\ UnsentReports(<<i>>) \in Seq(Report)
      /\ Append(NewReport(i), [kind |-> "reject", intent |-> i]) \in Seq(Report)
      /\ <<>> \in Seq(Report)
  <2>1. <<i>> \in Seq(Intent)
    BY <1>1
  <2>2. UnsentReports(<<i>>) \in Seq(Report)
    BY <2>1, UnsentType, Zenon
  <2>3. QED
    BY <1>1, <2>2 DEF NewReport, Report
<1>3. reports' \in Seq(Report)
  <2>1. PICK more \in {NewReport(i), UnsentReports(<<i>>), <<>>,
                       Append(NewReport(i), [kind |-> "reject", intent |-> i])} :
          reports' = reports \o more
    BY Zenon DEF PlacementReturns, Outcome
  <2>2. more \in Seq(Report)
    BY <1>2, <2>1, Zenon
  <2>3. QED
    BY <2>1, <2>2 DEF IntentType
<1>4. batch' \in Seq(Intent) /\ rejected' \subseteq Intent
  BY <1>1 DEF PlacementReturns, NextIntent, IntentType
<1>5. UNCHANGED <<ring, submitted, stale>>
  BY DEF PlacementReturns
<1>6. QED
  BY <1>3, <1>4, <1>5 DEF IntentType

LEMMA LoopIntents ==
  ASSUME IntentType, LoopType, Loop
  PROVE  IntentType'
<1>1. CASE HandleCommand
  BY <1>1, CommandIntents
<1>2. CASE PollApplied \/ RetryStreamRecovery \/ PeriodicReconcile
  <2>1. \E s : ReconcileOpenOrders(s, reports) \/ NoRecovery(s, reports)
    BY <1>2, Zenon DEF PollApplied, RetryStreamRecovery, PeriodicReconcile
  <2>2. UNCHANGED <<batch, submitted, stale>>
    BY <1>2 DEF PollApplied, RetryStreamRecovery, PeriodicReconcile
  <2>3. reports \in Seq(Report)
    BY DEF IntentType
  <2>4. QED
    BY <2>1, <2>2, <2>3, ReconcileType DEF IntentType
<1>3. CASE ReceiveEnvelopes
  <2>1. batch' \in Seq(Intent) /\ ring' \in Seq(Intent)
    BY <1>3, BatchType DEF ReceiveEnvelopes, IntentType
  <2>2. QED
    BY <1>3, <2>1 DEF ReceiveEnvelopes, IntentType
<1>4. CASE RejectIntent \/ SubmitIntent
  <2>1. Head(batch) \in Intent /\ Tail(batch) \in Seq(Intent)
    BY <1>4 DEF RejectIntent, SubmitIntent, IntentType, LoopType
  <2>2. CASE SubmitIntent
    BY <2>1, <2>2 DEF SubmitIntent, IntentType
  <2>3. CASE RejectIntent
    <3>1. <<Head(batch)>> \in Seq(Intent)
      BY <2>1
    <3>2. UnsentReports(<<Head(batch)>>) \in Seq(Report)
      BY <3>1, UnsentType, Zenon
    <3>3. QED
      BY <2>1, <2>3, <3>2 DEF RejectIntent, NextIntent, IntentType
  <2>4. QED
    BY <1>4, <2>2, <2>3
<1>5. ASSUME NEW outcome \in Outcome, PlacementReturns(outcome)
      PROVE  IntentType'
  BY <1>5, PlacementType, Zenon DEF PlacementReturns, LoopType
<1>6. CASE ControlDrained \/ PollEnds \/ CheckAckTimeouts \/ Wake
  BY <1>6 DEF ControlDrained, PollEnds, CheckAckTimeouts, Wake, queueVars,
              IntentType
<1>7. QED
  BY <1>1, <1>2, <1>3, <1>4, <1>5, <1>6 DEF Loop

LEMMA NeighbourIntents ==
  ASSUME IntentType, Neighbours
  PROVE  IntentType'
<1>1. ASSUME NEW i \in Intent, EnqueueIntent(i)
      PROVE  IntentType'
  BY <1>1 DEF EnqueueIntent, IntentType
<1>2. CASE EngineReports
  <2>1. PICK n \in 1..Len(reports), fault \in BOOLEAN : DrainReports(n, fault)
    BY <1>2 DEF EngineReports
  <2>2. Undecided \subseteq Intent
    BY UnsentType DEF Undecided, IntentType
  <2>3. reports' \in Seq(Report)
    BY <2>1 DEF DrainReports, IntentType
  <2>4. stale' \subseteq Intent
    BY <2>1, <2>2 DEF DrainReports, IntentType
  <2>5. UNCHANGED <<ring, batch, submitted, rejected>>
    BY <2>1 DEF DrainReports
  <2>6. QED
    BY <2>3, <2>4, <2>5 DEF IntentType
<1>3. CASE ClearHalt \/ \E kind \in CommandKind : SendCommand(kind)
  BY <1>3 DEF ClearHalt, SendCommand, queueVars, IntentType
<1>4. QED
  BY <1>1, <1>2, <1>3 DEF Neighbours

LEMMA CommandLoop ==
  ASSUME LoopType, HandleCommand
  PROVE  LoopType'
<1>1. UNCHANGED <<wpc, polled, batch, ackVars, envVars>>
  BY Zenon DEF HandleCommand, EnableIntake, DisableIntake, EnterEmergency,
         CancelOrders, ReplaceOrder, ReconcileSnapshot, TakeCommand
<1>2. QED
  BY <1>1 DEF LoopType, ackVars, envVars

LEMMA EventLoop ==
  ASSUME LoopType, PrivateEvent
  PROVE  LoopType'
<1> USE BatchAssumption, BoundAssumption
<1>1. /\ events' \in 0..MaxEvents /\ polled' \in 0..EventLimit
      /\ wpc' \in {"events", "control", "applied"}
  <2>1. CASE TakeEvent
    BY <2>1 DEF TakeEvent, LoopType
  <2>2. CASE \E c \in Client : StreamFailed(c)
    BY <2>2 DEF StreamFailed, LoopType
  <2>3. QED
    BY <2>1, <2>2, Zenon
       DEF PrivateEvent, ConnectionStatus, StreamBarrier, StreamSynchronized,
           EventsMissed, Misrouted, OrderEvent
<1>2. streams' \in 0..MaxStream
  <2>1. ASSUME NEW c \in Client, NEW id \in StreamId, StreamBarrier(c, id)
        PROVE  streams' \in 0..MaxStream
    BY <2>1 DEF StreamBarrier, StreamId, LoopType
  <2>2. CASE streams' = streams
    BY <2>2 DEF LoopType
  <2>3. QED
    BY <2>1, <2>2, Zenon
       DEF PrivateEvent, ConnectionStatus, StreamSynchronized, EventsMissed,
           StreamFailed, Misrouted, OrderEvent
<1>3. unacked' \subseteq Intent /\ cancelSent' \subseteq unacked'
  <2>1. UNCHANGED ackVars \/ \E i \in Intent : /\ unacked' = unacked \ {i}
                                               /\ cancelSent' = cancelSent \ {i}
    BY Zenon DEF PrivateEvent, ConnectionStatus, StreamBarrier,
           StreamSynchronized, EventsMissed, StreamFailed, Misrouted, OrderEvent
  <2>2. QED
    BY <2>1 DEF ackVars, LoopType
<1>4. QED
  BY <1>1, <1>2, <1>3 DEF LoopType

LEMMA LoopKeepsType ==
  ASSUME IntentType, LoopType, Loop
  PROVE  LoopType'
<1>1. CASE HandleCommand
  BY <1>1, CommandLoop
<1>2. CASE ControlDrained \/ PollEnds \/ Wake \/ PeriodicReconcile
           \/ RetryStreamRecovery \/ PollApplied
  <2>1. /\ UNCHANGED <<batch, ackVars, envVars>>
        /\ polled' \in 0..EventLimit
        /\ wpc' \in {"events", "applied", "control", "idle", "retry",
                     "receive", "timeouts", "gate"}
        /\ wpc' = "gate" => batch # <<>>
    BY <1>2, BatchAssumption
       DEF ControlDrained, PollEnds, Wake, PeriodicReconcile,
           RetryStreamRecovery, PollApplied, queueVars, LoopType
  <2>2. QED
    BY <2>1 DEF LoopType, ackVars, envVars
<1>3. CASE ReceiveEnvelopes \/ RejectIntent
  BY <1>3 DEF ReceiveEnvelopes, RejectIntent, NextIntent, LoopType, ackVars,
              envVars
<1>4. CASE SubmitIntent
  BY <1>4 DEF SubmitIntent, LoopType, ackVars, envVars
<1>5. ASSUME NEW outcome \in Outcome, PlacementReturns(outcome)
      PROVE  LoopType'
  <2>1. Head(batch) \in Intent
    BY <1>5 DEF PlacementReturns, LoopType, IntentType
  <2>2. /\ wpc' \in {"timeouts", "control"}
        /\ unacked \subseteq unacked' /\ unacked' \subseteq Intent
        /\ UNCHANGED <<polled, cancelSent, envVars>>
    BY <1>5, <2>1 DEF PlacementReturns, NextIntent, LoopType
  <2>3. QED
    BY <2>2 DEF LoopType, envVars
<1>6. CASE CheckAckTimeouts
  BY <1>6 DEF CheckAckTimeouts, LoopType, queueVars, envVars
<1>7. QED
  BY <1>1, <1>2, <1>3, <1>4, <1>5, <1>6 DEF Loop

(* The invariants of the groups, together.                                 *)
TypeInv == CommandType /\ IntentType /\ LoopType

LEMMA TypeStep ==
  ASSUME TypeInv, [Next]_vars
  PROVE  TypeInv'
<1>1. CommandType'
  BY CommandStep DEF TypeInv
<1>2. CASE Loop
  BY <1>1, <1>2, LoopIntents, LoopKeepsType DEF TypeInv
<1>3. CASE PrivateEvent
  BY <1>1, <1>3, EventIntents, EventLoop DEF TypeInv
<1>4. CASE Neighbours
  <2>1. UNCHANGED <<wpc, polled, batch, ackVars, envVars>>
    BY <1>4 DEF Neighbours, EnqueueIntent, EngineReports, DrainReports,
                ClearHalt, SendCommand, queueVars
  <2>2. LoopType'
    BY <2>1 DEF TypeInv, LoopType, ackVars, envVars
  <2>3. QED
    BY <1>1, <1>4, <2>2, NeighbourIntents DEF TypeInv
<1>5. CASE UNCHANGED vars
  BY <1>1, <1>5 DEF TypeInv, IntentType, LoopType, vars, queueVars, ackVars,
                    envVars
<1>6. QED
  BY <1>2, <1>3, <1>4, <1>5 DEF Next, Worker

(* Type correctness of the worker, its queues and its commands: every      *)
(* command in the FIFO has a reply slot, an intent that is being decided   *)
(* is in the batch, and only unacknowledged orders were timed out.         *)
THEOREM TypeCorrect == Spec => []TypeOK
<1>1. Init => TypeInv
  <2>1. SUFFICES ASSUME Init PROVE CommandType /\ IntentType /\ LoopType
    BY DEF TypeInv
  <2>2. CommandType
    BY <2>1 DEF Init, CommandType
  <2>3. IntentType
    BY <2>1 DEF Init, IntentType
  <2>4. LoopType
    BY <2>1, BatchAssumption, BoundAssumption DEF Init, LoopType
  <2>5. QED
    BY <2>2, <2>3, <2>4
<1>2. TypeInv /\ [Next]_vars => TypeInv'
  BY TypeStep
<1>3. Init => FaultHalts
  BY Zenon DEF Init, FaultHalts
<1>4. FaultHalts /\ [Next]_vars => FaultHalts'
  BY FaultStep
<1>5. TypeInv /\ FaultHalts /\ IntakeInv => TypeOK
  BY DEF TypeInv, CommandType, IntentType, LoopType, FaultHalts, IntakeInv,
         Sound, TypeOK
<1>6. QED
  BY <1>1, <1>2, <1>3, <1>4, <1>5, IntakeInvariant, PTL DEF Spec
====
