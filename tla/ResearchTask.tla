---- MODULE ResearchTask ----
(***************************************************************************)
(* The durable controller of research tasks (research-core/platform):      *)
(* orchestrator.rs (the Task state machine), postgres.rs (claims, row      *)
(* locks, revisions), service.rs (one reconciliation, Reconciler::tick),   *)
(* provider_operations.rs (the journal that lets one create request be     *)
(* sent once) and execution.rs (launching and stopping on Kubernetes).     *)
(* Several reconcilers tick over the same ledger.  A transaction is one    *)
(* step, because it holds the task's row lock; everything between two      *)
(* transactions is provider or artifact I/O done with no lock held.        *)
(*                                                                         *)
(* Clocks are abstracted to the facts the code derives from them: a lease  *)
(* has lapsed, a deadline has passed, an admission has been revoked (or    *)
(* its native deadline has passed).  The fence always equals the attempt   *)
(* number, both being incremented by claim only.  A revision number is     *)
(* abstracted to "nobody committed since": the flag fresh of a reconciler. *)
(* Tasks are of a kind other than CexCampaign, so only the execution       *)
(* resource is created.                                                    *)
(***************************************************************************)
EXTENDS Integers, FiniteSets

CONSTANTS Task, Reconciler,
          OwnerOf,         \* the configured owner name of each reconciler
          Sandboxes,       \* tasks whose backend is AgentSandbox
          NoTask,
          MaxAttempts,     \* spec.max_attempts
          Limit,           \* authority.concurrency_limit
          MaxStep,         \* bound: checkpoint steps a worker takes
          MaxAborts,       \* bound: ticks lost to a crash or an error
          Happens          \* what the environment does, a subset of Events

\* A lease lapses, a deadline passes, an admission is revoked, a user cancels,
\* an operator pauses the authority, a job exceeds its own active deadline, jobs,
\* pods or requests get lost.
Events == {"lapse", "deadline", "revoke", "cancel", "pause", "overrun", "vanish"}

ASSUME ResearchAssumption ==
    /\ IsFiniteSet(Task)
    /\ Sandboxes \subseteq Task
    /\ NoTask \notin Task
    /\ {MaxAttempts, Limit} \subseteq Nat \ {0}
    /\ {MaxStep, MaxAborts} \subseteq Nat
    /\ Happens \subseteq Events

VARIABLES task,    \* research.tasks: the document of each task
          op,      \* research.provider_create_operations, per attempt
          lapsed,  \* the lease's expires_ms has passed
          overdue, \* deadline_ms has passed
          revoked, \* the native admission is revoked or has expired
          paused,  \* authority.mode is not 'postgres'
          prov,    \* the provider and the artifact store, per attempt
          rec,     \* where each reconciler is in its tick
          aborts,
          sends,   \* create requests ever sent, per attempt (history)
          asked,   \* tasks cancelled by a user before they settled (history)
          overlapped \* tasks over which two ticks have overlapped (history)

env == <<lapsed, overdue, revoked, paused>>
history == <<sends, asked, overlapped>>
vars == <<task, op, env, prov, rec, aborts, history>>

Attempts == 1..MaxAttempts
Owners == {OwnerOf[r] : r \in Reconciler}
Terminal == {"succeeded", "failed", "cancelled", "timed_out"}
Active == {"launching", "running", "stopping"}

NewTask == [state |-> "queued", attempt |-> 0, owner |-> "none",
            stoppingAs |-> "none", retry |-> FALSE, receipt |-> 0,
            checkpoint |-> [attempt |-> 0, step |-> 0]]

Nothing == [post |-> "none", job |-> "none", pod |-> "none",
            receipt |-> FALSE, step |-> 0]

Idle == [pc |-> "idle", task |-> NoTask, attempt |-> 0,
         fresh |-> FALSE, seen |-> "none"]

Init ==
    /\ task = [t \in Task |-> NewTask]
    /\ op = [t \in Task |-> [a \in Attempts |-> "none"]]
    /\ lapsed = [t \in Task |-> FALSE]
    /\ overdue = [t \in Task |-> FALSE]
    /\ revoked = [t \in Task |-> FALSE]
    /\ paused = FALSE
    /\ prov = [t \in Task |-> [a \in Attempts |-> Nothing]]
    /\ rec = [r \in Reconciler |-> Idle]
    /\ aborts = 0
    /\ sends = [t \in Task |-> [a \in Attempts |-> 0]]
    /\ asked = {}
    /\ overlapped = {}

-----------------------------------------------------------------------------
(* The Task state machine, orchestrator.rs: each operator returns the task's *)
(* next document.                                                            *)

Stop(k, reason, retry) ==
    CASE k.state = "stopping" ->
            IF reason = "cancelled"
            THEN [k EXCEPT !.stoppingAs = "cancelled",
                           !.retry = FALSE, !.receipt = 0]
            ELSE k
      [] k.state = "queued" -> [k EXCEPT !.state = reason]
      [] OTHER -> [k EXCEPT
            !.state = "stopping",
            !.stoppingAs = reason,
            !.retry = retry /\ reason = "failed" /\ k.attempt < MaxAttempts]

Expire(t, k) ==
    IF k.state \in Terminal \cup {"stopping"} THEN k
    ELSE IF k.attempt > 0 /\ overdue[t] THEN Stop(k, "timed_out", FALSE)
    ELSE IF k.owner # "none" /\ lapsed[t] THEN Stop(k, "failed", TRUE)
    ELSE k

Claimed(k, owner) ==
    [k EXCEPT !.attempt = @ + 1, !.owner = owner, !.state = "launching"]

Stopped(k) ==
    [k EXCEPT !.state = IF k.retry THEN "queued" ELSE k.stoppingAs,
              !.owner = "none", !.retry = FALSE, !.stoppingAs = "none"]

WithResult(k) ==
    [k EXCEPT !.receipt = k.attempt, !.state = "stopping",
              !.stoppingAs = "succeeded", !.retry = FALSE]

-----------------------------------------------------------------------------
(* Transactions, postgres.rs.                                               *)

\* lock_id: a paused authority stops whatever it locks.
Locked(t) ==
    IF paused /\ task[t].state \notin Terminal
    THEN Stop(task[t], "cancelled", FALSE)
    ELSE task[t]

\* LockedTask::commit by r of document k: the revision moves, so nobody
\* else's snapshot of this task can be reacquired.
Commit(r, t, k, mine) ==
    /\ task' = [task EXCEPT ![t] = k]
    /\ rec' = [q \in Reconciler |->
                  IF q = r THEN mine
                  ELSE IF rec[q].task = t THEN [rec[q] EXCEPT !.fresh = FALSE]
                  ELSE rec[q]]

\* The tick ends with an error: its transaction, if any, is rolled back.
Fail(r) ==
    /\ rec' = [rec EXCEPT ![r] = Idle]
    /\ UNCHANGED task

Goto(r, pc) == [rec[r] EXCEPT !.pc = pc, !.fresh = FALSE]

ActiveTasks == {t \in Task : task[t].state \in Active}

MayClaim == ~paused /\ Cardinality(ActiveTasks) < Limit

\* A tick over t begins, perhaps while another one is under way.
TickBegins(t) ==
    /\ overlapped' = overlapped \cup
                        {s \in {t} : \E q \in Reconciler : rec[q].task = s}
    /\ UNCHANGED <<sends, asked>>

\* lock_next, the claiming half: the authority row is held FOR UPDATE while
\* capacity is counted and the claim, with its NotStarted create operation,
\* is committed.
Claim(r, t) ==
    /\ rec[r].pc = "idle"
    /\ MayClaim
    /\ task[t].state = "queued"
    /\ IF Expire(t, task[t]) # task[t]
       THEN /\ Commit(r, t, Expire(t, task[t]), Idle)
            /\ UNCHANGED <<op, lapsed>>
       ELSE /\ task[t].attempt < MaxAttempts
            /\ Commit(r, t, Claimed(task[t], OwnerOf[r]),
                      [Idle EXCEPT !.pc = "claimed", !.task = t])
            /\ op' = [op EXCEPT ![t][task[t].attempt + 1] = "not_started"]
            /\ lapsed' = [lapsed EXCEPT ![t] = FALSE]
    /\ TickBegins(t)
    /\ UNCHANGED <<overdue, revoked, paused, prov, aborts>>

\* The first transaction of Reconciler::tick on the locked document k0:
\* revocation, expiry, then the lock is released for the I/O of the branch
\* the state selects.
Enter(r, t, k0) ==
    LET k == Expire(t, IF revoked[t] /\ k0.state \notin Terminal
                       THEN Stop(k0, "cancelled", FALSE) ELSE k0)
        at(pc, fresh) == [Idle EXCEPT !.pc = pc, !.task = t,
                                      !.attempt = k.attempt, !.fresh = fresh]
    IN  CASE k.state = "stopping" -> Commit(r, t, k, at("stop_read", FALSE))
          [] k.state = "launching" -> Commit(r, t, k, at("build", TRUE))
          [] k.state = "running" -> Commit(r, t, k, at("observe", TRUE))
          [] OTHER -> Fail(r)

\* lock_id after the claim's commit: whatever happened in between is seen.
EnterClaimed(r) ==
    /\ rec[r].pc = "claimed"
    /\ Enter(r, rec[r].task, Locked(rec[r].task))
    /\ UNCHANGED <<op, env, prov, aborts, history>>

\* lock_maintenance: its own tasks, the lapsed ones and the stopping ones.
Maintain(r, t) ==
    /\ rec[r].pc = "idle"
    /\ ~ (MayClaim /\ \E q \in Task : task[q].state = "queued")
    /\ task[t].state \in Active
    /\ \/ task[t].state = "stopping"
       \/ task[t].owner = OwnerOf[r]
       \/ lapsed[t]
    /\ Enter(r, t, IF paused /\ (task[t].state # "stopping" \/ task[t].retry)
                   THEN Stop(task[t], "cancelled", FALSE) ELSE task[t])
    /\ TickBegins(t)
    /\ UNCHANGED <<op, env, prov, aborts>>

-----------------------------------------------------------------------------
(* Readbacks, service.rs readback_with_heartbeats and postgres.rs           *)
(* reacquire_readback: reads done against a committed snapshot.             *)

Reading == {"build", "observe", "apply"}

\* The exact revision can be reacquired and the attempt is still live.
Current(r) ==
    LET t == rec[r].task
    IN  rec[r].fresh /\ ~paused /\ ~lapsed[t] /\ ~overdue[t] /\ ~revoked[t]

\* A heartbeat or the final reacquisition finds the snapshot superseded or
\* the attempt over: the reads are dropped and any stop is committed.
LoseReadback(r) ==
    LET t == rec[r].task
        stale == ~rec[r].fresh \/ Locked(t) # task[t]
        k == IF Expire(t, task[t]) # task[t] THEN Expire(t, task[t])
             ELSE Stop(task[t], "cancelled", FALSE)
    IN  /\ rec[r].pc \in Reading
        /\ ~Current(r)
        /\ CASE ~stale -> Commit(r, t, k, Idle)
             [] stale /\ Locked(t).state = "stopping" -> Commit(r, t, Locked(t), Idle)
             [] OTHER -> Fail(r)
        /\ UNCHANGED <<op, env, prov, aborts, history>>

\* renew_readback_lease: the pulse commits, and its revision is the reader's.
RenewLease(r) ==
    /\ rec[r].pc \in Reading
    /\ Current(r)
    /\ Commit(r, rec[r].task, task[rec[r].task], rec[r])
    /\ UNCHANGED <<op, env, prov, aborts, history>>

\* The build is verified; admits_launch may find that the admission does not
\* cover the remaining time.
BuildVerified(r) ==
    LET t == rec[r].task
    IN  /\ rec[r].pc = "build"
        /\ Current(r)
        /\ \/ Commit(r, t, task[t], Goto(r, "original"))
           \/ Commit(r, t, Stop(task[t], "cancelled", FALSE), Idle)
        /\ UNCHANGED <<op, env, prov, aborts, history>>

Here(r) == prov[rec[r].task][rec[r].attempt]

\* Kubernetes::observe
Observe(r) ==
    /\ rec[r].pc = "observe"
    /\ rec' = [rec EXCEPT ![r].pc = "apply",
          ![r].seen = IF Here(r).job \in {"none", "gone"} THEN "gone"
                      ELSE IF rec[r].task \notin Sandboxes
                              /\ Here(r).job \in {"failed", "complete"}
                      THEN Here(r).job
                      ELSE "running"]
    /\ UNCHANGED <<task, op, env, prov, aborts, history>>

\* ArtifactGateway::receipt reads the attempt's own key and validates it.
ReceiptFound(t, k) == prov[t][k.attempt].receipt

\* The end of a tick on a running task.  The receipt and the checkpoint were
\* read at some moment since the observation, so a published one may have
\* been missed.  A checkpoint that does not advance, or a lease of another
\* owner, fails the tick.
ApplyObservation(r) ==
    LET t == rec[r].task
        k == task[t]
        a == k.attempt
    IN  /\ rec[r].pc = "apply"
        /\ Current(r)
        /\ \/ /\ rec[r].seen \in {"failed", "gone"}
              /\ Commit(r, t, Stop(k, "failed", TRUE), Idle)
           \/ /\ rec[r].seen = "complete" \/ (rec[r].seen = "running" /\ t \in Sandboxes)
              /\ ReceiptFound(t, k)
              /\ Commit(r, t, WithResult(k), Idle)
           \/ /\ rec[r].seen \notin {"failed", "gone"}
              /\ \E s \in 0..prov[t][a].step :
                    LET c == [attempt |-> a, step |-> s]
                    IN  IF k.owner = OwnerOf[r]
                           /\ (s = 0 \/ c = k.checkpoint \/ s > k.checkpoint.step)
                        THEN Commit(r, t, IF s = 0 THEN k
                                          ELSE [k EXCEPT !.checkpoint = c], Idle)
                        ELSE Fail(r)
        /\ UNCHANGED <<op, env, prov, aborts, history>>

-----------------------------------------------------------------------------
(* Launching, execution.rs launch with the journal of                       *)
(* provider_operations.rs.                                                  *)

Journal == {"original", "begin", "permit", "refused", "record", "ready",
            "rejected", "await", "stop_record", "stop_absent", "stopped"}

\* ProviderMutation::acquire: the same attempt.  A succeeded task cannot be
\* committed a second time, its result row exists.
Held(r) ==
    /\ task[rec[r].task].attempt = rec[r].attempt
    /\ task[rec[r].task].state # "succeeded"

LoseAttempt(r) ==
    /\ rec[r].pc \in Journal
    /\ ~Held(r)
    /\ Fail(r)
    /\ UNCHANGED <<op, env, prov, aborts, history>>

Acquire(r, pc) == rec[r].pc = pc /\ Held(r)

OpOf(r) == op[rec[r].task][rec[r].attempt]

SetOp(r, state) == op' = [op EXCEPT ![rec[r].task][rec[r].attempt] = state]

Persist(r, pc) == Commit(r, rec[r].task, Locked(rec[r].task), Goto(r, pc))

\* journal.original: the body of an earlier first request, if any.
Original(r) ==
    /\ Acquire(r, "original")
    /\ Persist(r, "find")
    /\ UNCHANGED <<op, env, prov, aborts, history>>

Exists(p) == p.job \notin {"none", "gone"}

\* GET of the resource, before and after the create request.
Find(r) ==
    /\ rec[r].pc \in {"find", "confirm"}
    /\ rec' = [rec EXCEPT ![r].pc =
                  IF Exists(Here(r)) THEN "record"
                  ELSE IF @ = "find" THEN "begin" ELSE "await"]
    /\ UNCHANGED <<task, op, env, prov, aborts, history>>

\* Mutant: a pending operation is taken for one that was never sent.
MutantBegin(r) ==
    /\ Acquire(r, "begin")
    /\ IF OpOf(r) \in {"not_started", "pending"}
       THEN /\ SetOp(r, "pending")
            /\ Commit(r, rec[r].task, Locked(rec[r].task),
                      [rec[r] EXCEPT !.pc = "permit", !.fresh = TRUE])
       ELSE /\ Persist(r, IF OpOf(r) = "observed" THEN "await" ELSE "rejected")
            /\ UNCHANGED op
    /\ UNCHANGED <<env, prov, aborts, history>>

\* journal.begin, up to the commit that makes the create Pending.
Begin(r) ==
    /\ Acquire(r, "begin")
    /\ IF OpOf(r) = "not_started"
       THEN /\ SetOp(r, "pending")
            /\ Commit(r, rec[r].task, Locked(rec[r].task),
                      [rec[r] EXCEPT !.pc = "permit", !.fresh = TRUE])
       ELSE /\ Persist(r, IF OpOf(r) \in {"pending", "observed"}
                          THEN "await" ELSE "rejected")
            /\ UNCHANGED op
    /\ UNCHANGED <<env, prov, aborts, history>>

\* Mutant: the request is sent although the task changed after Pending.
MutantPermit(r) ==
    /\ Acquire(r, "permit")
    /\ Persist(r, "send")
    /\ UNCHANGED <<op, env, prov, aborts, history>>

\* journal.begin after it: the task is read again; only an unchanged, live
\* launch gets the FirstSend permit, otherwise NotSent is recorded.
Permit(r) ==
    LET t == rec[r].task
        k == Expire(t, Locked(t))
        admitted == rec[r].fresh /\ k = task[t] /\ k.state = "launching"
                    /\ ~revoked[t]
    IN  /\ Acquire(r, "permit")
        /\ IF admitted
           THEN /\ Commit(r, t, k, Goto(r, "send"))
                /\ UNCHANGED op
           ELSE /\ Commit(r, t, IF k.state = "launching"
                                THEN Stop(k, "cancelled", FALSE) ELSE k,
                          Goto(r, "rejected"))
                /\ SetOp(r, "not_sent")
        /\ UNCHANGED <<env, prov, aborts, history>>

\* The one POST of this attempt.
Send(r) ==
    LET t == rec[r].task
        a == rec[r].attempt
    IN  /\ rec[r].pc = "send"
        /\ rec' = [rec EXCEPT ![r].pc = "sent"]
        /\ prov' = [prov EXCEPT ![t][a].post = "flying"]
        /\ sends' = [sends EXCEPT ![t][a] = @ + 1]
        /\ UNCHANGED <<task, op, env, aborts, asked, overlapped>>

\* A definite rejection is answered; any other answer, or none within the
\* client's timeout, proves nothing.
Answered(r) ==
    /\ rec[r].pc = "sent"
    /\ \/ /\ Here(r).post = "refused"
          /\ rec' = [rec EXCEPT ![r].pc = "refused"]
       \/ rec' = [rec EXCEPT ![r].pc = "confirm"]
    /\ UNCHANGED <<task, op, env, prov, aborts, history>>

\* journal.rejected
RecordRejected(r) ==
    /\ Acquire(r, "refused")
    /\ IF OpOf(r) = "pending"
       THEN SetOp(r, "rejected") /\ Persist(r, "rejected")
       ELSE Fail(r) /\ UNCHANGED op
    /\ UNCHANGED <<env, prov, aborts, history>>

\* journal.observed: the resource's UID is durable before anything else.
Record(r, next) ==
    /\ IF OpOf(r) \in {"pending", "observed"}
       THEN SetOp(r, "observed") /\ Persist(r, next)
       ELSE Fail(r) /\ UNCHANGED op
    /\ UNCHANGED <<env, prov, aborts, history>>

RecordObserved(r) == Acquire(r, "record") /\ Record(r, "ready")

\* tick after launch returned Ready: Running, unless the attempt is over.
Launched(r) ==
    LET t == rec[r].task
        k == Expire(t, Locked(t))
    IN  /\ Acquire(r, "ready")
        /\ Commit(r, t, IF k.state = "launching"
                        THEN [k EXCEPT !.state = "running"] ELSE k, Idle)
        /\ UNCHANGED <<op, env, prov, aborts, history>>

\* tick after launch returned Rejected.
LaunchRejected(r) ==
    LET t == rec[r].task
    IN  /\ Acquire(r, "rejected")
        /\ IF Locked(t).state \in Terminal THEN Fail(r)
           ELSE Commit(r, t, Stop(Locked(t), "failed", FALSE), Idle)
        /\ UNCHANGED <<op, env, prov, aborts, history>>

\* tick after AwaitingEvidence, of a launch or of a stop.
AwaitEvidence(r) ==
    /\ Acquire(r, "await")
    /\ Commit(r, rec[r].task, Locked(rec[r].task), Idle)
    /\ UNCHANGED <<op, env, prov, aborts, history>>

-----------------------------------------------------------------------------
(* Stopping, execution.rs stop and the end of tick's stopping branch.       *)

StopRead(r) ==
    /\ rec[r].pc = "stop_read"
    /\ rec' = [rec EXCEPT ![r].pc = IF Exists(Here(r)) THEN "stop_record"
                                    ELSE "stop_absent",
                          ![r].seen = Here(r).job]
    /\ UNCHANGED <<task, op, env, prov, aborts, history>>

StopRecord(r) == Acquire(r, "stop_record") /\ Record(r, "stop_act")

\* Mutant: a job that has finished is taken for a stopped process tree.
MutantStopAct(r) ==
    LET t == rec[r].task
        a == rec[r].attempt
        kept == t \notin Sandboxes /\ rec[r].seen \in {"failed", "complete"}
    IN  /\ rec[r].pc = "stop_act"
        /\ IF kept \/ prov[t][a].job = "deleting"
           THEN /\ rec' = [rec EXCEPT ![r].pc = "stopped"]
                /\ UNCHANGED prov
           ELSE /\ rec' = [rec EXCEPT ![r].pc = IF Exists(Here(r)) THEN "await" ELSE "idle"]
                /\ prov' = IF Exists(Here(r))
                           THEN [prov EXCEPT ![t][a].job = "deleting"] ELSE prov
        /\ UNCHANGED <<task, op, env, aborts, history>>

\* Mutant: the retained job is expected to have no pod left.
MutantRetainedStopped(r) == Here(r).pod = "gone"

\* retained_job_stopped: exactly one pod, ended.
RetainedStopped(r) == Here(r).pod = "ended"

\* A job that finished by itself is kept, and counts as stopped only with its
\* one pod ended; otherwise the resource is deleted, UID-bound, in the
\* foreground.  A 404 on the delete fails the tick.
StopAct(r) ==
    LET t == rec[r].task
        a == rec[r].attempt
        kept == t \notin Sandboxes /\ rec[r].seen \in {"failed", "complete"}
    IN  /\ rec[r].pc = "stop_act"
        /\ \/ /\ kept
              /\ rec' = [rec EXCEPT ![r].pc =
                            IF RetainedStopped(r) THEN "stopped" ELSE "await"]
              /\ UNCHANGED prov
           \/ /\ ~kept /\ Exists(Here(r))
              /\ rec' = [rec EXCEPT ![r].pc = "await"]
              /\ prov' = [prov EXCEPT ![t][a].job = "deleting"]
           \/ /\ ~kept /\ ~Exists(Here(r))
              /\ rec' = [rec EXCEPT ![r] = Idle]
              /\ UNCHANGED prov
        /\ UNCHANGED <<task, op, env, aborts, history>>

\* journal.absence_resolved: a Pending create may still take effect.
StopAbsent(r) ==
    /\ Acquire(r, "stop_absent")
    /\ Persist(r, IF OpOf(r) = "pending" THEN "await" ELSE "stop_pods")
    /\ UNCHANGED <<op, env, prov, aborts, history>>

\* Mutant: the pods of an absent job are not looked at.
MutantStopPods(r) ==
    /\ rec[r].pc = "stop_pods"
    /\ rec' = [rec EXCEPT ![r].pc = "stopped"]
    /\ UNCHANGED <<task, op, env, prov, aborts, history>>

\* owned_pods
StopPods(r) ==
    /\ rec[r].pc = "stop_pods"
    /\ rec' = [rec EXCEPT ![r].pc = IF Here(r).pod \in {"none", "gone"}
                                    THEN "stopped" ELSE "await"]
    /\ UNCHANGED <<task, op, env, prov, aborts, history>>

\* The stop is acknowledged.  guard_provider_create_settlement refuses to
\* settle a task whose create is unknown.
StopDone(r) ==
    LET t == rec[r].task
        k == IF revoked[t] THEN Stop(Locked(t), "cancelled", FALSE) ELSE Locked(t)
    IN  /\ Acquire(r, "stopped")
        /\ IF Locked(t).state = "stopping" /\ OpOf(r) # "pending"
           THEN Commit(r, t, Stopped(k), Idle)
           ELSE Fail(r)
        /\ UNCHANGED <<op, env, prov, aborts, history>>

-----------------------------------------------------------------------------
(* Everybody else: users, operators, time, failures.                        *)

\* Ledger::cancel
Cancel(t) ==
    /\ "cancel" \in Happens
    /\ task[t].state \notin Terminal
    /\ Commit(NoTask, t, Stop(task[t], "cancelled", FALSE), Idle)
    /\ asked' = asked \cup {t}
    /\ UNCHANGED <<op, env, prov, aborts, sends, overlapped>>

\* The authority is paused or resumed.
SetMode ==
    /\ "pause" \in Happens
    /\ paused' = ~paused
    /\ UNCHANGED <<task, op, lapsed, overdue, revoked, prov, rec, aborts, history>>

\* Time passes, or a revocation is imported.
Passes(t) ==
    /\ \/ /\ "lapse" \in Happens /\ task[t].owner # "none" /\ ~lapsed[t]
          /\ lapsed' = [lapsed EXCEPT ![t] = TRUE]
          /\ UNCHANGED <<overdue, revoked>>
       \/ /\ "deadline" \in Happens /\ task[t].attempt > 0 /\ ~overdue[t]
          /\ overdue' = [overdue EXCEPT ![t] = TRUE]
          /\ UNCHANGED <<lapsed, revoked>>
       \/ /\ "revoke" \in Happens /\ ~revoked[t]
          /\ revoked' = [revoked EXCEPT ![t] = TRUE]
          /\ UNCHANGED <<lapsed, overdue>>
    /\ UNCHANGED <<task, op, paused, prov, rec, aborts, history>>

\* A tick is lost: the process died, or a query or a read failed.
Abort(r) ==
    /\ rec[r].pc # "idle"
    /\ aborts < MaxAborts
    /\ aborts' = aborts + 1
    /\ rec' = [rec EXCEPT ![r] = Idle]
    /\ UNCHANGED <<task, op, env, prov, history>>

-----------------------------------------------------------------------------
(* The Kubernetes API, its job controller and the workers (external).       *)

Update(t, a, p) ==
    /\ prov' = [prov EXCEPT ![t][a] = p]
    /\ UNCHANGED <<task, op, env, rec, aborts, history>>

\* The create request takes effect, is refused, or is lost.
Serve(t, a) ==
    LET p == prov[t][a]
    IN  /\ p.post = "flying"
        /\ \/ Update(t, a, [p EXCEPT !.post = "served", !.job = "active"])
           \/ Update(t, a, [p EXCEPT !.post = "refused"])
           \/ "vanish" \in Happens /\ Update(t, a, [p EXCEPT !.post = "lost"])

\* A worker starts, takes checkpoints, publishes its receipt and ends.
Work(t, a) ==
    LET p == prov[t][a]
    IN  \/ /\ p.job = "active" /\ p.pod = "none"
           /\ Update(t, a, [p EXCEPT !.pod = "running"])
        \/ /\ p.pod = "running" /\ p.step < MaxStep
           /\ Update(t, a, [p EXCEPT !.step = @ + 1])
        \/ /\ p.pod = "running" /\ ~p.receipt
           /\ Update(t, a, [p EXCEPT !.receipt = TRUE])
        \/ /\ p.pod = "running" /\ p.job # "failed"
           /\ Update(t, a, [p EXCEPT !.pod = "ended"])

\* The controller marks a job whose worker ended.
Settle(t, a) ==
    LET p == prov[t][a]
    IN  /\ p.job = "active" /\ p.pod = "ended" /\ t \notin Sandboxes
        /\ \E result \in {"failed", "complete"} :
              Update(t, a, [p EXCEPT !.job = result])

\* The job's activeDeadlineSeconds pass: it has failed, with its worker still
\* running or never started.
Overrun(t, a) ==
    LET p == prov[t][a]
    IN  /\ "overrun" \in Happens
        /\ p.job = "active" /\ p.pod \in {"none", "running"} /\ t \notin Sandboxes
        /\ Update(t, a, [p EXCEPT !.job = "failed"])

\* Foreground deletion: the pod first, then its owner.
Delete(t, a) ==
    LET p == prov[t][a]
    IN  /\ p.job = "deleting"
        /\ Update(t, a, IF p.pod \in {"running", "ended"}
                        THEN [p EXCEPT !.pod = "gone"]
                        ELSE [p EXCEPT !.job = "gone"])

\* Somebody else removes the job, whose pod outlives it for a while, or the
\* finished pod.
Vanish(t, a) ==
    LET p == prov[t][a]
    IN  /\ "vanish" \in Happens
        /\ \/ /\ Exists(p)
              /\ Update(t, a, [p EXCEPT !.job = "gone"])
           \/ /\ p.pod = "ended"
              /\ Update(t, a, [p EXCEPT !.pod = "gone"])

\* The pod of a removed job, or of one that exceeded its deadline, is removed.
Collect(t, a) ==
    LET p == prov[t][a]
    IN  /\ \/ p.job = "gone" /\ p.pod \in {"running", "ended"}
           \/ p.job = "failed" /\ p.pod = "running"
        /\ Update(t, a, [p EXCEPT !.pod = "gone"])

-----------------------------------------------------------------------------
Reconcile(r) ==
    \/ EnterClaimed(r)
    \/ LoseReadback(r)
    \/ BuildVerified(r)
    \/ Observe(r)
    \/ ApplyObservation(r)
    \/ LoseAttempt(r)
    \/ Original(r)
    \/ Find(r)
    \/ Begin(r)
    \/ Permit(r)
    \/ Send(r)
    \/ Answered(r)
    \/ RecordRejected(r)
    \/ RecordObserved(r)
    \/ Launched(r)
    \/ LaunchRejected(r)
    \/ AwaitEvidence(r)
    \/ StopRead(r)
    \/ StopRecord(r)
    \/ StopAct(r)
    \/ StopAbsent(r)
    \/ StopPods(r)
    \/ StopDone(r)

Provider(t, a) ==
    \/ Serve(t, a)
    \/ Work(t, a)
    \/ Settle(t, a)
    \/ Overrun(t, a)
    \/ Delete(t, a)
    \/ Vanish(t, a)
    \/ Collect(t, a)

\* What the provider does of its own accord with what it accepted; at most
\* one of the four is enabled for an attempt.
Responds(t, a) ==
    Serve(t, a) \/ Settle(t, a) \/ Delete(t, a) \/ Collect(t, a)

Next ==
    \/ \E r \in Reconciler :
          \/ Reconcile(r)
          \/ RenewLease(r)
          \/ Abort(r)
          \/ \E t \in Task : Claim(r, t) \/ Maintain(r, t)
    \/ \E t \in Task : Cancel(t) \/ Passes(t)
    \/ SetMode
    \/ \E t \in Task, a \in Attempts : Provider(t, a)

Spec == Init /\ [][Next]_vars

\* Ticks run one after the other (research-orchestrator.rs) and the
\* maintenance query takes the task served longest ago; the provider carries
\* out what it accepted.
LiveSpec ==
    /\ Spec
    /\ \A r \in Reconciler :
          /\ WF_vars(Reconcile(r))
          /\ \A t \in Task : WF_vars(Claim(r, t)) /\ WF_vars(Maintain(r, t))
    /\ \A t \in Task, a \in Attempts : WF_vars(Responds(t, a))

-----------------------------------------------------------------------------
(* Properties                                                               *)

\* Every variable keeps its type; in particular a task is claimed at most
\* spec.max_attempts times, however its attempts end.
TypeOK ==
    /\ task \in [Task -> [state : {"queued"} \cup Active \cup Terminal,
                          attempt : 0..MaxAttempts,
                          owner : Owners \cup {"none"},
                          stoppingAs : Terminal \cup {"none"},
                          retry : BOOLEAN,
                          receipt : 0..MaxAttempts,
                          checkpoint : [attempt : 0..MaxAttempts, step : 0..MaxStep]]]
    /\ op \in [Task -> [Attempts -> {"none", "not_started", "pending",
                                     "observed", "rejected", "not_sent"}]]
    /\ {lapsed, overdue, revoked} \subseteq [Task -> BOOLEAN]
    /\ paused \in BOOLEAN
    /\ overlapped \subseteq Task
    /\ aborts \in 0..MaxAborts
    /\ \A r \in Reconciler : rec[r].task \in Task \cup {NoTask}

\* A process of attempt a runs, or may still be started by what is out there:
\* a job that has not finished, or a create request on its way.
MayRun(t, a) ==
    \/ prov[t][a].pod = "running"
    \/ prov[t][a].job = "active" /\ prov[t][a].pod = "none"
    \/ prov[t][a].post = "flying"
    \/ \E r \in Reconciler : /\ rec[r].pc = "send"
                             /\ rec[r].task = t /\ rec[r].attempt = a

\* A task over which no two ticks ever overlapped and that has settled (a final
\* state, or queued again for a retry) has no process left anywhere and none on
\* its way, whatever crashed, timed out or was lost before, whichever
\* reconcilers took turns, and however the ticks over other tasks overlapped:
\* service.rs settles only on a verified stop.
SettledIsStopped ==
    \A t \in Task \ overlapped : task[t].state \notin Active =>
        \A a \in Attempts : ~MayRun(t, a)

\* However many reconcilers race, a settled task has no create request on its
\* way and none that somebody still holds the permit to send: the journal
\* keeps the allocation until the request's outcome is known.
SettledCreateKnown ==
    \A t \in Task : task[t].state \notin Active =>
        \A a \in Attempts :
            /\ prov[t][a].post # "flying"
            /\ \A r \in Reconciler : rec[r].pc = "send" =>
                  <<rec[r].task, rec[r].attempt>> # <<t, a>>

\* At most Limit processes exist over all attempts of the tasks whose ticks
\* never overlapped, because an expired attempt keeps its slot until its
\* process tree is gone (lock_next).
ProcessesBounded ==
    Cardinality({ta \in (Task \ overlapped) \X Attempts : MayRun(ta[1], ta[2])}) <= Limit

\* No attempt's create request is sent twice, by whichever reconciler
\* (provider_operations.rs: FirstSend is neither stored nor reconstructed).
SentOnce ==
    \A t \in Task, a \in Attempts : sends[t][a] <= 1

\* A succeeded task carries the receipt of its own last attempt, which that
\* attempt's worker published.
ResultIsOwn ==
    \A t \in Task : task[t].state = "succeeded" =>
        /\ task[t].receipt = task[t].attempt
        /\ prov[t][task[t].attempt].receipt

\* A task cancelled before it settled ends cancelled: no late result, retry
\* or stale reconciler overrides it (Task::stop, Ledger::cancel).
CancelIsFinal ==
    \A t \in asked :
        \/ task[t].state = "cancelled"
        \/ task[t].state = "stopping" /\ task[t].stoppingAs = "cancelled"

\* The ledger under racing reconcilers: creates known before a task settles,
\* results of the attempt's own, and cancellations that nobody overrides.
TaskInv == TypeOK /\ SettledCreateKnown /\ ResultIsOwn /\ CancelIsFinal

\* The outcome of attempt a's create request will never be known: it was lost,
\* refused or not sent, or its resource went away, with nobody recording it.
CreateUnknown(t, a) ==
    /\ op[t][a] = "pending"
    /\ prov[t][a].post # "flying"
    /\ ~Exists(prov[t][a])

\* A retained job whose pod was removed, by somebody or because the job exceeded
\* its deadline, or never existed, can never be shown stopped.
Unprovable(t, a) ==
    prov[t][a].job \in {"failed", "complete"} /\ prov[t][a].pod \in {"none", "gone"}

\* A stopping task settles, and so gives its slot back, unless its attempt's
\* create request's outcome stays unknown or the evidence of its stop is gone:
\* in both cases the code keeps the allocation for an operator.
StoppingSettles ==
    \A t \in Task :
        task[t].state = "stopping" ~>
            \/ task[t].state # "stopping"
            \/ CreateUnknown(t, task[t].attempt)
            \/ Unprovable(t, task[t].attempt)

\* The architecture document: an attempt lost to an infrastructure fault and
\* stopped is followed by the allowed next one, so the only step out of the
\* queue is a claim.  Overlapping ticks break it, with nobody cancelling.
RetryIsKept ==
    [][\A t \in Task :
          task[t].state = "queued" /\ task[t].attempt > 0
          => task'[t].state \in {"queued", "launching"}]_vars
====
