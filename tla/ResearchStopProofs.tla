---- MODULE ResearchStopProofs ----
(***************************************************************************)
(* A settled task over which no two ticks overlapped has no process left and *)
(* none on its way, whatever the ticks over other tasks do, and the          *)
(* processes of all such tasks fit the authority's limit.                    *)
(*                                                                           *)
(* A task leaves its slot only through StopDone, and a reconciler gets there *)
(* having seen, in this order, that the create's outcome is known and that   *)
(* nothing of the attempt runs or can start; with nobody else in a tick over *)
(* the task, what it saw still holds when it settles the task.               *)
(***************************************************************************)
EXTENDS ResearchTaskProofs, FiniteSetTheorems

-----------------------------------------------------------------------------
(* Ticks that do not overlap.                                                *)

\* Something of the attempt runs, or will without anybody's doing.
Running(t, a) ==
    \/ prov[t][a].pod = "running"
    \/ prov[t][a].job = "active" /\ prov[t][a].pod = "none"

Quiet(t, a) == ~Running(t, a) /\ prov[t][a].post # "flying"

StopPlaces == {"stop_read", "stop_record", "stop_act", "stop_absent", "stop_pods",
               "stopped"}

\* What a reconciler has verified on the way to an acknowledged stop.
Verified(p) ==
    /\ p.pc \in StopPlaces => Live(p.task, p.attempt)
    /\ p.pc = "stop_absent" => \/ op[p.task][p.attempt] = "pending"
                               \/ ~Exists(prov[p.task][p.attempt])
    /\ p.pc = "stop_act" => prov[p.task][p.attempt].post # "flying"
    /\ p.pc = "stop_pods" => /\ ~Exists(prov[p.task][p.attempt])
                             /\ prov[p.task][p.attempt].post # "flying"
    /\ p.pc = "stopped" => Quiet(p.task, p.attempt)

\* The tasks over which no two ticks have overlapped.
Apart == Task \ overlapped

\* No two reconcilers are in a tick over such a task.
Solo ==
    \A q, r \in Reconciler : rec[q].task = rec[r].task /\ rec[r].task \in Apart => q = r

TickInv ==
    /\ Solo
    /\ \A t \in Apart, a \in Attempts : Running(t, a) => Live(t, a)
    /\ \A r \in Reconciler : rec[r].task \in Apart => Verified(rec[r])

\* The claims in being never exceed the authority's limit.
CapacityInv == Cardinality(ActiveTasks) <= Limit

-----------------------------------------------------------------------------
(* Steps of reconcilers.                                                     *)

\* r changes only its own task's operations and resources.
OpAside(r) == \A s \in Task : s # rec[r].task => op'[s] = op[s]
ProvAside(r) == \A s \in Task : s # rec[r].task => prov'[s] = prov[s]

\* r stays with its task, ends its tick, or begins one nobody else is in.
TickOf(r) ==
    \/ rec'[r].task = rec[r].task
    \/ rec'[r].task = NoTask
    \/ rec'[r].task \in Apart' => \A q \in Reconciler : rec[q].task # rec'[r].task

\* Nothing starts to run.
Calm == \A t \in Task, a \in Attempts : Running(t, a)' => Running(t, a)

LEMMA StepTick ==
    ASSUME JournalInv, TickInv, NEW r, Keeps(r), OpAside(r), ProvAside(r), Calm,
           Apart' \subseteq Apart,
           r \notin Reconciler => UNCHANGED <<op, prov>>,
           r \in Reconciler => TickOf(r),
           r \in Reconciler /\ rec'[r].task \in Apart' => Verified(rec[r])'
    PROVE  TickInv'
<1>1. /\ Solo /\ \A t \in Apart, a \in Attempts : Running(t, a) => Live(t, a)
      /\ \A q \in Reconciler : rec[q].task \in Apart => Verified(rec[q])
      /\ JournalInv' /\ Steady /\ Aside(r) /\ NoTask \notin Apart
      /\ \A t \in Apart' : t \in Apart /\ t \in Task
  BY ResearchAssumption DEF TickInv, Keeps, Apart
<1>2. Solo'
  BY <1>1, ResearchAssumption DEF Solo, Aside, TickOf
<1>3. \A t \in Apart', a \in Attempts : Running(t, a)' => Live(t, a)'
  BY <1>1 DEF Calm, Live, Steady
<1>4. ASSUME NEW q \in Reconciler, rec'[q].task \in Apart' PROVE Verified(rec[q])'
  <2>1. CASE q = r
    BY <1>4, <2>1
  <2>2. CASE q # r /\ rec[q].pc \notin StopPlaces
    BY <1>1, <2>2, Zenon DEF Aside, Verified, StopPlaces
  <2>3. CASE q # r /\ rec[q].pc \in StopPlaces
    <3>1. /\ rec'[q].pc = rec[q].pc /\ rec'[q].task = rec[q].task
          /\ rec'[q].attempt = rec[q].attempt
      BY <1>1, <2>3, Zenon DEF Aside
    <3>2. rec[q].task \in Apart /\ rec[q].task \in Task
      BY <1>1, <1>4, <3>1, Zenon
    <3>3. op'[rec[q].task] = op[rec[q].task] /\ prov'[rec[q].task] = prov[rec[q].task]
      <4>1. CASE r \in Reconciler
        <5>1. rec[q].task # rec[r].task
          BY <1>1, <2>3, <3>2, <4>1, Zenon DEF Solo
        <5> QED
          BY <3>2, <5>1 DEF OpAside, ProvAside
      <4> QED
        BY <4>1
    <3>4. Verified(rec[q]) /\ Live(rec[q].task, rec[q].attempt)'
      BY <1>1, <2>3, <3>1, <3>2, Zenon DEF Verified, Live, Steady
    <3> QED
      BY <3>1, <3>3, <3>4, Zenon DEF Verified, Live, Quiet, Running, Exists
  <2> QED
    BY <2>1, <2>2, <2>3
<1> QED
  BY <1>2, <1>3, <1>4 DEF TickInv

\* r is off the path of a stop, and all it touched is its own task's.
Off(r) ==
    /\ rec'[r].pc \notin StopPlaces
    /\ rec'[r].task = rec[r].task \/ rec'[r].task = NoTask
    /\ OpAside(r)
    /\ UNCHANGED <<prov, overlapped>>

LEMMA OffTick ==
    ASSUME JournalInv, TickInv, NEW r \in Reconciler, Keeps(r), Off(r)
    PROVE  TickInv'
<1>1. ProvAside(r) /\ Calm /\ Apart' = Apart
  BY DEF Off, ProvAside, Calm, Running, Apart
<1>2. TickOf(r) /\ Verified(rec[r])'
  BY Zenon DEF Off, TickOf, Verified, StopPlaces
<1> QED
  BY <1>1, <1>2, StepTick DEF Off

LEMMA IdleOff == Idle.pc \notin StopPlaces /\ Idle.task = NoTask
BY DEF Idle, StopPlaces

LEMMA CommitPlace ==
    ASSUME NEW r \in Reconciler, NEW t, NEW k, NEW mine, Commit(r, t, k, mine)
    PROVE  rec'[r] = mine
BY DEF Commit

LEMMA FailPlace ==
    ASSUME JournalInv, NEW r \in Reconciler, NEW p, rec' = [rec EXCEPT ![r] = p]
    PROVE  rec'[r] = p
BY DEF JournalInv, TypeInv

\* The steps of a tick that is not, or no longer, about to acknowledge a stop.
LEMMA ReadbackOff ==
    ASSUME JournalInv, NEW r \in Reconciler,
           \/ LoseReadback(r) \/ RenewLease(r) \/ BuildVerified(r) \/ Observe(r)
           \/ ApplyObservation(r)
    PROVE  Off(r)
<1>1. OpAside(r) /\ UNCHANGED <<prov, overlapped>>
  BY Zenon DEF LoseReadback, RenewLease, BuildVerified, Observe, ApplyObservation, history,
         OpAside
<1>2. rec[r] \in Place /\ rec \in [Reconciler -> Place]
  BY DEF JournalInv, TypeInv
<1>3. CASE rec'[r] = Idle
  BY <1>1, <1>3, IdleOff DEF Off
<1>4. CASE LoseReadback(r)
  <2>1. rec'[r] = Idle
    BY <1>4, CommitPlace, FailPlace, Zenon DEF LoseReadback, Fail
  <2> QED
    BY <1>3, <2>1
<1>5. CASE RenewLease(r)
  <2>1. rec'[r] = rec[r] /\ rec[r].pc \in Reading
    BY <1>5, CommitPlace DEF RenewLease
  <2> QED
    BY <1>1, <2>1 DEF Off, Reading, StopPlaces
<1>6. CASE BuildVerified(r)
  <2>1. rec'[r] = Goto(r, "original") \/ rec'[r] = Idle
    BY <1>6, CommitPlace, Zenon DEF BuildVerified
  <2> QED
    BY <1>1, <1>2, <1>3, <2>1, Zenon DEF Goto, Off, StopPlaces, Place
<1>7. CASE Observe(r)
  <2>1. rec'[r].pc = "apply" /\ rec'[r].task = rec[r].task
    BY <1>2, <1>7 DEF Observe, Place
  <2> QED
    BY <1>1, <2>1 DEF Off, StopPlaces
<1>8. CASE ApplyObservation(r)
  <2>1. rec'[r] = Idle
    BY <1>8, CommitPlace, FailPlace, Zenon DEF ApplyObservation, Fail
  <2> QED
    BY <1>3, <2>1
<1> QED
  BY <1>4, <1>5, <1>6, <1>7, <1>8, Zenon

LEMMA SetOpAside ==
    ASSUME JournalInv, NEW r, NEW v, SetOp(r, v) \/ UNCHANGED op
    PROVE  OpAside(r)
BY DEF JournalInv, TypeInv, SetOp, OpAside

LEMMA PersistOff ==
    ASSUME JournalInv, NEW r \in Reconciler, NEW pc, pc \notin StopPlaces, Persist(r, pc),
           OpAside(r), UNCHANGED <<prov, overlapped>>
    PROVE  Off(r)
<1>1. rec'[r] = Goto(r, pc) /\ rec[r] \in Place
  BY CommitPlace DEF Persist, JournalInv, TypeInv
<1> QED
  BY <1>1 DEF Goto, Off, Place

LEMMA LaunchOff ==
    ASSUME JournalInv, NEW r \in Reconciler,
           \/ LoseAttempt(r) \/ Original(r) \/ Find(r) \/ Begin(r) \/ Permit(r)
           \/ Answered(r) \/ RecordRejected(r) \/ RecordObserved(r) \/ Launched(r)
           \/ LaunchRejected(r) \/ AwaitEvidence(r)
    PROVE  Off(r)
<1>1. UNCHANGED <<prov, overlapped>>
  BY Zenon DEF LoseAttempt, Original, Find, Begin, Permit, Answered, RecordRejected,
         RecordObserved, Record, Launched, LaunchRejected, AwaitEvidence, history
<1>2. rec[r] \in Place /\ rec \in [Reconciler -> Place]
  BY DEF JournalInv, TypeInv
<1>3. OpAside(r)
  <2>1. CASE \/ LoseAttempt(r) \/ Original(r) \/ Find(r) \/ Answered(r) \/ Launched(r)
             \/ LaunchRejected(r) \/ AwaitEvidence(r)
    BY <2>1, Zenon DEF LoseAttempt, Original, Find, Answered, Launched, LaunchRejected,
                AwaitEvidence, OpAside
  <2>2. CASE Begin(r) \/ Permit(r) \/ RecordRejected(r) \/ RecordObserved(r)
    <3>1. \E v \in {"pending", "not_sent", "rejected", "observed"} :
             SetOp(r, v) \/ UNCHANGED op
      BY <2>2, Zenon DEF Begin, Permit, RecordRejected, RecordObserved, Record
    <3> QED
      BY <3>1, SetOpAside
  <2> QED
    BY <2>1, <2>2
<1>4. CASE rec'[r] = Idle
  BY <1>1, <1>3, <1>4, IdleOff DEF Off
<1>5. CASE LoseAttempt(r) \/ Launched(r) \/ LaunchRejected(r) \/ AwaitEvidence(r)
  <2>1. rec'[r] = Idle
    BY <1>5, CommitPlace, FailPlace, Zenon
       DEF LoseAttempt, Fail, Launched, LaunchRejected, AwaitEvidence
  <2> QED
    BY <1>4, <2>1
<1>6. CASE Original(r) \/ Begin(r) \/ RecordRejected(r) \/ RecordObserved(r)
  <2>1. \/ \E pc \in {"find", "await", "rejected", "ready"} : Persist(r, pc)
        \/ \E k : Commit(r, rec[r].task, k, [rec[r] EXCEPT !.pc = "permit", !.fresh = TRUE])
        \/ Fail(r)
    BY <1>6 DEF Original, Begin, RecordRejected, RecordObserved, Record
  <2>2. ASSUME NEW pc \in {"find", "await", "rejected", "ready"}, Persist(r, pc)
        PROVE  Off(r)
    BY <1>1, <1>3, <2>2, PersistOff DEF StopPlaces
  <2>3. ASSUME NEW k,
               Commit(r, rec[r].task, k, [rec[r] EXCEPT !.pc = "permit", !.fresh = TRUE])
        PROVE  Off(r)
    <3>1. rec'[r] = [rec[r] EXCEPT !.pc = "permit", !.fresh = TRUE]
      BY <2>3, CommitPlace
    <3> QED
      BY <1>1, <1>2, <1>3, <3>1 DEF Off, StopPlaces, Place
  <2>4. CASE Fail(r)
    BY <1>4, <2>4, FailPlace, Zenon DEF Fail
  <2> QED
    BY <2>1, <2>2, <2>3, <2>4
<1>7. CASE Permit(r)
  <2>1. rec'[r] = Goto(r, "send") \/ rec'[r] = Goto(r, "rejected")
    BY <1>7, CommitPlace, Zenon DEF Permit
  <2> QED
    BY <1>1, <1>2, <1>3, <2>1, Zenon DEF Goto, Off, StopPlaces, Place
<1>8. CASE Find(r) \/ Answered(r)
  <2>1. /\ rec'[r].pc \in {"record", "begin", "await", "refused", "confirm"}
        /\ rec'[r].task = rec[r].task
    BY <1>2, <1>8 DEF Find, Answered, Place
  <2> QED
    BY <1>1, <1>3, <2>1 DEF Off, StopPlaces
<1> QED
  BY <1>5, <1>6, <1>7, <1>8

\* A tick begins on the document it just committed.
LEMMA EnterPlace ==
    ASSUME JournalInv, NEW r \in Reconciler, NEW t \in Task, NEW k0, Enter(r, t, k0)
    PROVE  \/ rec'[r] = Idle
           \/ /\ rec'[r].task = t /\ rec'[r].pc \in {"stop_read", "build", "observe"}
              /\ rec'[r].pc = "stop_read" =>
                    rec'[r].attempt = task'[t].attempt /\ task'[t].state \in Active
<1> DEFINE k == Expire(t, IF revoked[t] /\ k0.state \notin Terminal
                          THEN Stop(k0, "cancelled", FALSE) ELSE k0)
           at(pc, fresh) == [Idle EXCEPT !.pc = pc, !.task = t,
                                         !.attempt = k.attempt, !.fresh = fresh]
<1>1. \/ k.state = "stopping" /\ Commit(r, t, k, at("stop_read", FALSE))
      \/ Commit(r, t, k, at("build", TRUE))
      \/ Commit(r, t, k, at("observe", TRUE))
      \/ Fail(r)
  BY Zenon DEF Enter
<1> HIDE DEF k
<1>2. CASE Fail(r)
  BY <1>2, FailPlace, Zenon DEF Fail
<1>3. CASE k.state = "stopping" /\ Commit(r, t, k, at("stop_read", FALSE))
  <2>1. rec'[r] = at("stop_read", FALSE) /\ task'[t] = k
    BY <1>3 DEF Commit, JournalInv, TypeInv
  <2> QED
    BY <1>3, <2>1 DEF Idle, Live, Active
<1>4. CASE Commit(r, t, k, at("build", TRUE))
  <2>1. rec'[r] = at("build", TRUE)
    BY <1>4, CommitPlace
  <2> QED
    BY <2>1 DEF Idle
<1>5. CASE Commit(r, t, k, at("observe", TRUE))
  <2>1. rec'[r] = at("observe", TRUE)
    BY <1>5, CommitPlace
  <2> QED
    BY <2>1 DEF Idle
<1> QED
  BY <1>1, <1>2, <1>3, <1>4, <1>5

LEMMA EnterTick ==
    ASSUME JournalInv, TickInv, NEW r \in Reconciler, NEW t \in Task, NEW k0,
           Enter(r, t, k0), Keeps(r), UNCHANGED <<op, prov>>,
           Apart' \subseteq Apart,
           t \in Apart' => rec[r].task = t \/ \A q \in Reconciler : rec[q].task # t
    PROVE  TickInv'
<1>1. OpAside(r) /\ ProvAside(r) /\ Calm
  BY DEF OpAside, ProvAside, Calm, Running
<1>2. \/ rec'[r] = Idle
      \/ /\ rec'[r].task = t /\ rec'[r].pc \in {"stop_read", "build", "observe"}
         /\ rec'[r].pc = "stop_read" =>
                    rec'[r].attempt = task'[t].attempt /\ task'[t].state \in Active
  BY EnterPlace
<1>3. TickOf(r)
  BY <1>2, IdleOff DEF TickOf
<1>4. Verified(rec[r])'
  BY <1>2, IdleOff, Zenon DEF Verified, StopPlaces, Live
<1> QED
  BY <1>1, <1>3, <1>4, StepTick

LEMMA EnterClaimedTick ==
    ASSUME JournalInv, TickInv, NEW r \in Reconciler, EnterClaimed(r) PROVE TickInv'
<1>1. rec[r].task \in Task /\ Keeps(r)
  BY EnterClaimedKeeps DEF EnterClaimed, JournalInv, TypeInv, Placed
<1> QED
  BY <1>1, EnterTick DEF EnterClaimed, history, Apart

LEMMA MaintainTick ==
    ASSUME JournalInv, TickInv, NEW r \in Reconciler, NEW t \in Task, Maintain(r, t)
    PROVE  TickInv'
<1>1. Apart' \subseteq Apart /\ (t \in Apart' => \A q \in Reconciler : rec[q].task # t)
  BY DEF Maintain, TickBegins, Apart
<1> QED
  BY <1>1, MaintainKeeps, EnterTick, Zenon DEF Maintain

LEMMA StopReadTick ==
    ASSUME JournalInv, TickInv, NEW r \in Reconciler, StopRead(r) PROVE TickInv'
<1>1. /\ rec[r].pc = "stop_read" /\ UNCHANGED <<task, op, prov, overlapped>>
      /\ Keeps(r) /\ rec[r] \in Place /\ rec \in [Reconciler -> Place]
  BY StopReadKeeps, Zenon DEF StopRead, history, JournalInv, TypeInv
<1>2. /\ rec'[r].task = rec[r].task /\ rec'[r].attempt = rec[r].attempt
      /\ rec'[r].pc = IF Exists(Here(r)) THEN "stop_record" ELSE "stop_absent"
  BY <1>1 DEF StopRead, Place
<1>3. OpAside(r) /\ ProvAside(r) /\ Calm /\ TickOf(r) /\ Apart' = Apart
  BY <1>1, <1>2 DEF OpAside, ProvAside, Calm, Running, TickOf, Apart
<1>4. rec[r].task \in Apart => Live(rec[r].task, rec[r].attempt)
  BY <1>1, Zenon DEF TickInv, Verified, StopPlaces
<1>5. rec[r].task \in Apart => Verified(rec[r])'
  BY <1>1, <1>2, <1>4, Zenon DEF Verified, Live, Exists, Here
<1> QED
  BY <1>1, <1>2, <1>3, <1>5, StepTick

\* The create's outcome is known once it is recorded.
LEMMA StopRecordTick ==
    ASSUME JournalInv, TickInv, NEW r \in Reconciler, StopRecord(r) PROVE TickInv'
<1>1. /\ rec[r].pc = "stop_record" /\ UNCHANGED <<prov, overlapped>> /\ Keeps(r)
      /\ rec[r].task \in Task /\ rec[r] \in Place
      /\ prov[rec[r].task][rec[r].attempt].post = "served"
  BY StopRecordKeeps, Zenon DEF StopRecord, Acquire, Record, history, JournalInv, TypeInv, Placed,
                         Justified
<1>2. OpAside(r)
  BY SetOpAside DEF StopRecord, Record
<1>3. CASE Fail(r)
  <2>1. rec'[r] = Idle
    BY <1>3, FailPlace, Zenon DEF Fail
  <2> QED
    BY <1>1, <1>2, <2>1, IdleOff, OffTick, Zenon DEF Off
<1>4. CASE Persist(r, "stop_act")
  <2>1. rec'[r] = Goto(r, "stop_act")
    BY <1>4, CommitPlace DEF Persist
  <2>2. /\ rec'[r].pc = "stop_act" /\ rec'[r].task = rec[r].task
        /\ rec'[r].attempt = rec[r].attempt
    BY <1>1, <2>1, Zenon DEF Goto, Place
  <2>3. ProvAside(r) /\ Calm /\ TickOf(r) /\ Apart' = Apart
    BY <1>1, <2>2, Zenon DEF ProvAside, Calm, Running, TickOf, Apart
  <2>4. rec[r].task \in Apart => Live(rec[r].task, rec[r].attempt)
    BY <1>1, Zenon DEF TickInv, Verified, StopPlaces
  <2>5. rec[r].task \in Apart => Verified(rec[r])'
    BY <1>1, <2>2, <2>4, Zenon DEF Verified, Live, Keeps, Steady
  <2> QED
    BY <1>1, <1>2, <2>2, <2>3, <2>5, StepTick
<1> QED
  BY <1>3, <1>4 DEF StopRecord, Record

\* A retained job has its one pod ended, so nothing of it starts again.
LEMMA StopActTick ==
    ASSUME JournalInv, TickInv, NEW r \in Reconciler, StopAct(r) PROVE TickInv'
<1> DEFINE t == rec[r].task
           a == rec[r].attempt
<1>1. /\ rec[r].pc = "stop_act" /\ UNCHANGED <<task, op, overlapped>> /\ Keeps(r)
      /\ t \in Task /\ a \in Attempts /\ rec[r] \in Place /\ rec \in [Reconciler -> Place]
      /\ prov \in [Task -> [Attempts -> Resource]]
  BY StopActKeeps, Zenon DEF StopAct, history, JournalInv, TypeInv, Placed
<1>2. OpAside(r) /\ Apart' = Apart
  BY <1>1 DEF OpAside, Apart
<1>3. CASE UNCHANGED prov /\ rec' = [rec EXCEPT ![r] = Idle]
  <2>1. rec'[r] = Idle
    BY <1>3, FailPlace, Zenon
  <2> QED
    BY <1>1, <1>2, <1>3, <2>1, IdleOff, OffTick, Zenon DEF Off
<1>4. CASE UNCHANGED prov /\ rec' = [rec EXCEPT ![r].pc = "await"]
  <2>1. rec'[r].pc = "await" /\ rec'[r].task = t
    BY <1>1, <1>4 DEF Place
  <2> QED
    BY <1>1, <1>2, <1>4, <2>1, OffTick DEF Off, StopPlaces
<1>5. CASE UNCHANGED prov /\ RetainedStopped(r) /\ rec' = [rec EXCEPT ![r].pc = "stopped"]
  <2>1. rec'[r].pc = "stopped" /\ rec'[r].task = t /\ rec'[r].attempt = a
    BY <1>1, <1>5 DEF Place
  <2>2. ProvAside(r) /\ Calm /\ TickOf(r)
    BY <1>5, <2>1 DEF ProvAside, Calm, Running, TickOf
  <2>3. t \in Apart => Live(t, a) /\ Quiet(t, a)
    BY <1>1, <1>5, Zenon DEF TickInv, Verified, StopPlaces, RetainedStopped, Here, Quiet, Running
  <2>4. rec[r].task \in Apart => Verified(rec[r])'
    BY <1>1, <1>5, <2>1, <2>3, Zenon DEF Verified, Live, Quiet, Running
  <2> QED
    BY <1>1, <1>2, <2>1, <2>2, <2>4, StepTick
<1>6. CASE /\ prov' = [prov EXCEPT ![t][a].job = "deleting"]
           /\ rec' = [rec EXCEPT ![r].pc = "await"]
  <2>1. rec'[r].pc = "await" /\ rec'[r].task = t
    BY <1>1, <1>6 DEF Place
  <2>2. ProvAside(r)
    BY <1>1, <1>6, Zenon DEF ProvAside
  <2>3. \A s \in Task, b \in Attempts :
           prov'[s][b] = IF s = t /\ b = a THEN [prov[s][b] EXCEPT !.job = "deleting"]
                         ELSE prov[s][b]
    BY <1>1, <1>6, Zenon
  <2>4. ASSUME NEW s \in Task, NEW b \in Attempts, Running(s, b)' PROVE Running(s, b)
    <3>1. CASE s = t /\ b = a
      <4>1. prov'[s][b] = [prov[s][b] EXCEPT !.job = "deleting"] /\ prov[s][b] \in Resource
        BY <1>1, <2>3, <3>1
      <4>2. prov'[s][b].job = "deleting" /\ prov'[s][b].pod = prov[s][b].pod
        BY <4>1 DEF Resource
      <4> QED
        BY <2>4, <4>2 DEF Running
    <3>2. CASE ~(s = t /\ b = a)
      BY <2>3, <2>4, <3>2, Zenon DEF Running
    <3> QED
      BY <3>1, <3>2, Zenon
  <2>5. Calm
    BY <2>4 DEF Calm
  <2>6. TickOf(r) /\ Verified(rec[r])'
    BY <2>1 DEF TickOf, Verified, StopPlaces
  <2> QED
    BY <1>1, <1>2, <2>2, <2>5, <2>6, StepTick
<1> QED
  BY <1>3, <1>4, <1>5, <1>6, Zenon DEF StopAct

\* An absent resource whose create is not pending was never, and will not be,
\* created.
LEMMA StopAbsentTick ==
    ASSUME JournalInv, TickInv, NEW r \in Reconciler, StopAbsent(r) PROVE TickInv'
<1> DEFINE t == rec[r].task
           a == rec[r].attempt
<1>1. /\ rec[r].pc = "stop_absent" /\ UNCHANGED <<op, prov, overlapped>> /\ Keeps(r)
      /\ t \in Task /\ a \in Attempts /\ rec[r] \in Place
  BY StopAbsentKeeps, Zenon DEF StopAbsent, Acquire, history, JournalInv, TypeInv, Placed
<1>2. OpAside(r) /\ ProvAside(r) /\ Calm /\ Apart' = Apart
  BY <1>1 DEF OpAside, ProvAside, Calm, Running, Apart
<1>3. CASE Persist(r, "await")
  BY <1>1, <1>2, <1>3, PersistOff, OffTick DEF StopPlaces
<1>4. CASE op[t][a] # "pending" /\ Persist(r, "stop_pods")
  <2>1. rec'[r] = Goto(r, "stop_pods")
    BY <1>4, CommitPlace DEF Persist
  <2>2. rec'[r].pc = "stop_pods" /\ rec'[r].task = t /\ rec'[r].attempt = a
    BY <1>1, <2>1 DEF Goto, Place
  <2>3. prov[t][a].post # "flying"
    BY <1>1, <1>4, Zenon DEF JournalInv, Traced
  <2>4. t \in Apart => Live(t, a) /\ ~Exists(prov[t][a])
    BY <1>1, <1>4, Zenon DEF TickInv, Verified, StopPlaces
  <2>5. rec[r].task \in Apart => Verified(rec[r])'
    BY <1>1, <2>2, <2>3, <2>4, Zenon DEF Verified, Live, Keeps, Steady, Exists
  <2>6. TickOf(r)
    BY <2>2 DEF TickOf
  <2> QED
    BY <1>1, <1>2, <2>2, <2>5, <2>6, StepTick
<1> QED
  BY <1>3, <1>4, Zenon DEF StopAbsent, OpOf

LEMMA StopPodsTick ==
    ASSUME JournalInv, TickInv, NEW r \in Reconciler, StopPods(r) PROVE TickInv'
<1> DEFINE t == rec[r].task
           a == rec[r].attempt
<1>1. /\ rec[r].pc = "stop_pods" /\ UNCHANGED <<task, op, prov, overlapped>> /\ Keeps(r)
      /\ rec[r] \in Place /\ rec \in [Reconciler -> Place]
  BY StopPodsKeeps, Zenon DEF StopPods, history, JournalInv, TypeInv
<1>2. /\ rec'[r].task = t /\ rec'[r].attempt = a
      /\ rec'[r].pc = IF prov[t][a].pod \in {"none", "gone"} THEN "stopped" ELSE "await"
  BY <1>1, Zenon DEF StopPods, Place, Here
<1>3. OpAside(r) /\ ProvAside(r) /\ Calm /\ TickOf(r) /\ Apart' = Apart
  BY <1>1, <1>2, Zenon DEF OpAside, ProvAside, Calm, Running, TickOf, Apart
<1>4. t \in Apart => /\ Live(t, a) /\ ~Exists(prov[t][a])
                     /\ prov[t][a].post # "flying"
  BY <1>1, Zenon DEF TickInv, Verified, StopPlaces
<1>5. t \in Apart /\ prov[t][a].pod \in {"none", "gone"} => Quiet(t, a)
  BY <1>4, Zenon DEF Quiet, Running, Exists
<1>6. rec[r].task \in Apart => Verified(rec[r])'
  BY <1>1, <1>2, <1>4, <1>5, Zenon DEF Verified, Live, StopPlaces, Quiet, Running
<1> QED
  BY <1>1, <1>2, <1>3, <1>6, StepTick

LEMMA SendTick ==
    ASSUME JournalInv, TickInv, NEW r \in Reconciler, Send(r) PROVE TickInv'
<1> DEFINE t == rec[r].task
           a == rec[r].attempt
<1>1. /\ rec[r].pc = "send" /\ UNCHANGED <<task, op, overlapped>> /\ Keeps(r)
      /\ t \in Task /\ a \in Attempts /\ rec[r] \in Place /\ rec \in [Reconciler -> Place]
      /\ prov \in [Task -> [Attempts -> Resource]]
      /\ prov' = [prov EXCEPT ![t][a].post = "flying"]
      /\ rec' = [rec EXCEPT ![r].pc = "sent"]
  BY SendKeeps, Zenon DEF Send, JournalInv, TypeInv, Placed
<1>2. rec'[r].pc = "sent" /\ rec'[r].task = t
  BY <1>1 DEF Place
<1>3. OpAside(r) /\ ProvAside(r) /\ TickOf(r) /\ Apart' = Apart
  BY <1>1, <1>2 DEF OpAside, ProvAside, TickOf, Apart
<1>4. ASSUME NEW s \in Task, NEW b \in Attempts
      PROVE  prov'[s][b].job = prov[s][b].job /\ prov'[s][b].pod = prov[s][b].pod
  <2>1. /\ prov[s][b] \in Resource
        /\ \/ prov'[s][b] = prov[s][b]
           \/ prov'[s][b] = [prov[s][b] EXCEPT !.post = "flying"]
    BY <1>1, Zenon
  <2> QED
    BY <2>1 DEF Resource
<1>5. Calm
  BY <1>4 DEF Calm, Running
<1>6. Verified(rec[r])'
  BY <1>2 DEF Verified, StopPlaces
<1> QED
  BY <1>1, <1>3, <1>5, <1>6, StepTick

\* What settles a task.
LEMMA StopDoneCases ==
    ASSUME JournalInv, NEW r \in Reconciler, StopDone(r)
    PROVE  \/ Fail(r)
           \/ \E k : /\ Commit(r, rec[r].task, k, Idle)
                     /\ rec[r].pc = "stopped"
                     /\ rec[r].task \in Task
                     /\ k.attempt = task[rec[r].task].attempt
                     /\ k.state \notin Active
<1> DEFINE t == rec[r].task
           k == IF revoked[t] THEN Stop(Locked(t), "cancelled", FALSE) ELSE Locked(t)
<1>1. CASE ~(Locked(t).state = "stopping" /\ OpOf(r) # "pending")
  BY <1>1, Zenon DEF StopDone
<1>2. CASE Locked(t).state = "stopping" /\ OpOf(r) # "pending"
  <2>1. rec[r].pc = "stopped" /\ Commit(r, t, Stopped(k), Idle)
    BY <1>2, Zenon DEF StopDone, Acquire
  <2>2. TypeInv /\ t \in Task
    BY <2>1, AtWork, Zenon
  <2>3. Moves(task[t], Locked(t))
    BY <2>2, LockedMoves
  <2>4. Sound(Locked(t)) /\ Locked(t).state \notin Terminal /\ Locked(t) \in Document
    BY <1>2, <2>3, Zenon DEF Moves, Terminal, Sound
  <2>5. Moves(Locked(t), k)
    BY <2>4, StopMoves, StaysPut, Zenon DEF Terminal
  <2>6. k.state = "stopping"
    BY <1>2, <2>4, Zenon DEF Stop, Document
  <2> HIDE DEF k
  <2>7. Sound(k) /\ k.attempt = task[t].attempt
    BY <2>3, <2>5, Zenon DEF Moves
  <2>8. Stopped(k).attempt = task[t].attempt /\ Stopped(k).state \notin Active
    BY <2>6, <2>7, StoppedSettles
  <2> QED
    BY <2>1, <2>2, <2>8, Zenon
<1> QED
  BY <1>1, <1>2, Zenon

\* Only an attempt of which nothing runs settles.
LEMMA StopDoneTick ==
    ASSUME JournalInv, TickInv, NEW r \in Reconciler, StopDone(r) PROVE TickInv'
<1>1. UNCHANGED <<op, prov, sends, asked, overlapped>>
  BY DEF StopDone, history
<1>2. CASE Fail(r)
  <2>1. Keeps(r) /\ rec'[r] = Idle
    BY <1>1, <1>2, FailStep, FailPlace, Zenon DEF Fail
  <2> QED
    BY <1>1, <2>1, OffTick, IdleOff DEF Off, OpAside
<1>3. ASSUME NEW k, Commit(r, rec[r].task, k, Idle), rec[r].pc = "stopped",
             rec[r].task \in Task, k.attempt = task[rec[r].task].attempt,
             k.state \notin Active
      PROVE  TickInv'
  <2> DEFINE t == rec[r].task
  <2>1. /\ Solo /\ \A s \in Apart, b \in Attempts : Running(s, b) => Live(s, b)
        /\ \A q \in Reconciler : rec[q].task \in Apart => Verified(rec[q])
        /\ NoTask \notin Apart /\ Apart' = Apart /\ Apart \subseteq Task
    BY <1>1, ResearchAssumption DEF TickInv, Apart
  <2>2. /\ task'[t] = k /\ \A s \in Task : s # t => task'[s] = task[s]
        /\ rec'[r] = Idle
    BY <1>3 DEF Commit, JournalInv, TypeInv
  <2>3. ASSUME NEW q \in Reconciler, q # r
        PROVE  /\ rec'[q].pc = rec[q].pc /\ rec'[q].task = rec[q].task
               /\ rec'[q].attempt = rec[q].attempt
    <3>1. rec'[q] = rec[q] \/ rec'[q] = [rec[q] EXCEPT !.fresh = FALSE]
      BY <1>3, <2>3, Zenon DEF Commit
    <3>2. rec[q] \in Place
      BY DEF JournalInv, TypeInv
    <3> QED
      BY <3>1, <3>2 DEF Place
  <2>4. Solo'
    BY <2>1, <2>2, <2>3, IdleOff DEF Solo
  <2>5. ASSUME NEW s \in Apart, NEW b \in Attempts, Running(s, b)' PROVE Live(s, b)'
    <3>1. Running(s, b) /\ Live(s, b) /\ s \in Task
      BY <1>1, <2>1, <2>5 DEF Running
    <3>2. s = t => Live(t, rec[r].attempt) /\ Quiet(t, rec[r].attempt)
      BY <1>3, <2>1, <2>5, Zenon DEF Verified, StopPlaces
    <3>3. s # t
      BY <3>1, <3>2, Zenon DEF Live, Quiet
    <3> QED
      BY <2>2, <3>1, <3>3 DEF Live
  <2>6. ASSUME NEW q \in Reconciler, rec'[q].task \in Apart PROVE Verified(rec[q])'
    <3>1. CASE q = r
      BY <2>2, <3>1, IdleOff, Zenon DEF Verified, StopPlaces
    <3>2. CASE q # r /\ rec[q].pc \notin StopPlaces
      BY <2>3, <3>2, Zenon DEF Verified, StopPlaces
    <3>3. CASE q # r /\ rec[q].pc \in StopPlaces
      <4>1. rec[q].task \in Task /\ rec[q].task \in Apart /\ Verified(rec[q])
        BY <2>1, <2>3, <2>6, <3>3
      <4>2. rec[q].task # t
        BY <1>3, <2>1, <3>3, <4>1 DEF Solo
      <4>3. task'[rec[q].task] = task[rec[q].task]
        BY <2>2, <4>1, <4>2
      <4> QED
        BY <1>1, <2>3, <3>3, <4>1, <4>3, Zenon DEF Verified, Live, Quiet, Running, Exists
    <3> QED
      BY <3>1, <3>2, <3>3
  <2> QED
    BY <2>1, <2>4, <2>5, <2>6 DEF TickInv
<1> QED
  BY <1>2, <1>3, StopDoneCases

\* A claim takes a task of which nothing runs, and nobody else is in a tick
\* over it.
LEMMA ClaimTick ==
    ASSUME JournalInv, TickInv, NEW r \in Reconciler, NEW t \in Task, Claim(r, t)
    PROVE  TickInv'
<1>1. /\ task[t].state = "queued" /\ UNCHANGED <<prov, sends, asked>>
      /\ Apart' \subseteq Apart
      /\ t \in Apart' => \A q \in Reconciler : rec[q].task # t
      /\ TypeInv /\ Sound(task[t])
  BY DEF Claim, TickBegins, JournalInv, TypeInv, Apart
<1>2. CASE Expire(t, task[t]) # task[t]
  <2>1. Commit(r, t, Expire(t, task[t]), Idle) /\ UNCHANGED op
    BY <1>2 DEF Claim
  <2>2. Keeps(r) /\ rec'[r] = Idle
    BY <1>1, <2>1, ExpireMoves, CommitAndLeave, CommitPlace
  <2>3. OpAside(r) /\ ProvAside(r) /\ Calm
    BY <1>1, <2>1 DEF OpAside, ProvAside, Calm, Running
  <2>4. TickOf(r) /\ Verified(rec[r])'
    BY <2>2, IdleOff DEF TickOf, Verified, StopPlaces
  <2> QED
    BY <1>1, <2>2, <2>3, <2>4, StepTick
<1>3. CASE Expire(t, task[t]) = task[t]
  <2>1. /\ Solo /\ \A s \in Apart, b \in Attempts : Running(s, b) => Live(s, b)
        /\ \A q \in Reconciler : rec[q].task \in Apart => Verified(rec[q])
        /\ \A s \in Apart' : s \in Apart /\ s \in Task
    BY <1>1 DEF TickInv, Apart
  <2>2. /\ \A s \in Task : s # t => task'[s] = task[s] /\ op'[s] = op[s]
        /\ rec'[r] = [Idle EXCEPT !.pc = "claimed", !.task = t]
    BY <1>1, <1>3 DEF Claim, Commit, TypeInv
  <2>3. rec'[r].pc = "claimed" /\ rec'[r].task = t
    BY <2>2 DEF Idle
  <2>4. ASSUME NEW q \in Reconciler, q # r
        PROVE  /\ rec'[q].pc = rec[q].pc /\ rec'[q].task = rec[q].task
               /\ rec'[q].attempt = rec[q].attempt
    <3>1. rec'[q] = rec[q] \/ rec'[q] = [rec[q] EXCEPT !.fresh = FALSE]
      BY <1>3, <2>4, Zenon DEF Claim, Commit
    <3>2. rec[q] \in Place
      BY DEF JournalInv, TypeInv
    <3> QED
      BY <3>1, <3>2 DEF Place
  <2>5. Solo'
    BY <1>1, <2>1, <2>3, <2>4 DEF Solo
  <2>6. ASSUME NEW s \in Apart', NEW b \in Attempts, Running(s, b)' PROVE Live(s, b)'
    <3>1. Live(s, b)
      BY <1>1, <2>1, <2>6 DEF Running
    <3>2. s # t
      BY <1>1, <3>1 DEF Live, Active
    <3> QED
      BY <2>1, <2>2, <3>1, <3>2 DEF Live
  <2>7. ASSUME NEW q \in Reconciler, rec'[q].task \in Apart' PROVE Verified(rec[q])'
    <3>1. CASE q = r
      BY <2>3, <3>1, Zenon DEF Verified, StopPlaces
    <3>2. CASE q # r /\ rec[q].pc \notin StopPlaces
      BY <2>4, <3>2, Zenon DEF Verified, StopPlaces
    <3>3. CASE q # r /\ rec[q].pc \in StopPlaces
      <4>1. rec[q].task \in Task \ {t} /\ Verified(rec[q])
        BY <1>1, <2>1, <2>4, <2>7, <3>3
      <4>2. task'[rec[q].task] = task[rec[q].task] /\ op'[rec[q].task] = op[rec[q].task]
        BY <2>2, <4>1
      <4> QED
        BY <1>1, <2>4, <3>3, <4>1, <4>2, Zenon DEF Verified, Live, Quiet, Running, Exists
    <3> QED
      BY <3>1, <3>2, <3>3
  <2> QED
    BY <2>5, <2>6, <2>7 DEF TickInv
<1> QED
  BY <1>2, <1>3

LEMMA CancelTick ==
    ASSUME JournalInv, TickInv, NEW t \in Task, Cancel(t) PROVE TickInv'
<1>1. /\ Keeps(NoTask) /\ UNCHANGED <<op, prov, overlapped>>
      /\ NoTask \in Reconciler => rec'[NoTask] = Idle
  BY CancelKeeps, CommitPlace, Zenon DEF Cancel
<1>2. OpAside(NoTask) /\ ProvAside(NoTask) /\ Calm /\ Apart' = Apart
  BY <1>1 DEF OpAside, ProvAside, Calm, Running, Apart
<1>3. NoTask \in Reconciler => TickOf(NoTask) /\ Verified(rec[NoTask])'
  BY <1>1, IdleOff, Zenon DEF TickOf, Verified, StopPlaces
<1> QED
  BY <1>1, <1>2, <1>3, StepTick

\* Of what the provider does, only serving a request makes a job, and only a
\* job makes a process.
Settling(p, n) ==
    /\ n.post = "flying" => p.post = "flying"
    /\ Exists(n) => Exists(p) \/ p.post = "flying"
    /\ n.pod = "running" => p.pod = "running" \/ (p.job = "active" /\ p.pod = "none")
    /\ n.job = "active" /\ n.pod = "none" =>
          (p.job = "active" /\ p.pod = "none") \/ p.post = "flying"

LEMMA ProviderSettles ==
    ASSUME JournalInv, NEW t \in Task, NEW a \in Attempts, Provider(t, a)
    PROVE  \E n : Update(t, a, n) /\ Settling(prov[t][a], n)
<1> DEFINE p == prov[t][a]
<1>1. p \in Resource
  BY DEF JournalInv, TypeInv
<1>2. CASE Serve(t, a)
  <2> DEFINE n1 == [p EXCEPT !.post = "served", !.job = "active"]
             n2 == [p EXCEPT !.post = "refused"]
             n3 == [p EXCEPT !.post = "lost"]
  <2>1. p.post = "flying" /\ \/ Update(t, a, n1)
                             \/ Update(t, a, n2)
                             \/ Update(t, a, n3)
    BY <1>2 DEF Serve
  <2>2. Settling(p, n1) /\ Settling(p, n2) /\ Settling(p, n3)
    <3> HIDE DEF p
    <3> QED
      BY <1>1, <2>1 DEF Resource, Settling, Exists
  <2> QED
    BY <2>1, <2>2, Zenon
<1>3. CASE Work(t, a)
  <2> DEFINE n1 == [p EXCEPT !.pod = "running"]
             n2 == [p EXCEPT !.step = @ + 1]
             n3 == [p EXCEPT !.receipt = TRUE]
             n4 == [p EXCEPT !.pod = "ended"]
  <2>1. \/ p.job = "active" /\ p.pod = "none" /\ Update(t, a, n1)
        \/ Update(t, a, n2)
        \/ Update(t, a, n3)
        \/ Update(t, a, n4)
    BY <1>3, Zenon DEF Work
  <2>2. /\ p.job = "active" /\ p.pod = "none" => Settling(p, n1)
        /\ Settling(p, n2) /\ Settling(p, n3) /\ Settling(p, n4)
    <3> HIDE DEF p
    <3> QED
      BY <1>1 DEF Resource, Settling, Exists
  <2> QED
    BY <2>1, <2>2
<1>4. ASSUME NEW job \in {"failed", "complete", "gone"}, Exists(p),
             Update(t, a, [p EXCEPT !.job = job])
      PROVE  \E n : Update(t, a, n) /\ Settling(p, n)
  <2>1. Settling(p, [p EXCEPT !.job = job])
    <3> HIDE DEF p
    <3> QED
      BY <1>1, <1>4 DEF Resource, Settling, Exists
  <2> QED
    BY <1>4, <2>1
<1>5. CASE Update(t, a, [p EXCEPT !.pod = "gone"])
  <2>1. Settling(p, [p EXCEPT !.pod = "gone"])
    <3> HIDE DEF p
    <3> QED
      BY <1>1 DEF Resource, Settling, Exists
  <2> QED
    BY <1>5, <2>1, Zenon
<1>6. CASE \/ Settle(t, a) \/ Overrun(t, a) \/ Delete(t, a) \/ Vanish(t, a)
           \/ Collect(t, a)
  BY <1>4, <1>5, <1>6, Zenon DEF Settle, Overrun, Delete, Vanish, Collect, Exists
<1> QED
  BY <1>2, <1>3, <1>6 DEF Provider

LEMMA ProviderTick ==
    ASSUME JournalInv, TickInv, NEW t \in Task, NEW a \in Attempts, Provider(t, a)
    PROVE  TickInv'
<1>1. PICK n : Update(t, a, n) /\ Settling(prov[t][a], n)
  BY ProviderSettles
<1>2. /\ UNCHANGED <<task, op, rec, overlapped>>
      /\ \A s \in Task, b \in Attempts :
            prov'[s][b] = IF s = t /\ b = a THEN n ELSE prov[s][b]
  BY <1>1 DEF Update, history, JournalInv, TypeInv
<1>3. \A s \in Task, b \in Attempts : Settling(prov[s][b], prov'[s][b])
  BY <1>1, <1>2 DEF Settling
<1>4. \A s \in Task, b \in Attempts :
         prov[s][b].post = "flying" => op[s][b] = "pending" /\ Live(s, b)
  BY DEF JournalInv, Traced
<1>5. /\ Solo /\ \A s \in Apart, b \in Attempts : Running(s, b) => Live(s, b)
      /\ \A q \in Reconciler : rec[q].task \in Apart => Verified(rec[q])
      /\ Apart' = Apart /\ \A s \in Apart : s \in Task
  BY <1>2 DEF TickInv, Apart
<1>6. Solo'
  BY <1>2, <1>5, Zenon DEF Solo
<1>7. ASSUME NEW s \in Apart, NEW b \in Attempts, Running(s, b)' PROVE Live(s, b)'
  <2>1. Running(s, b) \/ prov[s][b].post = "flying"
    BY <1>3, <1>5, <1>7, Zenon DEF Running, Settling
  <2> QED
    BY <1>2, <1>4, <1>5, <2>1 DEF Live
<1>8. ASSUME NEW q \in Reconciler, rec'[q].task \in Apart PROVE Verified(rec[q])'
  <2>1. CASE rec[q].pc \notin StopPlaces
    BY <1>2, <2>1, Zenon DEF Verified, StopPlaces
  <2>2. CASE rec[q].pc \in StopPlaces
    <3> DEFINE s == rec[q].task
               b == rec[q].attempt
    <3>1. s \in Task /\ b \in Attempts /\ rec'[q] = rec[q]
      BY <1>2, <2>2 DEF JournalInv, TypeInv, Placed, StopPlaces
    <3>2. /\ Settling(prov[s][b], prov'[s][b]) /\ Verified(rec[q])
          /\ prov[s][b].post = "flying" => op[s][b] = "pending"
      BY <1>3, <1>4, <1>5, <1>8, <3>1, Zenon
    <3>3. Quiet(s, b) => Quiet(s, b)'
      BY <1>2, <3>2, Zenon DEF Quiet, Running, Settling
    <3>4. /\ prov[s][b].post # "flying" => prov'[s][b].post # "flying"
          /\ Exists(prov'[s][b]) => Exists(prov[s][b]) \/ prov[s][b].post = "flying"
      BY <3>2, Zenon DEF Settling
    <3>5. Live(s, b) => Live(s, b)'
      BY <1>2 DEF Live
    <3> QED
      BY <1>2, <3>1, <3>2, <3>3, <3>4, <3>5, Zenon DEF Verified, Exists
  <2> QED
    BY <2>1, <2>2
<1> QED
  BY <1>5, <1>6, <1>7, <1>8 DEF TickInv

LEMMA StillTick ==
    ASSUME TickInv, UNCHANGED <<task, op, prov, rec, overlapped>> PROVE TickInv'
BY Zenon DEF TickInv, Apart, Solo, Running, Live, Verified, Quiet, Exists

LEMMA NextTick == JournalInv /\ TickInv /\ [Next]_vars => TickInv'
<1> SUFFICES ASSUME JournalInv, TickInv, [Next]_vars PROVE TickInv'
  OBVIOUS
<1>1. ASSUME NEW r \in Reconciler,
             \/ LoseReadback(r) \/ RenewLease(r) \/ BuildVerified(r) \/ Observe(r)
             \/ ApplyObservation(r)
      PROVE  TickInv'
  <2>1. Off(r)
    BY <1>1, ReadbackOff
  <2>2. Keeps(r)
    BY <1>1, LoseReadbackKeeps, RenewLeaseKeeps, BuildVerifiedKeeps, ObserveKeeps,
       ApplyObservationKeeps, Zenon
  <2> QED
    BY <2>1, <2>2, OffTick
<1>2. ASSUME NEW r \in Reconciler,
             \/ LoseAttempt(r) \/ Original(r) \/ Find(r) \/ Begin(r) \/ Permit(r)
             \/ Answered(r) \/ RecordRejected(r) \/ RecordObserved(r) \/ Launched(r)
             \/ LaunchRejected(r) \/ AwaitEvidence(r)
      PROVE  TickInv'
  <2>1. Off(r)
    BY <1>2, LaunchOff
  <2>2. Keeps(r)
    BY <1>2, LoseAttemptKeeps, OriginalKeeps, FindKeeps, BeginKeeps, PermitKeeps,
       AnsweredKeeps, RecordRejectedKeeps, RecordObservedKeeps, LaunchedKeeps,
       LaunchRejectedKeeps, AwaitEvidenceKeeps
  <2> QED
    BY <2>1, <2>2, OffTick
<1>3. ASSUME NEW r \in Reconciler, Reconcile(r) PROVE TickInv'
  BY <1>1, <1>2, <1>3, EnterClaimedTick, SendTick, StopReadTick, StopRecordTick,
     StopActTick, StopAbsentTick, StopPodsTick, StopDoneTick, Zenon DEF Reconcile
<1>4. ASSUME NEW r \in Reconciler, Abort(r) PROVE TickInv'
  <2>1. Keeps(r) /\ rec'[r] = Idle /\ UNCHANGED <<op, prov, overlapped>>
    BY <1>4, FailStep, FailPlace, Zenon DEF Abort, history
  <2> QED
    BY <2>1, OffTick, IdleOff DEF Off, OpAside
<1>5. ASSUME NEW t \in Task, Passes(t) PROVE TickInv'
  BY <1>5, StillTick DEF Passes, history
<1>6. CASE SetMode
  BY <1>6, StillTick DEF SetMode, history
<1>7. CASE UNCHANGED vars
  BY <1>7, StillTick DEF vars, history
<1> QED
  BY <1>1, <1>3, <1>4, <1>5, <1>6, <1>7, ClaimTick, MaintainTick, CancelTick,
     ProviderTick DEF Next

LEMMA InitTick == Init => TickInv
<1> SUFFICES ASSUME Init PROVE TickInv
  OBVIOUS
<1>1. Solo
  BY ResearchAssumption, IdleOff DEF Init, Solo, Apart
<1>2. \A t \in Task, a \in Attempts : ~Running(t, a)
  BY DEF Init, Running, Nothing
<1>3. \A r \in Reconciler : Verified(rec[r])
  BY IdleOff DEF Init, Verified, StopPlaces
<1> QED
  BY <1>1, <1>2, <1>3 DEF TickInv, Apart

\* What may run belongs to the attempt that holds the task's slot.
LEMMA MayRunIsLive ==
    ASSUME JournalInv, TickInv, NEW t \in Task \ overlapped, NEW a \in Attempts,
           MayRun(t, a)
    PROVE  Live(t, a)
<1>1. Running(t, a) => Live(t, a)
  BY DEF TickInv, Apart
<1>2. prov[t][a].post = "flying" => Live(t, a)
  BY DEF JournalInv, Traced
<1>3. \A r \in Reconciler : rec[r].pc = "send" => Live(rec[r].task, rec[r].attempt)
  BY DEF JournalInv, Justified
<1> QED
  BY <1>1, <1>2, <1>3, Zenon DEF MayRun, Running

THEOREM TickInvariant == Spec => []TickInv
BY InitTick, NextTick, JournalInvariant, PTL DEF Spec

\* A settled task over which no two ticks overlapped has no process left
\* anywhere and none on its way, whatever crashed, timed out or was lost, and
\* whatever the ticks over other tasks did.
THEOREM SettledStopped == Spec => []SettledIsStopped
<1>1. JournalInv /\ TickInv => SettledIsStopped
  BY MayRunIsLive DEF SettledIsStopped, Live
<1> QED
  BY <1>1, JournalInvariant, TickInvariant, PTL

-----------------------------------------------------------------------------
(* The authority's limit.                                                    *)

\* A reconciler in a tick takes no slot; a settled task gives one back.
LEMMA ReconcileSettlesOnly ==
    ASSUME JournalInv, NEW r \in Reconciler, Reconcile(r)
    PROVE  ActiveTasks' \subseteq ActiveTasks
<1>1. Steady => ActiveTasks' \subseteq ActiveTasks
  BY DEF Steady, ActiveTasks
<1>2. CASE StopDone(r)
  <2>1. CASE Fail(r)
    BY <2>1 DEF Fail, ActiveTasks
  <2>2. ASSUME NEW k, Commit(r, rec[r].task, k, Idle), k.state \notin Active
        PROVE  ActiveTasks' \subseteq ActiveTasks
    BY <2>2 DEF Commit, ActiveTasks, JournalInv, TypeInv
  <2> QED
    BY <1>2, <2>1, <2>2, StopDoneCases
<1>3. CASE ~StopDone(r)
  BY <1>1, <1>3, EnterClaimedKeeps, LoseReadbackKeeps, BuildVerifiedKeeps,
     ObserveKeeps, ApplyObservationKeeps, LoseAttemptKeeps, OriginalKeeps, FindKeeps,
     BeginKeeps, PermitKeeps, SendKeeps, AnsweredKeeps, RecordRejectedKeeps,
     RecordObservedKeeps, LaunchedKeeps, LaunchRejectedKeeps, AwaitEvidenceKeeps,
     StopReadKeeps, StopRecordKeeps, StopActKeeps, StopAbsentKeeps, StopPodsKeeps,
     Zenon DEF Reconcile, Keeps
<1> QED
  BY <1>2, <1>3

\* A claim takes one slot, and only while one is left; nothing else does.
LEMMA SlotsTaken ==
    ASSUME JournalInv, [Next]_vars
    PROVE  \/ ActiveTasks' \subseteq ActiveTasks
           \/ MayClaim /\ \E t \in Task : ActiveTasks' \subseteq ActiveTasks \cup {t}
<1>1. Steady => ActiveTasks' \subseteq ActiveTasks
  BY DEF Steady, ActiveTasks
<1>2. UNCHANGED task => ActiveTasks' \subseteq ActiveTasks
  BY DEF ActiveTasks
<1>3. ASSUME NEW r \in Reconciler, NEW t \in Task, Claim(r, t)
      PROVE  MayClaim /\ ActiveTasks' \subseteq ActiveTasks \cup {t}
  <2>1. MayClaim /\ \A s \in Task : s # t => task'[s] = task[s]
    BY <1>3 DEF Claim, Commit, JournalInv, TypeInv
  <2> QED
    BY <2>1 DEF ActiveTasks
<1>4. ASSUME NEW r \in Reconciler, Abort(r) PROVE UNCHANGED task
  BY <1>4 DEF Abort, Fail
<1>5. ASSUME NEW t \in Task, Passes(t) PROVE UNCHANGED task
  BY <1>5 DEF Passes
<1>6. (SetMode \/ UNCHANGED vars) => UNCHANGED task
  BY DEF SetMode, vars
<1>7. ASSUME NEW t \in Task, NEW a \in Attempts, Provider(t, a)
      PROVE  UNCHANGED task
  BY <1>7, Zenon DEF Provider, Serve, Work, Settle, Overrun, Delete, Vanish, Collect, Update
<1> QED
  BY <1>1, <1>2, <1>3, <1>4, <1>5, <1>6, <1>7, ReconcileSettlesOnly, RenewLeaseKeeps,
     MaintainKeeps, CancelKeeps, Zenon DEF Next, Keeps

LEMMA CapacityStep ==
    ASSUME JournalInv, CapacityInv, [Next]_vars PROVE CapacityInv'
<1>0. Limit \in Nat
  BY ResearchAssumption
<1>1. /\ IsFiniteSet(ActiveTasks) /\ IsFiniteSet(ActiveTasks')
      /\ Cardinality(ActiveTasks) \in Nat /\ Cardinality(ActiveTasks') \in Nat
  BY ResearchAssumption, FS_Subset, FS_CardinalityType DEF ActiveTasks
<1>2. CASE ActiveTasks' \subseteq ActiveTasks
  <2>1. Cardinality(ActiveTasks') <= Cardinality(ActiveTasks)
    BY <1>1, <1>2, FS_Subset
  <2> QED
    BY <1>0, <1>1, <2>1 DEF CapacityInv
<1>3. ASSUME NEW t \in Task, ActiveTasks' \subseteq ActiveTasks \cup {t}, MayClaim
      PROVE  CapacityInv'
  <2>1. Cardinality(ActiveTasks \cup {t}) <= Cardinality(ActiveTasks) + 1
    <3>1. Cardinality(ActiveTasks \cup {t})
            = IF t \in ActiveTasks THEN Cardinality(ActiveTasks)
              ELSE Cardinality(ActiveTasks) + 1
      BY <1>1, FS_AddElement, Zenon
    <3> QED
      BY <1>1, <3>1
  <2>2. IsFiniteSet(ActiveTasks \cup {t}) /\ Cardinality(ActiveTasks \cup {t}) \in Nat
    BY <1>1, FS_AddElement, FS_CardinalityType
  <2>3. Cardinality(ActiveTasks') <= Cardinality(ActiveTasks \cup {t})
    BY <1>3, <2>2, FS_Subset
  <2> QED
    BY <1>1, <1>3, <2>1, <2>2, <2>3, <1>0 DEF CapacityInv, MayClaim
<1> QED
  BY <1>2, <1>3, SlotsTaken, Zenon

\* However many reconcilers claim, the claims in being never exceed the
\* limit: the authority row serializes the count with the claim.
THEOREM CapacityInvariant == Spec => []CapacityInv
<1>1. Init => CapacityInv
  <2>1. Init => ActiveTasks = {}
    BY DEF Init, ActiveTasks, NewTask, Active
  <2> QED
    BY <2>1, FS_EmptySet, ResearchAssumption DEF CapacityInv
<1>2. JournalInv /\ CapacityInv /\ [Next]_vars => CapacityInv'
  BY CapacityStep
<1> QED
  BY <1>1, <1>2, JournalInvariant, PTL DEF Spec

\* At most Limit processes run or may still start, over all attempts of the
\* tasks whose ticks never overlapped: each belongs to the attempt that holds
\* its task's slot.
THEOREM ProcessesFitLimit == Spec => []ProcessesBounded
<1>1. JournalInv /\ TickInv /\ CapacityInv => ProcessesBounded
  <2> DEFINE Procs == {ta \in (Task \ overlapped) \X Attempts : MayRun(ta[1], ta[2])}
             slot == [ta \in Procs |-> ta[1]]
  <2> SUFFICES ASSUME JournalInv, TickInv, CapacityInv
               PROVE  Cardinality(Procs) <= Limit
    BY Zenon DEF ProcessesBounded
  <2>1. ASSUME NEW ta \in Procs PROVE ta[1] \in ActiveTasks /\ ta = <<ta[1], task[ta[1]].attempt>>
    <3>1. /\ ta = <<ta[1], ta[2]>> /\ MayRun(ta[1], ta[2])
          /\ ta[1] \in Task \ overlapped /\ ta[2] \in Attempts
      OBVIOUS
    <3>2. Live(ta[1], ta[2])
      BY <3>1, MayRunIsLive
    <3> QED
      BY <3>1, <3>2 DEF Live, ActiveTasks
  <2> HIDE DEF Procs
  <2>2. slot \in Injection(Procs, ActiveTasks)
    <3>1. slot \in [Procs -> ActiveTasks]
      BY <2>1
    <3>2. ASSUME NEW x \in Procs, NEW y \in Procs, slot[x] = slot[y] PROVE x = y
      BY <2>1, <3>2
    <3> QED
      BY <3>1, <3>2, Zenon DEF Injection, IsInjective
  <2>3. /\ IsFiniteSet(ActiveTasks)
        /\ Cardinality(ActiveTasks) \in Nat
    BY ResearchAssumption, FS_Subset, FS_CardinalityType DEF ActiveTasks
  <2>4. IsFiniteSet(Procs) /\ Cardinality(Procs) <= Cardinality(ActiveTasks)
    BY <2>2, <2>3, FS_Injection
  <2>5. Cardinality(Procs) \in Nat
    BY <2>4, FS_CardinalityType
  <2> QED
    BY <2>3, <2>4, <2>5, ResearchAssumption DEF CapacityInv
<1> QED
  BY <1>1, JournalInvariant, TickInvariant, CapacityInvariant, PTL
====
