---- MODULE ResearchTaskProofs ----
(***************************************************************************)
(* However many reconcilers tick over however many tasks, and wherever they *)
(* die, the create request of an attempt is sent once, and a task settles   *)
(* only when its request is neither on its way nor still to be sent.        *)
(*                                                                          *)
(* The argument follows the journal.  A create operation leaves             *)
(* "not_started" once, for the one reconciler that is then between Pending  *)
(* and the request; it stays "pending" until the provider has answered; and *)
(* StopDone settles no task whose operation is pending.                     *)
(***************************************************************************)
EXTENDS ResearchTask, TLAPS

-----------------------------------------------------------------------------
(* Types.                                                                    *)

Document ==
    [state : {"queued"} \cup Active \cup Terminal, attempt : 0..MaxAttempts,
     owner : Owners \cup {"none"}, stoppingAs : Terminal \cup {"none"},
     retry : BOOLEAN, receipt : 0..MaxAttempts,
     checkpoint : [attempt : 0..MaxAttempts, step : 0..MaxStep]]

OpState == {"none", "not_started", "pending", "observed", "rejected", "not_sent"}

Resource ==
    [post : {"none", "flying", "served", "refused", "lost"},
     job : {"none", "active", "failed", "complete", "deleting", "gone"},
     pod : {"none", "running", "ended", "gone"},
     receipt : BOOLEAN, step : 0..MaxStep]

Step == {"idle", "claimed", "find", "confirm", "send", "sent", "stop_read",
         "stop_act", "stop_pods"} \cup Reading \cup Journal

Place ==
    [pc : Step, task : Task \cup {NoTask}, attempt : 0..MaxAttempts,
     fresh : BOOLEAN,
     seen : {"none", "running", "active", "failed", "complete", "deleting", "gone"}]

\* A document of an attempt that exists, with the outcome of its stop.
Sound(k) ==
    /\ k \in Document
    /\ k.state \in Active => k.attempt \in Attempts
    /\ k.state = "succeeded" => k.attempt \in Attempts
    /\ k.state = "stopping" => k.stoppingAs \in Terminal

\* A reconciler in its tick has a task and, once it has read it, an attempt.
Placed(p) ==
    /\ p \in Place
    /\ p.pc # "idle" => p.task \in Task
    /\ p.pc \notin {"idle", "claimed"} => p.attempt \in Attempts

TypeInv ==
    /\ task \in [Task -> Document] /\ \A t \in Task : Sound(task[t])
    /\ op \in [Task -> [Attempts -> OpState]]
    /\ prov \in [Task -> [Attempts -> Resource]]
    /\ rec \in [Reconciler -> Place] /\ \A r \in Reconciler : Placed(rec[r])
    /\ sends \in [Task -> [Attempts -> Nat]]

-----------------------------------------------------------------------------
(* The journal.                                                              *)

Live(t, a) == task[t].attempt = a /\ task[t].state \in Active

\* What is known of an attempt, claimed or not.
Traced(t, a) ==
    /\ a > task[t].attempt => op[t][a] = "none"
    /\ op[t][a] \in {"none", "not_started"} => sends[t][a] = 0
    /\ sends[t][a] = IF prov[t][a].post = "none" THEN 0 ELSE 1
    /\ prov[t][a].post # "served" => prov[t][a].job = "none"
    /\ prov[t][a].post = "flying" => op[t][a] = "pending" /\ Live(t, a)

\* The places between the commit of Pending and the request.
Sending == {"permit", "send"}

\* What a reconciler's place says about the attempt it works on: in
\* particular, a snapshot nobody superseded is that of a live attempt.
Justified(p) ==
    /\ p.pc \in Reading /\ p.fresh =>
          /\ task[p.task].state = IF p.pc = "build" THEN "launching" ELSE "running"
          /\ task[p.task].attempt = p.attempt
    /\ p.pc \in Sending => /\ sends[p.task][p.attempt] = 0
                           /\ op[p.task][p.attempt] = "pending"
    /\ p.pc = "send" => Live(p.task, p.attempt)
    /\ p.pc \in {"record", "stop_record"} =>
          prov[p.task][p.attempt].post = "served"
    /\ p.pc = "refused" => prov[p.task][p.attempt].post = "refused"

\* At most one reconciler is about to send the request of an attempt.
OneSender ==
    \A q, r \in Reconciler :
        rec[q].pc \in Sending /\ rec[r].pc \in Sending
        /\ rec[q].task = rec[r].task /\ rec[q].attempt = rec[r].attempt => q = r

\* The document ends, or has ended, in success.
Result(k) == k.state = "succeeded" \/ (k.state = "stopping" /\ k.stoppingAs = "succeeded")

\* A result rests on the receipt that the attempt's own worker published.
OwnResult(t) ==
    Result(task[t]) => /\ task[t].receipt = task[t].attempt
                       /\ prov[t][task[t].attempt].receipt

\* The document ends, or has ended, cancelled, and will not be retried.
Cancelled(k) ==
    \/ k.state = "cancelled"
    \/ k.state = "stopping" /\ k.stoppingAs = "cancelled" /\ ~k.retry

JournalInv ==
    /\ TypeInv
    /\ \A t \in Task, a \in Attempts : Traced(t, a)
    /\ \A r \in Reconciler : Justified(rec[r])
    /\ OneSender
    /\ \A t \in Task : OwnResult(t)
    /\ asked \subseteq Task /\ \A t \in asked : Cancelled(task[t])

-----------------------------------------------------------------------------
(* Documents.                                                                *)

\* A commit that neither claims nor settles: the same attempt, which keeps
\* its slot; no result appears and no cancellation is overridden.
Moves(k, next) ==
    /\ Sound(next)
    /\ next.attempt = k.attempt
    /\ next.state \in Active <=> k.state \in Active
    /\ Cancelled(k) => Cancelled(next)
    /\ Result(next) => Result(k) /\ next.receipt = k.receipt

LEMMA StaysPut == ASSUME NEW k, Sound(k) PROVE Moves(k, k)
BY DEF Moves

\* Task::stop keeps the attempt, and a live attempt stays until it has stopped.
LEMMA StopMoves ==
    ASSUME NEW k, Sound(k), k.state \notin Terminal,
           NEW reason \in Terminal \ {"succeeded"}, NEW retry \in BOOLEAN
    PROVE  Moves(k, Stop(k, reason, retry))
<1> DEFINE next == Stop(k, reason, retry)
<1>0. MaxAttempts \in Nat \ {0} /\ k \in Document
  BY ResearchAssumption DEF Sound
<1>1. CASE k.state = "stopping"
  <2>1. CASE reason = "cancelled"
    <3>1. next = [k EXCEPT !.stoppingAs = "cancelled", !.retry = FALSE, !.receipt = 0]
      BY <1>1, <2>1 DEF Stop
    <3>2. next \in Document
      <4>1. 0 \in 0..MaxAttempts
        BY <1>0
      <4>2. next = [state |-> k.state, attempt |-> k.attempt, owner |-> k.owner,
                    stoppingAs |-> "cancelled", retry |-> FALSE, receipt |-> 0,
                    checkpoint |-> k.checkpoint]
        BY <1>0, <3>1, Zenon DEF Document
      <4> QED
        BY <1>0, <4>1, <4>2 DEF Document, Terminal
    <3>3. /\ next.attempt = k.attempt /\ next.state = "stopping"
          /\ next.stoppingAs = "cancelled" /\ next.retry = FALSE
      BY <1>0, <1>1, <3>1 DEF Document
    <3> HIDE DEF next
    <3>4. Sound(next)
      BY <1>1, <3>2, <3>3 DEF Sound, Active, Terminal
    <3>5. Cancelled(next) /\ ~Result(next)
      BY <3>3 DEF Cancelled, Result
    <3>6. next.state \in Active <=> k.state \in Active
      BY <1>1, <3>3 DEF Active
    <3>7. Moves(k, next)
      BY <3>3, <3>4, <3>5, <3>6 DEF Moves
    <3> QED
      BY <3>7 DEF next
  <2>2. CASE reason # "cancelled"
    <3>1. next = k
      BY <1>1, <2>2 DEF Stop
    <3> QED
      BY <3>1, StaysPut
  <2> QED
    BY <2>1, <2>2
<1>2. CASE k.state = "queued"
  <2>1. next = [k EXCEPT !.state = reason]
    BY <1>2 DEF Stop
  <2>2. next \in Document /\ next.attempt = k.attempt /\ next.state = reason
    BY <1>0, <2>1 DEF Document
  <2> HIDE DEF next
  <2>3. Sound(next) /\ ~Result(next) /\ ~Cancelled(k)
    BY <1>2, <2>2 DEF Sound, Active, Terminal, Result, Cancelled
  <2>4. Moves(k, next)
    BY <1>2, <2>2, <2>3 DEF Moves, Active, Terminal
  <2> QED
    BY <2>4 DEF next
<1>3. CASE k.state \notin {"stopping", "queued"}
  <2> DEFINE again == retry /\ reason = "failed" /\ k.attempt < MaxAttempts
  <2>1. next = [k EXCEPT !.state = "stopping", !.stoppingAs = reason, !.retry = again]
    BY <1>3 DEF Stop
  <2>2. again \in BOOLEAN /\ k.state \in {"launching", "running"}
    BY <1>0, <1>3 DEF Document, Active
  <2> HIDE DEF again
  <2>3. /\ next \in Document /\ next.attempt = k.attempt
        /\ next.state = "stopping" /\ next.stoppingAs = reason
    BY <1>0, <2>1, <2>2, Zenon DEF Document, Active, Terminal
  <2> HIDE DEF next
  <2>4. Sound(next) /\ ~Result(next) /\ ~Cancelled(k)
    BY <2>2, <2>3 DEF Sound, Active, Terminal, Result, Cancelled
  <2>5. Moves(k, next)
    BY <2>2, <2>3, <2>4 DEF Moves, Active
  <2> QED
    BY <2>5 DEF next
<1> QED
  BY <1>1, <1>2, <1>3

\* Task::expire only ever stops.
LEMMA ExpireMoves ==
    ASSUME NEW t, NEW k, Sound(k)
    PROVE  Moves(k, Expire(t, k))
<1>1. Moves(k, k)
  BY StaysPut
<1>2. k.state \notin Terminal =>
        /\ Moves(k, Stop(k, "timed_out", FALSE))
        /\ Moves(k, Stop(k, "failed", TRUE))
  BY StopMoves, Zenon DEF Terminal
<1> QED
  BY <1>1, <1>2, Zenon DEF Expire

\* lock_id stops what a paused authority holds.
LEMMA LockedMoves ==
    ASSUME TypeInv, NEW t \in Task
    PROVE  Moves(task[t], Locked(t))
<1>1. Sound(task[t]) /\ Moves(task[t], task[t])
  BY StaysPut DEF TypeInv
<1> QED
  BY <1>1, StopMoves, Zenon DEF Locked, Terminal

\* Commits compose.
LEMMA MovesTrans ==
    ASSUME NEW k1, NEW k2, NEW k3, Moves(k1, k2), Moves(k2, k3)
    PROVE  Moves(k1, k3)
BY DEF Moves

-----------------------------------------------------------------------------
(* Commits and reconcilers' steps.                                           *)

Rewritten(t, k) == task'[t] = k /\ \A s \in Task \ {t} : task'[s] = task[s]

Moved(r, t, mine) ==
    /\ \A q \in Reconciler : q = r => rec'[q] = mine
    /\ \A q \in Reconciler : q # r =>
         /\ rec'[q].pc = rec[q].pc
         /\ rec'[q].task = rec[q].task
         /\ rec'[q].attempt = rec[q].attempt
         /\ rec'[q].fresh => rec[q].fresh /\ rec[q].task # t

Committed(r, t, k, mine) ==
    /\ task' \in [Task -> Document] /\ \A s \in Task : Sound(task'[s])
    /\ rec' \in [Reconciler -> Place] /\ \A q \in Reconciler : Placed(rec'[q])
    /\ Rewritten(t, k)
    /\ Moved(r, t, mine)

\* LockedTask::commit changes one document, one reconciler's place, and the
\* freshness of everybody else's snapshot of that task.
LEMMA CommitEffect ==
    ASSUME TypeInv, NEW r, NEW t \in Task, NEW k, NEW mine,
           Commit(r, t, k, mine), Sound(k), Placed(mine)
    PROVE  Committed(r, t, k, mine)
<1>1. task' \in [Task -> Document] /\ \A s \in Task : Sound(task'[s])
  BY DEF Commit, TypeInv, Sound
<1>2. task'[t] = k /\ \A s \in Task \ {t} : task'[s] = task[s]
  BY DEF Commit, TypeInv
<1>3. \A q \in Reconciler : q = r => rec'[q] = mine
  BY DEF Commit
<1>4. ASSUME NEW q \in Reconciler, q # r
      PROVE  /\ Placed(rec'[q])
             /\ rec'[q].pc = rec[q].pc
             /\ rec'[q].task = rec[q].task
             /\ rec'[q].attempt = rec[q].attempt
             /\ rec'[q].fresh => rec[q].fresh /\ rec[q].task # t
  <2> DEFINE n == [rec[q] EXCEPT !.fresh = FALSE]
  <2>1. rec'[q] = IF rec[q].task = t THEN n ELSE rec[q]
    BY <1>4 DEF Commit
  <2>2. rec[q] \in Place /\ Placed(rec[q])
    BY DEF TypeInv
  <2>3. /\ n \in Place /\ n.pc = rec[q].pc /\ n.task = rec[q].task
        /\ n.attempt = rec[q].attempt /\ n.fresh = FALSE
    BY <2>2, Zenon DEF Place
  <2> HIDE DEF n
  <2>4. Placed(n)
    BY <2>2, <2>3 DEF Placed
  <2> QED
    BY <2>1, <2>2, <2>3, <2>4, Zenon
<1>5. \A q \in Reconciler : Placed(rec'[q]) /\ rec'[q] \in Place
  BY <1>3, <1>4 DEF Placed
<1>6. rec' \in [Reconciler -> Place]
  BY <1>5 DEF Commit
<1> QED
  BY <1>1, <1>2, <1>3, <1>4, <1>5, <1>6, Zenon DEF Committed, Rewritten, Moved

\* No attempt begins or settles.
Steady ==
    \A s \in Task : /\ task'[s].attempt = task[s].attempt
                    /\ task'[s].state \in Active <=> task[s].state \in Active

\* Everybody but r stays where they are.
Aside(r) ==
    \A q \in Reconciler : q # r => /\ rec'[q].pc = rec[q].pc
                                   /\ rec'[q].task = rec[q].task
                                   /\ rec'[q].attempt = rec[q].attempt

\* What nearly every step of a reconciler r does.
Keeps(r) == JournalInv' /\ Steady /\ Aside(r)

\* A step of one reconciler that commits nothing: provider reads, answers,
\* and the end of a failed tick.
LEMMA LocalStep ==
    ASSUME JournalInv, NEW r \in Reconciler, NEW p, Placed(p), Justified(p),
           p.pc \notin Sending, rec' = [rec EXCEPT ![r] = p],
           UNCHANGED <<task, op, prov, sends, asked>>
    PROVE  Keeps(r)
<1>1. \A q \in Reconciler : rec'[q] = IF q = r THEN p ELSE rec[q]
  BY DEF JournalInv, TypeInv
<1>2. TypeInv'
  BY <1>1 DEF JournalInv, TypeInv, Placed
<1>3. \A t \in Task, a \in Attempts : Traced(t, a)'
  BY DEF JournalInv, Traced, Live
<1>4. ASSUME NEW q \in Reconciler PROVE Justified(rec[q])'
  <2>1. rec'[q] = p \/ rec'[q] = rec[q]
    BY <1>1
  <2>2. Justified(rec'[q])
    BY <2>1 DEF JournalInv
  <2> QED
    BY <2>2, Zenon DEF Justified, Live
<1>5. OneSender'
  BY <1>1 DEF JournalInv, OneSender
<1>6. \A t \in Task : OwnResult(t)'
  BY Zenon DEF JournalInv, OwnResult
<1>7. asked' \subseteq Task /\ \A t \in asked' : Cancelled(task'[t])
  BY DEF JournalInv
<1>8. Steady /\ Aside(r)
  BY <1>1 DEF Steady, Aside
<1> QED
  BY <1>2, <1>3, <1>4, <1>5, <1>6, <1>7, <1>8, Zenon DEF JournalInv, Keeps

\* The tick ends with nothing committed.
LEMMA FailStep ==
    ASSUME JournalInv, NEW r \in Reconciler, rec' = [rec EXCEPT ![r] = Idle],
           UNCHANGED <<task, op, prov, sends, asked>>
    PROVE  Keeps(r)
<1>1. Placed(Idle) /\ Justified(Idle) /\ Idle.pc \notin Sending
  BY ResearchAssumption DEF Placed, Place, Step, Idle, Justified, Sending, Reading
<1> HIDE DEF Idle
<1> QED
  BY <1>1, LocalStep, Zenon

\* A running attempt whose receipt was found: its stop will be a success.
Finishes(t, next) ==
    /\ Sound(next)
    /\ next.attempt = task[t].attempt
    /\ next.state \in Active /\ task[t].state \in Active
    /\ ~Cancelled(task[t])
    /\ next.receipt = next.attempt /\ prov[t][next.attempt].receipt

\* r goes on to the request of a live attempt it made Pending.
Permitted(r, t, mine) ==
    /\ r \in Reconciler /\ rec[r].pc \in Sending
    /\ mine.task = t /\ rec[r].task = t /\ rec[r].attempt = mine.attempt
    /\ Live(t, mine.attempt)

\* A commit that neither claims nor settles keeps what is known of all
\* attempts and of everybody's place.
LEMMA CommitStep ==
    ASSUME JournalInv, NEW r, NEW t \in Task, NEW k, NEW mine,
           Commit(r, t, k, mine), Placed(mine),
           Moves(task[t], k) \/ Finishes(t, k),
           mine.pc \notin {"record", "stop_record", "refused"},
           mine.pc \in Sending => Permitted(r, t, mine),
           mine.pc \in Reading /\ mine.fresh =>
              /\ mine.task = t /\ mine.attempt = k.attempt
              /\ k.state = IF mine.pc = "build" THEN "launching" ELSE "running",
           asked' = asked \/ (asked' = asked \cup {t} /\ Cancelled(k)),
           UNCHANGED <<op, prov, sends>>
    PROVE  Keeps(r)
<1>1. Committed(r, t, k, mine)
  <2>1. TypeInv /\ Sound(k)
    BY Zenon DEF JournalInv, Moves, Finishes
  <2> QED
    BY <2>1, CommitEffect
<1>2. TypeInv'
  BY <1>1, Zenon DEF JournalInv, TypeInv, Committed
<1>3. \A s \in Task : /\ task'[s].attempt = task[s].attempt
                      /\ task'[s].state \in Active <=> task[s].state \in Active
  BY <1>1 DEF Moves, Finishes, Committed, Rewritten
<1>4. \A s \in Task, a \in Attempts : Traced(s, a)'
  BY <1>3 DEF JournalInv, Traced, Live
<1>5. ASSUME NEW q \in Reconciler PROVE Justified(rec[q])'
  <2>1. CASE q = r
    <3>1. rec'[q] = mine
      BY <1>1, <2>1, Zenon DEF Committed, Moved
    <3>2. mine.pc \in Sending =>
             /\ sends[mine.task][mine.attempt] = 0
             /\ op[mine.task][mine.attempt] = "pending"
             /\ Live(mine.task, mine.attempt)'
      <4>1. Justified(rec[q])
        BY Zenon DEF JournalInv
      <4> QED
        BY <1>3, <2>1, <4>1 DEF Permitted, Justified, Live
    <3>3. mine.pc \in Reading /\ mine.fresh =>
             /\ task'[mine.task].state = IF mine.pc = "build" THEN "launching" ELSE "running"
             /\ task'[mine.task].attempt = mine.attempt
      BY <1>1, Zenon DEF Committed, Rewritten
    <3> QED
      BY <3>1, <3>2, <3>3, Zenon DEF Justified, Sending, Live
  <2>2. CASE q # r
    <3>1. /\ rec'[q].pc = rec[q].pc /\ rec'[q].task = rec[q].task
          /\ rec'[q].attempt = rec[q].attempt
          /\ rec'[q].fresh => rec[q].fresh /\ rec[q].task # t
      BY <1>1, <2>2, Zenon DEF Committed, Moved
    <3>2. rec[q].pc # "idle" => rec[q].task \in Task
      BY Zenon DEF JournalInv, TypeInv, Placed
    <3>3. Justified(rec[q])
      BY Zenon DEF JournalInv
    <3>4. rec'[q].pc \in Reading /\ rec'[q].fresh =>
             rec[q].task \in Task \ {t} /\ task'[rec[q].task] = task[rec[q].task]
      BY <1>1, <3>1, <3>2, Zenon DEF Reading, Committed, Rewritten
    <3>5. rec[q].pc = "send" => Live(rec[q].task, rec[q].attempt)'
      BY <1>3, <3>2, <3>3, <3>1 DEF Justified, Live
    <3> QED
      BY <3>1, <3>3, <3>4, <3>5, Zenon DEF Justified, Live
  <2> QED
    BY <2>1, <2>2
<1>6. OneSender'
  <2>1. \A q \in Reconciler : rec'[q].pc \in Sending =>
           /\ rec[q].pc \in Sending
           /\ rec'[q].task = rec[q].task /\ rec'[q].attempt = rec[q].attempt
    BY <1>1 DEF Committed, Moved, Permitted
  <2> QED
    BY <2>1 DEF JournalInv, OneSender
<1>7. ASSUME NEW s \in Task PROVE OwnResult(s)'
  <2>1. OwnResult(s)
    BY Zenon DEF JournalInv
  <2>2. CASE s = t
    <3>1. task'[s] = k
      BY <1>1, <2>2, Zenon DEF Committed, Rewritten
    <3> QED
      BY <2>1, <2>2, <3>1 DEF OwnResult, Moves, Finishes
  <2>3. CASE s # t
    <3>1. task'[s] = task[s]
      BY <1>1, <2>3, Zenon DEF Committed, Rewritten
    <3> QED
      BY <2>1, <3>1, Zenon DEF OwnResult
  <2> QED
    BY <2>2, <2>3, Zenon
<1>8. asked' \subseteq Task /\ \A s \in asked' : Cancelled(task'[s])
  BY <1>1 DEF JournalInv, Moves, Finishes, Committed, Rewritten
<1>9. Steady /\ Aside(r)
  BY <1>1, <1>3 DEF Steady, Aside, Committed, Moved
<1> QED
  BY <1>2, <1>4, <1>5, <1>6, <1>7, <1>8, <1>9 DEF JournalInv, Keeps

OpMoves(t, a, v) == op' = [op EXCEPT ![t][a] = v]

\* Nobody but r is between Pending and the request of the attempt.
OnlySender(r, t, a) ==
    \A q \in Reconciler \ {r} :
        rec[q].pc \in Sending => ~(rec[q].task = t /\ rec[q].attempt = a)

\* A commit that also moves the create operation of the attempt it holds: the
\* request is not on its way, and nobody else is about to send it.
LEMMA RecordStep ==
    ASSUME JournalInv, NEW r \in Reconciler, NEW t \in Task, NEW a \in Attempts,
           NEW k, NEW mine, NEW v \in OpState \ {"none", "not_started"},
           Commit(r, t, k, mine), Moves(task[t], k), Placed(mine),
           task[t].attempt = a, OpMoves(t, a, v), OnlySender(r, t, a),
           prov[t][a].post # "flying",
           mine.pc \notin Reading \cup {"send", "record", "stop_record", "refused"},
           mine.pc = "permit" => /\ v = "pending" /\ sends[t][a] = 0
                                 /\ mine.task = t /\ mine.attempt = a,
           UNCHANGED <<prov, sends, asked>>
    PROVE  Keeps(r)
<1>1. Committed(r, t, k, mine)
  <2>1. TypeInv /\ Sound(k)
    BY Zenon DEF JournalInv, Moves
  <2> QED
    BY <2>1, CommitEffect
<1>2. /\ op' \in [Task -> [Attempts -> OpState]]
      /\ op'[t][a] = v
      /\ \A s \in Task, b \in Attempts : <<s, b>> # <<t, a>> => op'[s][b] = op[s][b]
  BY DEF JournalInv, TypeInv, OpMoves
<1>3. TypeInv'
  BY <1>1, <1>2, Zenon DEF JournalInv, TypeInv, Committed
<1>4. \A s \in Task : /\ task'[s].attempt = task[s].attempt
                      /\ task'[s].state \in Active <=> task[s].state \in Active
  BY <1>1 DEF Moves, Committed, Rewritten
<1>5. ASSUME NEW s \in Task, NEW b \in Attempts PROVE Traced(s, b)'
  <2>0. Traced(s, b)
    BY Zenon DEF JournalInv
  <2>1. CASE s = t /\ b = a
    BY <1>2, <1>4, <2>0, <2>1 DEF Traced, Live, Attempts
  <2>2. CASE ~(s = t /\ b = a)
    <3>1. op'[s][b] = op[s][b]
      BY <1>2, <2>2
    <3> QED
      BY <1>4, <2>0, <3>1, Zenon DEF Traced, Live
  <2> QED
    BY <2>1, <2>2, Zenon
<1>6. ASSUME NEW q \in Reconciler PROVE Justified(rec[q])'
  <2>1. CASE q = r
    <3>1. rec'[q] = mine
      BY <1>1, <2>1 DEF Committed, Moved
    <3> QED
      BY <1>2, <3>1 DEF Justified, Sending
  <2>2. CASE q # r
    <3>1. /\ rec'[q].pc = rec[q].pc /\ rec'[q].task = rec[q].task
          /\ rec'[q].attempt = rec[q].attempt
          /\ rec'[q].fresh => rec[q].fresh /\ rec[q].task # t
      BY <1>1, <2>2, Zenon DEF Committed, Moved
    <3>2. /\ rec[q].pc # "idle" => rec[q].task \in Task
          /\ rec[q].pc \in Sending => rec[q].attempt \in Attempts
      BY Zenon DEF JournalInv, TypeInv, Placed, Sending
    <3>3. Justified(rec[q])
      BY DEF JournalInv
    <3>4. rec'[q].pc \in Reading /\ rec'[q].fresh =>
             rec[q].task \in Task \ {t} /\ task'[rec[q].task] = task[rec[q].task]
      BY <1>1, <3>1, <3>2, Zenon DEF Reading, Committed, Rewritten
    <3>5. rec[q].pc = "send" => Live(rec[q].task, rec[q].attempt)'
      BY <1>4, <3>2, <3>3, <3>1 DEF Justified, Live
    <3>6. rec[q].pc \in Sending =>
             op'[rec[q].task][rec[q].attempt] = op[rec[q].task][rec[q].attempt]
      BY <1>2, <2>2, <3>2 DEF Sending, OnlySender
    <3>7. rec'[q].pc \in Sending =>
             /\ sends'[rec'[q].task][rec'[q].attempt] = 0
             /\ op'[rec'[q].task][rec'[q].attempt] = "pending"
      BY <3>1, <3>3, <3>6, Zenon DEF Justified
    <3>8. rec'[q].pc \in Reading /\ rec'[q].fresh =>
             /\ task'[rec'[q].task].state = IF rec'[q].pc = "build" THEN "launching" ELSE "running"
             /\ task'[rec'[q].task].attempt = rec'[q].attempt
      BY <3>1, <3>3, <3>4 DEF Justified
    <3>9. /\ rec'[q].pc \in {"record", "stop_record"} =>
               prov'[rec'[q].task][rec'[q].attempt].post = "served"
          /\ rec'[q].pc = "refused" => prov'[rec'[q].task][rec'[q].attempt].post = "refused"
      BY <3>1, <3>3, Zenon DEF Justified
    <3> QED
      BY <3>1, <3>5, <3>7, <3>8, <3>9, Zenon DEF Justified, Live
  <2> QED
    BY <2>1, <2>2
<1>7. OneSender'
  <2>1. \A q \in Reconciler \ {r} :
           /\ rec'[q].pc = rec[q].pc /\ rec'[q].task = rec[q].task
           /\ rec'[q].attempt = rec[q].attempt
    BY <1>1, Zenon DEF Committed, Moved
  <2>2. rec'[r].pc \in Sending => rec'[r].task = t /\ rec'[r].attempt = a
    BY <1>1, Zenon DEF Committed, Moved, Sending
  <2> QED
    BY <2>1, <2>2 DEF JournalInv, OneSender, OnlySender
<1>8. ASSUME NEW s \in Task PROVE OwnResult(s)'
  <2>1. OwnResult(s)
    BY Zenon DEF JournalInv
  <2>2. CASE s = t
    <3>1. task'[s] = k
      BY <1>1, <2>2, Zenon DEF Committed, Rewritten
    <3> QED
      BY <2>1, <2>2, <3>1 DEF OwnResult, Moves
  <2>3. CASE s # t
    <3>1. task'[s] = task[s]
      BY <1>1, <2>3, Zenon DEF Committed, Rewritten
    <3> QED
      BY <2>1, <3>1, Zenon DEF OwnResult
  <2> QED
    BY <2>2, <2>3, Zenon
<1>9. asked' \subseteq Task /\ \A s \in asked' : Cancelled(task'[s])
  BY <1>1 DEF JournalInv, Moves, Committed, Rewritten
<1>10. Steady /\ Aside(r)
  BY <1>1, <1>4, Zenon DEF Steady, Aside, Committed, Moved
<1> QED
  BY <1>3, <1>5, <1>6, <1>7, <1>8, <1>9, <1>10 DEF JournalInv, Keeps

\* The provider changes one attempt's resource: a request on its way gets its
\* outcome, and only a served one has a job.
LEMMA ProviderStep ==
    ASSUME JournalInv, NEW t \in Task, NEW a \in Attempts, NEW p \in Resource,
           prov' = [prov EXCEPT ![t][a] = p],
           \/ p.post = prov[t][a].post
           \/ prov[t][a].post = "flying" /\ p.post \in {"served", "refused", "lost"},
           p.post # "served" => p.job = "none",
           prov[t][a].receipt => p.receipt,
           UNCHANGED <<task, op, rec, sends, asked>>
    PROVE  JournalInv'
<1>1. /\ prov' \in [Task -> [Attempts -> Resource]]
      /\ prov'[t][a] = p
      /\ \A s \in Task, b \in Attempts : <<s, b>> # <<t, a>> => prov'[s][b] = prov[s][b]
  BY Zenon DEF JournalInv, TypeInv
<1>2. TypeInv'
  BY <1>1, Zenon DEF JournalInv, TypeInv
<1>3. ASSUME NEW s \in Task, NEW b \in Attempts PROVE Traced(s, b)'
  <2>1. Traced(s, b)
    BY Zenon DEF JournalInv
  <2>2. prov'[s][b] = IF s = t /\ b = a THEN p ELSE prov[s][b]
    BY <1>1
  <2> QED
    BY <2>1, <2>2 DEF Traced, Live
<1>4. ASSUME NEW q \in Reconciler PROVE Justified(rec[q])'
  <2>1. Justified(rec[q])
    BY DEF JournalInv
  <2>2. rec[q].pc \in {"record", "stop_record", "refused"} =>
           rec[q].task \in Task /\ rec[q].attempt \in Attempts
    BY Zenon DEF JournalInv, TypeInv, Placed
  <2>3. /\ rec[q].pc \in {"record", "stop_record"} =>
             prov'[rec[q].task][rec[q].attempt].post = "served"
        /\ rec[q].pc = "refused" => prov'[rec[q].task][rec[q].attempt].post = "refused"
    BY <1>1, <2>1, <2>2 DEF Justified
  <2> QED
    BY <1>1, <2>1, <2>3, Zenon DEF Justified, Live
<1>5. OneSender'
  BY Zenon DEF JournalInv, OneSender
<1>6. ASSUME NEW s \in Task PROVE OwnResult(s)'
  <2>1. OwnResult(s)
    BY DEF JournalInv
  <2>2. Result(task[s]) => task[s].attempt \in Attempts
    BY Zenon DEF JournalInv, TypeInv, Sound, Result, Active
  <2> QED
    BY <1>1, <2>1, <2>2 DEF OwnResult
<1>7. asked' \subseteq Task /\ \A s \in asked' : Cancelled(task'[s])
  BY DEF JournalInv
<1> QED
  BY <1>2, <1>3, <1>4, <1>5, <1>6, <1>7, Zenon DEF JournalInv

-----------------------------------------------------------------------------
(* One lemma per action.                                                     *)

LEMMA IdlePlaced == Placed(Idle) /\ Idle.pc = "idle"
BY ResearchAssumption DEF Placed, Place, Step, Idle

LEMMA GotoPlaced ==
    ASSUME TypeInv, NEW r \in Reconciler, rec[r].pc \notin {"idle", "claimed"},
           NEW pc \in Step
    PROVE  /\ Placed(Goto(r, pc))
           /\ Goto(r, pc).pc = pc /\ Goto(r, pc).fresh = FALSE
           /\ Goto(r, pc).task = rec[r].task /\ Goto(r, pc).attempt = rec[r].attempt
BY Zenon DEF TypeInv, Placed, Place, Goto

\* Where a reconciler works.
LEMMA AtWork ==
    ASSUME JournalInv, NEW r \in Reconciler, rec[r].pc \notin {"idle", "claimed"}
    PROVE  /\ TypeInv /\ Placed(rec[r]) /\ Justified(rec[r])
           /\ rec[r].task \in Task /\ rec[r].attempt \in Attempts
           /\ Sound(task[rec[r].task])
BY Zenon DEF JournalInv, TypeInv, Placed

\* Steps that need no particular knowledge of the attempt.
Plain == Step \ (Reading \cup Sending \cup {"record", "stop_record", "refused"})

\* A tick ends with a commit.
LEMMA CommitAndLeave ==
    ASSUME JournalInv, NEW r, NEW t \in Task, NEW k,
           Commit(r, t, k, Idle), Moves(task[t], k) \/ Finishes(t, k),
           UNCHANGED <<op, prov, sends, asked>>
    PROVE  Keeps(r)
<1>1. Idle.pc \notin Sending \cup {"record", "stop_record", "refused"} \cup Reading
  BY IdlePlaced DEF Sending, Reading
<1> HIDE DEF Idle
<1> QED
  BY <1>1, IdlePlaced, CommitStep

\* A tick goes on after a commit that stops at most.
LEMMA CommitAndGo ==
    ASSUME JournalInv, NEW r \in Reconciler, rec[r].pc \notin {"idle", "claimed"},
           NEW pc \in Plain, NEW k, Commit(r, rec[r].task, k, Goto(r, pc)),
           Moves(task[rec[r].task], k), UNCHANGED <<op, prov, sends, asked>>
    PROVE  Keeps(r)
<1>1. TypeInv /\ rec[r].task \in Task
  BY AtWork
<1>2. /\ Placed(Goto(r, pc))
      /\ Goto(r, pc).pc \notin Sending \cup {"record", "stop_record", "refused"} \cup Reading
  BY <1>1, GotoPlaced, Zenon DEF Plain
<1> QED
  BY <1>1, <1>2, CommitStep

LEMMA PersistKeeps ==
    ASSUME JournalInv, NEW r \in Reconciler, rec[r].pc \notin {"idle", "claimed"},
           NEW pc \in Plain, Persist(r, pc), UNCHANGED <<op, prov, sends, asked>>
    PROVE  Keeps(r)
<1>1. TypeInv /\ rec[r].task \in Task
  BY AtWork
<1> QED
  BY <1>1, LockedMoves, CommitAndGo DEF Persist

\* The first transaction of a tick.
LEMMA EnterKeeps ==
    ASSUME JournalInv, NEW r \in Reconciler, NEW t \in Task, NEW k0,
           Moves(task[t], k0), Enter(r, t, k0), UNCHANGED <<op, prov, sends, asked>>
    PROVE  Keeps(r)
<1> DEFINE k1 == IF revoked[t] /\ k0.state \notin Terminal
                 THEN Stop(k0, "cancelled", FALSE) ELSE k0
           k == Expire(t, k1)
           at(pc, fresh) == [Idle EXCEPT !.pc = pc, !.task = t,
                                         !.attempt = k.attempt, !.fresh = fresh]
<1>1. Moves(k0, k1)
  <2>1. Sound(k0)
    BY Zenon DEF Moves
  <2> QED
    BY <2>1, StopMoves, StaysPut, Zenon DEF Terminal
<1>2. Moves(k1, k)
  <2>1. Sound(k1)
    BY <1>1, Zenon DEF Moves
  <2> QED
    BY <2>1, ExpireMoves, Zenon
<1> HIDE DEF k1
<1>3. Moves(task[t], k)
  <2>1. Moves(task[t], k1)
    BY <1>1, MovesTrans
  <2> QED
    BY <1>2, <2>1, MovesTrans, Zenon
<1>4. CASE k.state \notin {"stopping", "launching", "running"}
  <2>1. Fail(r)
    BY <1>4, Zenon DEF Enter, k1
  <2> QED
    BY <2>1, FailStep, Zenon DEF Fail
<1>5. ASSUME NEW pc \in {"stop_read", "build", "observe"}, NEW fresh \in BOOLEAN,
             k.state = IF pc = "stop_read" THEN "stopping"
                       ELSE IF pc = "build" THEN "launching" ELSE "running",
             pc = "stop_read" => fresh = FALSE,
             Commit(r, t, k, at(pc, fresh))
      PROVE  Keeps(r)
  <2> HIDE DEF k
  <2>1. k \in Document /\ k.attempt \in Attempts
    BY <1>3, <1>5, Zenon DEF Moves, Sound, Active
  <2>2. /\ at(pc, fresh).pc = pc /\ at(pc, fresh).task = t
        /\ at(pc, fresh).attempt = k.attempt /\ at(pc, fresh).fresh = fresh
        /\ at(pc, fresh) \in Place
    BY <2>1, ResearchAssumption, Zenon DEF Idle, Place, Step, Reading, Document
  <2> HIDE DEF at
  <2>3. Placed(at(pc, fresh))
    BY <2>1, <2>2 DEF Placed
  <2> QED
    BY <1>3, <1>5, <2>2, <2>3, CommitStep, Zenon DEF Sending, Reading
<1>6. CASE k.state = "stopping"
  BY <1>5, <1>6, Zenon DEF Enter, k1
<1>7. CASE k.state = "launching"
  BY <1>5, <1>7, Zenon DEF Enter, k1
<1>8. CASE k.state = "running"
  BY <1>5, <1>8, Zenon DEF Enter, k1
<1> QED
  BY <1>4, <1>6, <1>7, <1>8, Zenon

LEMMA EnterClaimedKeeps ==
    ASSUME JournalInv, NEW r \in Reconciler, EnterClaimed(r) PROVE Keeps(r)
<1>1. rec[r].task \in Task /\ TypeInv
  BY Zenon DEF EnterClaimed, JournalInv, TypeInv, Placed
<1> QED
  BY <1>1, LockedMoves, EnterKeeps, Zenon DEF EnterClaimed, history

LEMMA MaintainKeeps ==
    ASSUME JournalInv, NEW r \in Reconciler, NEW t \in Task, Maintain(r, t)
    PROVE  Keeps(r)
<1> DEFINE k0 == IF paused /\ (task[t].state # "stopping" \/ task[t].retry)
                 THEN Stop(task[t], "cancelled", FALSE) ELSE task[t]
<1>1. Sound(task[t]) /\ task[t].state \notin Terminal
  BY Zenon DEF Maintain, JournalInv, TypeInv, Active, Terminal
<1>2. Moves(task[t], k0)
  BY <1>1, StopMoves, StaysPut, Zenon DEF Terminal
<1>3. Enter(r, t, k0) /\ UNCHANGED <<op, prov, sends, asked>>
  BY Zenon DEF Maintain, TickBegins
<1> HIDE DEF k0
<1> QED
  BY <1>2, <1>3, EnterKeeps

\* A fresh snapshot is that of a launching or running attempt.
LEMMA FreshIsLive ==
    ASSUME JournalInv, NEW r \in Reconciler, rec[r].pc \in Reading, rec[r].fresh
    PROVE  /\ rec[r].task \in Task /\ rec[r].attempt \in Attempts /\ TypeInv
           /\ Sound(task[rec[r].task]) /\ task[rec[r].task].attempt = rec[r].attempt
           /\ task[rec[r].task].state =
                 IF rec[r].pc = "build" THEN "launching" ELSE "running"
<1>1. rec[r].pc \notin {"idle", "claimed"}
  BY DEF Reading
<1> QED
  BY <1>1, AtWork, Zenon DEF Justified

LEMMA LoseReadbackKeeps ==
    ASSUME JournalInv, NEW r \in Reconciler, LoseReadback(r) PROVE Keeps(r)
<1> DEFINE t == rec[r].task
           stale == ~rec[r].fresh \/ Locked(t) # task[t]
           k == IF Expire(t, task[t]) # task[t] THEN Expire(t, task[t])
                ELSE Stop(task[t], "cancelled", FALSE)
<1>1. rec[r].pc \notin {"idle", "claimed"} /\ rec[r].pc \in Reading
  BY DEF LoseReadback, Reading
<1>2. TypeInv /\ t \in Task /\ Sound(task[t])
  BY <1>1, AtWork, Zenon
<1>3. UNCHANGED <<op, prov, sends, asked>>
  BY Zenon DEF LoseReadback, history
<1>4. CASE ~stale
  <2>1. Commit(r, t, k, Idle)
    BY <1>4, Zenon DEF LoseReadback
  <2>2. task[t].state \notin Terminal
    BY <1>1, <1>4, FreshIsLive, Zenon DEF Terminal
  <2>3. Moves(task[t], k)
    BY <1>2, <2>2, ExpireMoves, StopMoves, Zenon DEF Terminal
  <2> HIDE DEF k
  <2> QED
    BY <1>2, <1>3, <2>1, <2>3, CommitAndLeave
<1>5. CASE stale /\ Locked(t).state = "stopping"
  <2>1. Commit(r, t, Locked(t), Idle)
    BY <1>5 DEF LoseReadback
  <2> QED
    BY <1>2, <1>3, <2>1, LockedMoves, CommitAndLeave, Zenon
<1>6. CASE stale /\ Locked(t).state # "stopping"
  <2>1. Fail(r)
    BY <1>6, Zenon DEF LoseReadback
  <2> QED
    BY <1>3, <2>1, FailStep, Zenon DEF Fail
<1> QED
  BY <1>4, <1>5, <1>6, Zenon

LEMMA RenewLeaseKeeps ==
    ASSUME JournalInv, NEW r \in Reconciler, RenewLease(r) PROVE Keeps(r)
<1>1. rec[r].pc \in Reading /\ rec[r].fresh
  BY DEF RenewLease, Current
<1>2. /\ rec[r].task \in Task /\ Sound(task[rec[r].task])
      /\ task[rec[r].task].attempt = rec[r].attempt
      /\ task[rec[r].task].state = IF rec[r].pc = "build" THEN "launching" ELSE "running"
      /\ Placed(rec[r])
  BY <1>1, FreshIsLive, Zenon DEF TypeInv
<1>3. rec[r].pc \notin Sending \cup {"record", "stop_record", "refused"}
  BY <1>1 DEF Reading, Sending
<1>4. Commit(r, rec[r].task, task[rec[r].task], rec[r]) /\ UNCHANGED <<op, prov, sends, asked>>
  BY Zenon DEF RenewLease, history
<1> QED
  BY <1>2, <1>3, <1>4, StaysPut, CommitStep, Zenon

LEMMA BuildVerifiedKeeps ==
    ASSUME JournalInv, NEW r \in Reconciler, BuildVerified(r) PROVE Keeps(r)
<1> DEFINE t == rec[r].task
<1>1. rec[r].pc \in Reading /\ rec[r].fresh /\ rec[r].pc = "build"
  BY DEF BuildVerified, Current, Reading
<1>2. t \in Task /\ Sound(task[t]) /\ task[t].state \notin Terminal
  BY <1>1, FreshIsLive DEF Terminal
<1>3. UNCHANGED <<op, prov, sends, asked>>
  BY DEF BuildVerified, history
<1>4. CASE Commit(r, t, task[t], Goto(r, "original"))
  <2>1. "original" \in Plain
    BY DEF Plain, Step, Journal, Reading, Sending
  <2> QED
    BY <1>1, <1>2, <1>3, <1>4, <2>1, StaysPut, CommitAndGo, Zenon
<1>5. CASE Commit(r, t, Stop(task[t], "cancelled", FALSE), Idle)
  BY <1>2, <1>3, <1>5, StopMoves, CommitAndLeave, Zenon DEF Terminal
<1> QED
  BY <1>4, <1>5, Zenon DEF BuildVerified

LEMMA ObserveKeeps ==
    ASSUME JournalInv, NEW r \in Reconciler, Observe(r) PROVE Keeps(r)
<1> DEFINE seen == IF Here(r).job \in {"none", "gone"} THEN "gone"
                   ELSE IF rec[r].task \notin Sandboxes /\ Here(r).job \in {"failed", "complete"}
                   THEN Here(r).job ELSE "running"
           p == [rec[r] EXCEPT !.pc = "apply", !.seen = seen]
<1>1. rec[r].pc = "observe" /\ rec[r] \in Place /\ Placed(rec[r]) /\ Justified(rec[r])
  BY Zenon DEF Observe, JournalInv, TypeInv
<1>2. seen \in {"gone", "running", "failed", "complete"}
  OBVIOUS
<1> HIDE DEF seen
<1>3. p \in Place /\ p.pc = "apply" /\ p.task = rec[r].task
      /\ p.attempt = rec[r].attempt /\ p.fresh = rec[r].fresh
  BY <1>1, <1>2, Zenon DEF Place, Step, Reading
<1>4. rec' = [rec EXCEPT ![r] = p] /\ UNCHANGED <<task, op, prov, sends, asked>>
  BY Zenon DEF Observe, history, seen, JournalInv, TypeInv
<1> HIDE DEF p
<1>5. Placed(p) /\ Justified(p) /\ p.pc \notin Sending
  BY <1>1, <1>3, Zenon DEF Placed, Justified, Sending, Reading
<1> QED
  BY <1>4, <1>5, LocalStep, Zenon

LEMMA ApplyObservationKeeps ==
    ASSUME JournalInv, NEW r \in Reconciler, ApplyObservation(r) PROVE Keeps(r)
<1> DEFINE t == rec[r].task
           k == task[t]
           a == k.attempt
<1>1. rec[r].pc \in Reading /\ rec[r].fresh /\ rec[r].pc = "apply"
  BY Zenon DEF ApplyObservation, Current, Reading
<1>2. /\ t \in Task /\ Sound(k) /\ k.state = "running" /\ k \in Document
      /\ a \in Attempts /\ prov[t][a] \in Resource
  BY <1>1, FreshIsLive DEF TypeInv, Sound
<1>3. UNCHANGED <<op, prov, sends, asked>>
  BY Zenon DEF ApplyObservation, history
<1>4. CASE Commit(r, t, Stop(k, "failed", TRUE), Idle)
  <2>1. Moves(k, Stop(k, "failed", TRUE))
    BY <1>2, StopMoves, Zenon DEF Terminal
  <2> QED
    BY <1>2, <1>3, <1>4, <2>1, CommitAndLeave, Zenon
<1>5. CASE ReceiptFound(t, k) /\ Commit(r, t, WithResult(k), Idle)
  <2> DEFINE next == WithResult(k)
  <2>1. /\ next \in Document /\ next.attempt = a /\ next.receipt = a
        /\ next.state = "stopping" /\ next.stoppingAs = "succeeded"
    BY <1>2, Zenon DEF WithResult, Document, Active, Terminal
  <2> HIDE DEF next
  <2>2. Finishes(t, next)
    BY <1>2, <1>5, <2>1, Zenon DEF Finishes, Sound, Active, Terminal, Cancelled, ReceiptFound
  <2>3. Keeps(r)
    BY <1>2, <1>3, <1>5, <2>2, CommitAndLeave, Zenon DEF next
  <2> QED
    BY <2>3
<1>6. ASSUME NEW s \in 0..prov[t][a].step,
             Commit(r, t, IF s = 0 THEN k
                          ELSE [k EXCEPT !.checkpoint = [attempt |-> a, step |-> s]], Idle)
      PROVE  Keeps(r)
  <2> DEFINE c == [attempt |-> a, step |-> s]
             next == [k EXCEPT !.checkpoint = c]
  <2>1. c \in [attempt : 0..MaxAttempts, step : 0..MaxStep]
    <3>1. prov[t][a].step \in 0..MaxStep /\ a \in 0..MaxAttempts
      BY <1>2, Zenon DEF Resource, Document
    <3> HIDE DEF a
    <3>2. s \in 0..MaxStep
      BY <3>1, ResearchAssumption
    <3> QED
      BY <3>1, <3>2, Zenon
  <2> HIDE DEF c
  <2>2. /\ next \in Document /\ next.attempt = a /\ next.state = "running"
        /\ next.receipt = k.receipt
    BY <1>2, <2>1, Zenon DEF Document
  <2> HIDE DEF next
  <2>3. Moves(k, next)
    BY <1>2, <2>2, Zenon DEF Moves, Sound, Cancelled, Result, Active
  <2>4. CASE s = 0
    BY <1>2, <1>3, <1>6, <2>4, StaysPut, CommitAndLeave, Zenon
  <2>5. CASE s # 0
    <3>1. Commit(r, t, next, Idle)
      BY <1>6, <2>5, Zenon DEF next, c
    <3> QED
      BY <1>2, <1>3, <2>3, <3>1, CommitAndLeave, Zenon
  <2> QED
    BY <2>4, <2>5, Zenon
<1>7. CASE Fail(r)
  BY <1>3, <1>7, FailStep, Zenon DEF Fail
<1> HIDE DEF k, a, t
<1> QED
  BY <1>4, <1>5, <1>6, <1>7, Zenon DEF ApplyObservation, k, a, t

LEMMA LoseAttemptKeeps ==
    ASSUME JournalInv, NEW r \in Reconciler, LoseAttempt(r) PROVE Keeps(r)
BY FailStep, Zenon DEF LoseAttempt, Fail, history

LEMMA OriginalKeeps ==
    ASSUME JournalInv, NEW r \in Reconciler, Original(r) PROVE Keeps(r)
<1>1. "find" \in Plain
  BY Zenon DEF Plain, Step, Reading, Sending
<1> QED
  BY <1>1, PersistKeeps DEF Original, Acquire, history

LEMMA FindKeeps ==
    ASSUME JournalInv, NEW r \in Reconciler, Find(r) PROVE Keeps(r)
<1> DEFINE pc == IF Exists(Here(r)) THEN "record"
                 ELSE IF rec[r].pc = "find" THEN "begin" ELSE "await"
           p == [rec[r] EXCEPT !.pc = pc]
<1>1. rec[r].pc \in {"find", "confirm"}
  BY DEF Find
<1>2. /\ rec[r] \in Place /\ Placed(rec[r])
      /\ rec[r].task \in Task /\ rec[r].attempt \in Attempts
  BY <1>1, AtWork, Zenon DEF TypeInv
<1>3. pc = "record" => Here(r).post = "served"
  BY <1>2, Zenon DEF JournalInv, Traced, Here, Exists
<1>4. pc \in {"record", "begin", "await"}
  OBVIOUS
<1>5. rec' = [rec EXCEPT ![r] = p] /\ UNCHANGED <<task, op, prov, sends, asked>>
  BY DEF Find, history, JournalInv, TypeInv
<1> HIDE DEF pc
<1>6. p \in Place /\ p.pc = pc /\ p.task = rec[r].task /\ p.attempt = rec[r].attempt
  BY <1>2, <1>4 DEF Place, Step, Journal
<1> HIDE DEF p
<1>7. Placed(p) /\ Justified(p) /\ p.pc \notin Sending
  BY <1>2, <1>3, <1>4, <1>6, Zenon DEF Placed, Justified, Sending, Reading, Here
<1> QED
  BY <1>5, <1>7, LocalStep, Zenon

LEMMA BeginKeeps ==
    ASSUME JournalInv, NEW r \in Reconciler, Begin(r) PROVE Keeps(r)
<1> DEFINE t == rec[r].task
           a == rec[r].attempt
           mine == [rec[r] EXCEPT !.pc = "permit", !.fresh = TRUE]
<1>1. /\ rec[r].pc \notin {"idle", "claimed"}
      /\ task[t].attempt = a /\ UNCHANGED <<prov, sends, asked>>
  BY Zenon DEF Begin, Acquire, Held, history
<1>2. /\ TypeInv /\ t \in Task /\ a \in Attempts /\ rec[r] \in Place
      /\ Sound(task[t]) /\ Traced(t, a)
  BY <1>1, AtWork, Zenon DEF TypeInv, JournalInv
<1>3. CASE OpOf(r) = "not_started"
  <2>1. Commit(r, t, Locked(t), mine) /\ OpMoves(t, a, "pending")
    BY <1>3, Zenon DEF Begin, SetOp, OpMoves
  <2>2. /\ Placed(mine) /\ mine.pc = "permit" /\ mine.task = t /\ mine.attempt = a
    BY <1>2, Zenon DEF Placed, Place, Step, Journal
  <2> HIDE DEF mine
  <2>3. sends[t][a] = 0 /\ prov[t][a].post # "flying"
    BY <1>2, <1>3, Zenon DEF Traced, OpOf
  <2>4. OnlySender(r, t, a)
    BY <1>3, Zenon DEF JournalInv, Justified, OpOf, OnlySender
  <2>5. mine.pc \notin Reading \cup {"send", "record", "stop_record", "refused"}
    BY <2>2 DEF Reading
  <2>6. Moves(task[t], Locked(t)) /\ "pending" \in OpState \ {"none", "not_started"}
    BY <1>2, LockedMoves, Zenon DEF OpState
  <2> HIDE DEF t, a
  <2> QED
    BY <1>1, <1>2, <2>1, <2>2, <2>3, <2>4, <2>5, <2>6, RecordStep, Zenon
<1>4. CASE OpOf(r) # "not_started"
  <2>1. {"await", "rejected"} \subseteq Plain
    BY DEF Plain, Step, Journal, Reading, Sending
  <2>2. \E pc \in {"await", "rejected"} : Persist(r, pc)
    BY <1>4, Zenon DEF Begin
  <2>3. UNCHANGED op
    BY <1>4 DEF Begin
  <2> QED
    BY <1>1, <2>1, <2>2, <2>3, PersistKeeps, Zenon
<1> QED
  BY <1>3, <1>4, Zenon

\* A request that was never sent is not out there.
LEMMA UnsentIsNowhere ==
    ASSUME JournalInv, NEW t \in Task, NEW a \in Attempts, sends[t][a] = 0
    PROVE  prov[t][a].post = "none"
<1>1. sends[t][a] = IF prov[t][a].post = "none" THEN 0 ELSE 1
  BY DEF JournalInv, Traced
<1> QED
  BY <1>1

\* An operation of the attempt r holds is recorded and r goes on.
LEMMA RecordAndGo ==
    ASSUME JournalInv, NEW r \in Reconciler, rec[r].pc \notin {"idle", "claimed"},
           Held(r), NEW v \in OpState \ {"none", "not_started"}, SetOp(r, v),
           NEW k, NEW pc \in Plain,
           Commit(r, rec[r].task, k, Goto(r, pc)), Moves(task[rec[r].task], k),
           Here(r).post # "flying",
           OnlySender(r, rec[r].task, rec[r].attempt),
           UNCHANGED <<prov, sends, asked>>
    PROVE  Keeps(r)
<1> DEFINE t == rec[r].task
           a == rec[r].attempt
           mine == Goto(r, pc)
<1>1. /\ TypeInv /\ t \in Task /\ a \in Attempts
  BY AtWork, Zenon
<1>2. Placed(mine) /\ mine.pc = pc
  BY <1>1, GotoPlaced, Zenon DEF Plain
<1>3. /\ mine.pc \notin Reading \cup {"send", "record", "stop_record", "refused"}
      /\ mine.pc # "permit"
  BY <1>2, Zenon DEF Plain, Sending
<1>4. task[t].attempt = a /\ OpMoves(t, a, v) /\ prov[t][a].post # "flying"
  BY Zenon DEF Held, SetOp, OpMoves, Here
<1>5. Commit(r, t, k, mine) /\ Moves(task[t], k) /\ OnlySender(r, t, a)
  OBVIOUS
<1> HIDE DEF t, a, mine
<1> QED
  BY <1>1, <1>2, <1>3, <1>4, <1>5, RecordStep, Zenon

LEMMA PermitKeeps ==
    ASSUME JournalInv, NEW r \in Reconciler, Permit(r) PROVE Keeps(r)
<1> DEFINE t == rec[r].task
           a == rec[r].attempt
           k == Expire(t, Locked(t))
           admitted == rec[r].fresh /\ k = task[t] /\ k.state = "launching" /\ ~revoked[t]
<1>1. /\ rec[r].pc = "permit" /\ rec[r].pc \notin {"idle", "claimed"} /\ Held(r)
      /\ UNCHANGED <<prov, sends, asked>>
  BY Zenon DEF Permit, Acquire, history
<1>2. TypeInv /\ t \in Task /\ a \in Attempts /\ Justified(rec[r])
  BY <1>1, AtWork, Zenon
<1>3. Moves(task[t], k)
  <2>1. Moves(task[t], Locked(t))
    BY <1>2, LockedMoves
  <2>2. Moves(Locked(t), k)
    BY <2>1, ExpireMoves, Zenon DEF Moves
  <2> QED
    BY <2>1, <2>2, MovesTrans
<1>4. CASE admitted
  <2> DEFINE mine == Goto(r, "send")
  <2>1. Commit(r, t, k, mine) /\ UNCHANGED op
    BY <1>4, Zenon DEF Permit
  <2>2. "send" \in Step
    BY DEF Step
  <2>3. Placed(mine) /\ mine.pc = "send" /\ mine.task = t /\ mine.attempt = a
    BY <1>1, <1>2, <2>2, GotoPlaced, Zenon
  <2>4. Live(t, a)
    BY <1>1, <1>4, Zenon DEF Live, Held, Active
  <2> HIDE DEF mine
  <2>5. Permitted(r, t, mine)
    BY <1>1, <2>3, <2>4 DEF Permitted, Sending
  <2> HIDE DEF k
  <2> QED
    BY <1>1, <1>2, <1>3, <2>1, <2>3, <2>5, CommitStep, Zenon DEF Reading
<1>5. CASE ~admitted
  <2> DEFINE next == IF k.state = "launching" THEN Stop(k, "cancelled", FALSE) ELSE k
  <2>1. Commit(r, t, next, Goto(r, "rejected")) /\ SetOp(r, "not_sent")
    BY <1>5, Zenon DEF Permit
  <2>2. Moves(task[t], next)
    <3>1. Moves(k, next)
      <4>1. Sound(k)
        BY <1>3, Zenon DEF Moves
      <4> HIDE DEF k
      <4> QED
        BY <4>1, StopMoves, StaysPut, Zenon DEF Terminal
    <3> QED
      BY <1>3, <3>1, MovesTrans, Zenon
  <2>3. "rejected" \in Plain /\ "not_sent" \in OpState \ {"none", "not_started"}
    BY DEF Plain, Step, Journal, Reading, Sending, OpState
  <2>4. Here(r).post # "flying"
    <3>1. sends[t][a] = 0
      BY <1>1, <1>2, Zenon DEF Justified, Sending
    <3> QED
      BY <1>2, <3>1, UnsentIsNowhere, Zenon DEF Here
  <2>5. OnlySender(r, t, a)
    BY <1>1 DEF JournalInv, OneSender, OnlySender, Sending
  <2> HIDE DEF next
  <2> QED
    BY <1>1, <1>2, <2>1, <2>2, <2>3, <2>4, <2>5, RecordAndGo, Zenon
<1> QED
  BY <1>4, <1>5, Zenon

LEMMA SendKeeps ==
    ASSUME JournalInv, NEW r \in Reconciler, Send(r) PROVE Keeps(r)
<1> DEFINE t == rec[r].task
           a == rec[r].attempt
           p == [rec[r] EXCEPT !.pc = "sent"]
<1>1. /\ rec[r].pc = "send" /\ rec' = [rec EXCEPT ![r].pc = "sent"]
      /\ prov' = [prov EXCEPT ![t][a].post = "flying"]
      /\ sends' = [sends EXCEPT ![t][a] = @ + 1]
      /\ UNCHANGED <<task, op, asked>>
  BY Zenon DEF Send
<1>2. /\ TypeInv /\ t \in Task /\ a \in Attempts /\ Placed(rec[r]) /\ rec[r] \in Place
      /\ sends[t][a] = 0 /\ op[t][a] = "pending" /\ Live(t, a)
      /\ Traced(t, a)
  BY <1>1, AtWork, Zenon DEF Justified, Sending, TypeInv, JournalInv
<1>3. p \in Place /\ p.pc = "sent" /\ p.task = t /\ p.attempt = a
  BY <1>2 DEF Place, Step
<1>4. \A q \in Reconciler : rec'[q] = IF q = r THEN p ELSE rec[q]
  BY <1>1, <1>2, Zenon DEF TypeInv
<1>5. /\ prov' \in [Task -> [Attempts -> Resource]]
      /\ prov'[t][a].post = "flying" /\ prov'[t][a].job = prov[t][a].job
      /\ \A s \in Task, b \in Attempts :
            /\ prov'[s][b].receipt = prov[s][b].receipt
            /\ <<s, b>> # <<t, a>> => prov'[s][b] = prov[s][b]
  <2>1. prov[t][a] \in Resource /\ prov[t] \in [Attempts -> Resource]
    BY <1>2, Zenon DEF TypeInv
  <2> DEFINE n == [prov[t][a] EXCEPT !.post = "flying"]
  <2>2. /\ n \in Resource /\ n.post = "flying" /\ n.job = prov[t][a].job
        /\ n.receipt = prov[t][a].receipt
    BY <2>1, Zenon DEF Resource
  <2>3. prov' = [prov EXCEPT ![t][a] = n]
    BY <1>1, <1>2, Zenon DEF TypeInv
  <2> HIDE DEF n
  <2> QED
    BY <1>2, <2>2, <2>3, Zenon DEF TypeInv
<1>6. /\ sends' \in [Task -> [Attempts -> Nat]] /\ sends'[t][a] = 1
      /\ \A s \in Task, b \in Attempts : <<s, b>> # <<t, a>> => sends'[s][b] = sends[s][b]
  BY <1>1, <1>2 DEF TypeInv
<1>7. rec' \in [Reconciler -> Place] /\ \A q \in Reconciler : Placed(rec'[q])
  BY <1>1, <1>2, <1>3, <1>4, Zenon DEF TypeInv, Placed
<1>8. TypeInv'
  BY <1>1, <1>2, <1>5, <1>6, <1>7, Zenon DEF TypeInv
<1> HIDE DEF p, t, a
<1>9. ASSUME NEW s \in Task, NEW b \in Attempts PROVE Traced(s, b)'
  <2>1. Traced(s, b)
    BY DEF JournalInv
  <2>2. CASE s = t /\ b = a
    BY <1>1, <1>2, <1>5, <1>6, <2>1, <2>2 DEF Traced, Live, Attempts
  <2>3. CASE ~(s = t /\ b = a)
    <3>1. prov'[s][b] = prov[s][b] /\ sends'[s][b] = sends[s][b]
      BY <1>5, <1>6, <2>3
    <3> QED
      BY <1>1, <2>1, <3>1, Zenon DEF Traced, Live
  <2> QED
    BY <2>2, <2>3
<1>10. ASSUME NEW q \in Reconciler PROVE Justified(rec[q])'
  <2>1. CASE q = r
    BY <1>3, <1>4, <2>1, Zenon DEF Justified, Sending, Reading
  <2>2. CASE q # r
    <3>1. rec'[q] = rec[q] /\ Justified(rec[q])
      BY <1>4, <2>2 DEF JournalInv
    <3>2. rec[q].pc \notin {"idle", "claimed"} =>
             rec[q].task \in Task /\ rec[q].attempt \in Attempts
      BY <1>2 DEF TypeInv, Placed
    <3>3. rec[q].pc \in Sending => ~(rec[q].task = t /\ rec[q].attempt = a)
      BY <1>1, <2>2, Zenon DEF JournalInv, OneSender, Sending, t, a
    <3>4. rec[q].pc \in {"record", "stop_record", "refused"} =>
             prov'[rec[q].task][rec[q].attempt] = prov[rec[q].task][rec[q].attempt]
      <4>1. prov[t][a].post = "none"
        BY <1>2, UnsentIsNowhere, Zenon
      <4> QED
        BY <1>2, <1>5, <3>1, <3>2, <4>1, Zenon DEF Justified
    <3>5. rec[q].pc \in Sending =>
             sends'[rec[q].task][rec[q].attempt] = sends[rec[q].task][rec[q].attempt]
      BY <1>6, <3>2, <3>3, Zenon DEF Sending
    <3> QED
      BY <1>1, <3>1, <3>4, <3>5, Zenon DEF Justified, Live
  <2> QED
    BY <2>1, <2>2
<1>11. OneSender'
  BY <1>3, <1>4 DEF JournalInv, OneSender, Sending
<1>12. ASSUME NEW s \in Task PROVE OwnResult(s)'
  <2>1. OwnResult(s) /\ (Result(task[s]) => task[s].attempt \in Attempts)
    BY Zenon DEF JournalInv, TypeInv, Sound, Result, Active
  <2> QED
    BY <1>1, <1>5, <2>1 DEF OwnResult
<1>13. asked' \subseteq Task /\ \A s \in asked' : Cancelled(task'[s])
  BY <1>1 DEF JournalInv
<1>14. Steady /\ Aside(r)
  BY <1>1, <1>4, Zenon DEF Steady, Aside
<1> QED
  BY <1>8, <1>9, <1>10, <1>11, <1>12, <1>13, <1>14 DEF JournalInv, Keeps

\* A step of r that only moves its place, to one that needs no knowledge.
LEMMA GoStep ==
    ASSUME JournalInv, NEW r \in Reconciler, rec[r].pc \notin {"idle", "claimed"},
           NEW p \in Place, p.pc \in Plain, p.task = rec[r].task,
           p.attempt = rec[r].attempt, rec' = [rec EXCEPT ![r] = p],
           UNCHANGED <<task, op, prov, sends, asked>>
    PROVE  Keeps(r)
<1>1. rec[r].task \in Task /\ rec[r].attempt \in Attempts
  BY AtWork, Zenon
<1>2. Placed(p) /\ Justified(p) /\ p.pc \notin Sending
  BY <1>1, Zenon DEF Placed, Plain, Justified, Sending
<1> QED
  BY <1>2, LocalStep, Zenon

LEMMA AnsweredKeeps ==
    ASSUME JournalInv, NEW r \in Reconciler, Answered(r) PROVE Keeps(r)
<1>1. /\ rec[r].pc = "sent" /\ rec[r].pc \notin {"idle", "claimed"}
      /\ UNCHANGED <<task, op, prov, sends, asked>>
  BY DEF Answered, history
<1>2. TypeInv /\ rec[r] \in Place /\ rec[r].task \in Task /\ rec[r].attempt \in Attempts
  BY <1>1, AtWork, Zenon DEF TypeInv
<1>3. CASE Here(r).post = "refused" /\ rec' = [rec EXCEPT ![r].pc = "refused"]
  <2> DEFINE p == [rec[r] EXCEPT !.pc = "refused"]
  <2>1. rec' = [rec EXCEPT ![r] = p]
    BY <1>2, <1>3 DEF TypeInv
  <2>2. p \in Place /\ p.pc = "refused" /\ p.task = rec[r].task /\ p.attempt = rec[r].attempt
    BY <1>2 DEF Place, Step, Journal
  <2> HIDE DEF p
  <2>3. Placed(p) /\ Justified(p) /\ p.pc \notin Sending
    BY <1>2, <1>3, <2>2, Zenon DEF Placed, Justified, Sending, Reading, Here
  <2> QED
    BY <1>1, <2>1, <2>3, LocalStep, Zenon
<1>4. CASE rec' = [rec EXCEPT ![r].pc = "confirm"]
  <2> DEFINE p == [rec[r] EXCEPT !.pc = "confirm"]
  <2>1. rec' = [rec EXCEPT ![r] = p]
    BY <1>2, <1>4, Zenon DEF TypeInv
  <2>2. p \in Place /\ p.pc \in Plain /\ p.task = rec[r].task /\ p.attempt = rec[r].attempt
    BY <1>2 DEF Place, Step, Plain, Journal, Reading, Sending
  <2> HIDE DEF p
  <2> QED
    BY <1>1, <2>1, <2>2, GoStep, Zenon
<1> QED
  BY <1>3, <1>4 DEF Answered

\* Nobody sends the request of an attempt whose request was answered.
LEMMA AnsweredHasNoSender ==
    ASSUME JournalInv, NEW r, NEW t \in Task, NEW a \in Attempts,
           prov[t][a].post # "none"
    PROVE  OnlySender(r, t, a)
<1>1. sends[t][a] # 0
  BY UnsentIsNowhere
<1> QED
  BY <1>1, Zenon DEF JournalInv, Justified, OnlySender

LEMMA RecordRejectedKeeps ==
    ASSUME JournalInv, NEW r \in Reconciler, RecordRejected(r) PROVE Keeps(r)
<1>1. /\ rec[r].pc = "refused" /\ rec[r].pc \notin {"idle", "claimed"} /\ Held(r)
      /\ UNCHANGED <<prov, sends, asked>>
  BY Zenon DEF RecordRejected, Acquire, history
<1>2. /\ TypeInv /\ rec[r].task \in Task /\ rec[r].attempt \in Attempts
      /\ Here(r).post = "refused"
  BY <1>1, AtWork, Zenon DEF Justified, Here
<1>3. CASE OpOf(r) = "pending"
  <2>1. SetOp(r, "rejected")
        /\ Commit(r, rec[r].task, Locked(rec[r].task), Goto(r, "rejected"))
    BY <1>3 DEF RecordRejected, Persist
  <2>2. "rejected" \in Plain /\ "rejected" \in OpState \ {"none", "not_started"}
    BY DEF Plain, Step, Journal, Reading, Sending, OpState
  <2>3. OnlySender(r, rec[r].task, rec[r].attempt)
    BY <1>2, AnsweredHasNoSender, Zenon DEF Here
  <2>4. Moves(task[rec[r].task], Locked(rec[r].task))
    BY <1>2, LockedMoves
  <2> QED
    BY <1>1, <1>2, <2>1, <2>2, <2>3, <2>4, RecordAndGo, Zenon
<1>4. CASE OpOf(r) # "pending"
  BY <1>1, <1>4, FailStep DEF RecordRejected, Fail
<1> QED
  BY <1>3, <1>4

LEMMA RecordKeeps ==
    ASSUME JournalInv, NEW r \in Reconciler, rec[r].pc \in {"record", "stop_record"},
           Held(r), NEW next \in Plain, Record(r, next)
    PROVE  Keeps(r)
<1>1. rec[r].pc \notin {"idle", "claimed"} /\ UNCHANGED <<prov, sends, asked>>
  BY DEF Record, history
<1>2. /\ TypeInv /\ rec[r].task \in Task /\ rec[r].attempt \in Attempts
      /\ Here(r).post = "served"
  BY <1>1, AtWork, Zenon DEF Justified, Here
<1>3. CASE OpOf(r) \in {"pending", "observed"}
  <2>1. SetOp(r, "observed")
        /\ Commit(r, rec[r].task, Locked(rec[r].task), Goto(r, next))
    BY <1>3, Zenon DEF Record, Persist
  <2>2. "observed" \in OpState \ {"none", "not_started"}
    BY DEF OpState
  <2>3. OnlySender(r, rec[r].task, rec[r].attempt)
    BY <1>2, AnsweredHasNoSender, Zenon DEF Here
  <2>4. Moves(task[rec[r].task], Locked(rec[r].task))
    BY <1>2, LockedMoves
  <2> QED
    BY <1>1, <1>2, <2>1, <2>2, <2>3, <2>4, RecordAndGo, Zenon
<1>4. CASE OpOf(r) \notin {"pending", "observed"}
  BY <1>1, <1>4, FailStep DEF Record, Fail
<1> QED
  BY <1>3, <1>4

LEMMA RecordObservedKeeps ==
    ASSUME JournalInv, NEW r \in Reconciler, RecordObserved(r) PROVE Keeps(r)
<1>1. "ready" \in Plain
  BY DEF Plain, Step, Journal, Reading, Sending
<1> QED
  BY <1>1, RecordKeeps DEF RecordObserved, Acquire

LEMMA StopRecordKeeps ==
    ASSUME JournalInv, NEW r \in Reconciler, StopRecord(r) PROVE Keeps(r)
<1>1. "stop_act" \in Plain
  BY DEF Plain, Step, Reading, Sending
<1> QED
  BY <1>1, RecordKeeps DEF StopRecord, Acquire

LEMMA LaunchedKeeps ==
    ASSUME JournalInv, NEW r \in Reconciler, Launched(r) PROVE Keeps(r)
<1> DEFINE t == rec[r].task
           k == Expire(t, Locked(t))
           next == IF k.state = "launching" THEN [k EXCEPT !.state = "running"] ELSE k
<1>1. /\ rec[r].pc \notin {"idle", "claimed"} /\ UNCHANGED <<op, prov, sends, asked>>
      /\ Commit(r, t, next, Idle)
  BY Zenon DEF Launched, Acquire, history
<1>2. TypeInv /\ t \in Task
  BY <1>1, AtWork
<1>3. Moves(task[t], k)
  <2>1. Moves(task[t], Locked(t))
    BY <1>2, LockedMoves
  <2>2. Moves(Locked(t), k)
    BY <2>1, ExpireMoves, Zenon DEF Moves
  <2> QED
    BY <2>1, <2>2, MovesTrans, Zenon
<1> HIDE DEF k
<1>4. Moves(k, next)
  <2>1. Sound(k)
    BY <1>3, Zenon DEF Moves
  <2>2. CASE k.state = "launching"
    <3>1. /\ next \in Document /\ next.state = "running" /\ next.attempt = k.attempt
      BY <2>1, <2>2 DEF Sound, Document, Active
    <3> QED
      BY <2>1, <2>2, <3>1 DEF Moves, Sound, Active, Cancelled, Result
  <2>3. CASE k.state # "launching"
    BY <2>1, <2>3, StaysPut
  <2> QED
    BY <2>2, <2>3, Zenon
<1>5. Moves(task[t], next)
  BY <1>3, <1>4, MovesTrans, Zenon
<1> HIDE DEF next
<1> QED
  BY <1>1, <1>2, <1>5, CommitAndLeave, Zenon

LEMMA LaunchRejectedKeeps ==
    ASSUME JournalInv, NEW r \in Reconciler, LaunchRejected(r) PROVE Keeps(r)
<1> DEFINE t == rec[r].task
<1>1. rec[r].pc \notin {"idle", "claimed"} /\ UNCHANGED <<op, prov, sends, asked>>
  BY Zenon DEF LaunchRejected, Acquire, history
<1>2. TypeInv /\ t \in Task
  BY <1>1, AtWork
<1>3. CASE Locked(t).state \in Terminal
  BY <1>1, <1>3, FailStep DEF LaunchRejected, Fail
<1>4. CASE Locked(t).state \notin Terminal
  <2>1. Moves(task[t], Locked(t))
    BY <1>2, LockedMoves
  <2>2. Moves(Locked(t), Stop(Locked(t), "failed", FALSE))
    BY <1>4, <2>1, StopMoves, Zenon DEF Moves, Terminal
  <2>3. Moves(task[t], Stop(Locked(t), "failed", FALSE))
    BY <2>1, <2>2, MovesTrans, Zenon
  <2>4. Commit(r, t, Stop(Locked(t), "failed", FALSE), Idle)
    BY <1>4, Zenon DEF LaunchRejected
  <2> QED
    BY <1>1, <1>2, <2>3, <2>4, CommitAndLeave, Zenon
<1> QED
  BY <1>3, <1>4

LEMMA AwaitEvidenceKeeps ==
    ASSUME JournalInv, NEW r \in Reconciler, AwaitEvidence(r) PROVE Keeps(r)
<1>1. /\ rec[r].pc \notin {"idle", "claimed"} /\ UNCHANGED <<op, prov, sends, asked>>
      /\ Commit(r, rec[r].task, Locked(rec[r].task), Idle)
  BY DEF AwaitEvidence, Acquire, history
<1>2. TypeInv /\ rec[r].task \in Task
  BY <1>1, AtWork, Zenon
<1> QED
  BY <1>1, <1>2, LockedMoves, CommitAndLeave, Zenon

LEMMA StopReadKeeps ==
    ASSUME JournalInv, NEW r \in Reconciler, StopRead(r) PROVE Keeps(r)
<1> DEFINE pc == IF Exists(Here(r)) THEN "stop_record" ELSE "stop_absent"
           p == [rec[r] EXCEPT !.pc = pc, !.seen = Here(r).job]
<1>1. rec[r].pc = "stop_read" /\ UNCHANGED <<task, op, prov, sends, asked>>
  BY DEF StopRead, history
<1>2. /\ rec[r] \in Place /\ rec[r].task \in Task /\ rec[r].attempt \in Attempts /\ TypeInv
  BY <1>1, AtWork, Zenon DEF TypeInv
<1>3. Here(r) \in Resource /\ (pc = "stop_record" => Here(r).post = "served")
  BY <1>2 DEF JournalInv, TypeInv, Traced, Here, Exists
<1>4. pc \in {"stop_record", "stop_absent"}
  OBVIOUS
<1>5. rec' = [rec EXCEPT ![r] = p]
  BY <1>2, Zenon DEF StopRead, TypeInv
<1> HIDE DEF pc
<1>6. p \in Place /\ p.pc = pc /\ p.task = rec[r].task /\ p.attempt = rec[r].attempt
  BY <1>2, <1>3, <1>4, Zenon DEF Place, Step, Journal, Resource
<1> HIDE DEF p
<1>7. Placed(p) /\ Justified(p) /\ p.pc \notin Sending
  BY <1>2, <1>3, <1>4, <1>6, Zenon DEF Placed, Justified, Sending, Reading, Here
<1> QED
  BY <1>1, <1>5, <1>7, LocalStep, Zenon

\* A change of the resource that r makes and then goes on.
LEMMA StopActKeeps ==
    ASSUME JournalInv, NEW r \in Reconciler, StopAct(r) PROVE Keeps(r)
<1> DEFINE t == rec[r].task
           a == rec[r].attempt
<1>1. /\ rec[r].pc = "stop_act" /\ rec[r].pc \notin {"idle", "claimed"}
      /\ UNCHANGED <<task, op, sends, asked>>
  BY Zenon DEF StopAct, history
<1>2. /\ TypeInv /\ rec[r] \in Place /\ t \in Task /\ a \in Attempts
      /\ prov[t][a] \in Resource /\ Traced(t, a)
  BY <1>1, AtWork, Zenon DEF TypeInv, JournalInv
<1>3. ASSUME NEW pc \in {"stopped", "await"}, rec' = [rec EXCEPT ![r].pc = pc], UNCHANGED prov
      PROVE  Keeps(r)
  <2> DEFINE p == [rec[r] EXCEPT !.pc = pc]
  <2>1. rec' = [rec EXCEPT ![r] = p]
    BY <1>2, <1>3 DEF TypeInv
  <2>2. p \in Place /\ p.pc \in Plain /\ p.task = rec[r].task /\ p.attempt = rec[r].attempt
    BY <1>2 DEF Place, Step, Plain, Journal, Reading, Sending
  <2> HIDE DEF p
  <2> QED
    BY <1>1, <1>3, <2>1, <2>2, GoStep, Zenon
<1>4. CASE rec' = [rec EXCEPT ![r] = Idle] /\ UNCHANGED prov
  BY <1>1, <1>4, FailStep, Zenon
<1>5. CASE /\ Exists(Here(r)) /\ rec' = [rec EXCEPT ![r].pc = "await"]
           /\ prov' = [prov EXCEPT ![t][a].job = "deleting"]
  <2> DEFINE n == [prov[t][a] EXCEPT !.job = "deleting"]
             p == [rec[r] EXCEPT !.pc = "await"]
  <2>1. /\ n \in Resource /\ n.post = prov[t][a].post /\ n.receipt = prov[t][a].receipt
        /\ n.post = "served"
    BY <1>2, <1>5, Zenon DEF Resource, Traced, Exists, Here
  <2>2. prov' = [prov EXCEPT ![t][a] = n]
    BY <1>2, <1>5, Zenon DEF TypeInv
  <2> HIDE DEF n
  <2>3. /\ prov' \in [Task -> [Attempts -> Resource]] /\ prov'[t][a] = n
        /\ \A s \in Task, b \in Attempts : <<s, b>> # <<t, a>> => prov'[s][b] = prov[s][b]
    BY <1>2, <2>1, <2>2, Zenon DEF TypeInv
  <2>4. p \in Place /\ p.pc = "await" /\ p.task = t /\ p.attempt = a
    BY <1>2, Zenon DEF Place, Step, Journal
  <2>5. \A q \in Reconciler : rec'[q] = IF q = r THEN p ELSE rec[q]
    BY <1>2, <1>5, Zenon DEF TypeInv
  <2> HIDE DEF p
  <2>6. rec' \in [Reconciler -> Place] /\ \A q \in Reconciler : Placed(rec'[q])
    BY <1>2, <1>5, <2>4, <2>5, Zenon DEF TypeInv, Placed
  <2>7. TypeInv'
    BY <1>1, <1>2, <2>3, <2>6, Zenon DEF TypeInv
  <2> HIDE DEF t, a
  <2>8. ASSUME NEW s \in Task, NEW b \in Attempts PROVE Traced(s, b)'
    <3>1. Traced(s, b) /\ prov'[s][b].post = prov[s][b].post
          /\ (prov'[s][b].post # "served" => prov'[s][b].job = prov[s][b].job)
      BY <1>2, <2>1, <2>3, Zenon DEF JournalInv
    <3> QED
      BY <1>1, <3>1, Zenon DEF Traced, Live
  <2>9. ASSUME NEW q \in Reconciler PROVE Justified(rec[q])'
    <3>1. CASE q = r
      BY <2>4, <2>5, <3>1, Zenon DEF Justified, Sending, Reading
    <3>2. CASE q # r
      <4>1. rec'[q] = rec[q] /\ Justified(rec[q])
        BY <2>5, <3>2, Zenon DEF JournalInv
      <4>2. rec[q].pc \in {"record", "stop_record", "refused"} =>
               prov'[rec[q].task][rec[q].attempt].post = prov[rec[q].task][rec[q].attempt].post
        BY <1>2, <2>1, <2>3, Zenon DEF TypeInv, Placed
      <4> QED
        BY <1>1, <4>1, <4>2, Zenon DEF Justified, Live
    <3> QED
      BY <3>1, <3>2
  <2>10. OneSender'
    BY <2>4, <2>5 DEF JournalInv, OneSender, Sending
  <2>11. ASSUME NEW s \in Task PROVE OwnResult(s)'
    <3>1. OwnResult(s) /\ (Result(task[s]) => task[s].attempt \in Attempts)
      BY Zenon DEF JournalInv, TypeInv, Sound, Result, Active
    <3> QED
      BY <1>1, <2>1, <2>3, <3>1, Zenon DEF OwnResult
  <2>12. asked' \subseteq Task /\ \A s \in asked' : Cancelled(task'[s])
    BY <1>1 DEF JournalInv
  <2>13. Steady /\ Aside(r)
    BY <1>1, <2>5 DEF Steady, Aside
  <2> QED
    BY <2>7, <2>8, <2>9, <2>10, <2>11, <2>12, <2>13 DEF JournalInv, Keeps
<1> QED
  BY <1>3, <1>4, <1>5, Zenon DEF StopAct

LEMMA StopAbsentKeeps ==
    ASSUME JournalInv, NEW r \in Reconciler, StopAbsent(r) PROVE Keeps(r)
<1>1. {"await", "stop_pods"} \subseteq Plain
  BY DEF Plain, Step, Journal, Reading, Sending
<1>2. /\ \E pc \in {"await", "stop_pods"} : Persist(r, pc)
      /\ rec[r].pc \notin {"idle", "claimed"} /\ UNCHANGED <<op, prov, sends, asked>>
  BY DEF StopAbsent, Acquire, history
<1> QED
  BY <1>1, <1>2, PersistKeeps, Zenon

LEMMA StopPodsKeeps ==
    ASSUME JournalInv, NEW r \in Reconciler, StopPods(r) PROVE Keeps(r)
<1>1. /\ rec[r].pc \notin {"idle", "claimed"} /\ UNCHANGED <<task, op, prov, sends, asked>>
      /\ \E pc \in {"stopped", "await"} : rec' = [rec EXCEPT ![r].pc = pc]
  BY Zenon DEF StopPods, history
<1>2. PICK pc \in {"stopped", "await"} : rec' = [rec EXCEPT ![r].pc = pc]
  BY <1>1, Zenon
<1>3. TypeInv /\ rec[r] \in Place
  BY Zenon DEF JournalInv, TypeInv
<1> DEFINE p == [rec[r] EXCEPT !.pc = pc]
<1>4. rec' = [rec EXCEPT ![r] = p]
  BY <1>2, <1>3, Zenon DEF TypeInv
<1>5. p \in Place /\ p.pc \in Plain /\ p.task = rec[r].task /\ p.attempt = rec[r].attempt
  BY <1>3 DEF Place, Step, Plain, Journal, Reading, Sending
<1> HIDE DEF p
<1> QED
  BY <1>1, <1>4, <1>5, GoStep, Zenon

\* What an acknowledged stop makes of a stopping document.
LEMMA StoppedSettles ==
    ASSUME NEW k, Sound(k), k.state = "stopping"
    PROVE  /\ Sound(Stopped(k)) /\ Stopped(k).attempt = k.attempt
           /\ Stopped(k).state \notin Active /\ Stopped(k).receipt = k.receipt
           /\ Cancelled(k) => Cancelled(Stopped(k))
           /\ Result(Stopped(k)) => Result(k)
<1> DEFINE state == IF k.retry THEN "queued" ELSE k.stoppingAs
           next == [k EXCEPT !.state = state, !.owner = "none", !.retry = FALSE,
                             !.stoppingAs = "none"]
<1>1. next = Stopped(k)
  BY DEF Stopped
<1>2. k \in Document /\ k.stoppingAs \in Terminal /\ k.attempt \in Attempts
  BY Zenon DEF Sound, Active
<1>3. state \in {"queued"} \cup Terminal
  BY <1>2
<1>4. (Cancelled(k) => state = "cancelled") /\ (state = "succeeded" => Result(k))
  BY DEF Cancelled, Result
<1> HIDE DEF state
<1>5. /\ next \in Document /\ next.state = state /\ next.attempt = k.attempt
      /\ next.receipt = k.receipt
  BY <1>2, <1>3, Zenon DEF Document
<1> HIDE DEF next
<1>6. Sound(next) /\ next.state \notin Active
  BY <1>2, <1>3, <1>5 DEF Sound, Active, Terminal
<1>7. /\ Cancelled(k) => Cancelled(next)
      /\ Result(next) => Result(k)
  BY <1>3, <1>4, <1>5, Zenon DEF Cancelled, Result, Terminal
<1> QED
  BY <1>1, <1>5, <1>6, <1>7, Zenon

LEMMA StopDoneKeeps ==
    ASSUME JournalInv, NEW r \in Reconciler, StopDone(r) PROVE JournalInv'
<1> DEFINE t == rec[r].task
           a == rec[r].attempt
           k == IF revoked[t] THEN Stop(Locked(t), "cancelled", FALSE) ELSE Locked(t)
           next == Stopped(k)
<1>1. /\ rec[r].pc \notin {"idle", "claimed"} /\ task[t].attempt = a
      /\ UNCHANGED <<op, prov, sends, asked>>
  BY Zenon DEF StopDone, Acquire, Held, history
<1>2. TypeInv /\ t \in Task /\ a \in Attempts
  BY <1>1, AtWork
<1>3. CASE ~(Locked(t).state = "stopping" /\ OpOf(r) # "pending")
  <2>1. Fail(r)
    BY <1>3, Zenon DEF StopDone
  <2> QED
    BY <1>1, <2>1, FailStep, Zenon DEF Fail, Keeps
<1>4. CASE Locked(t).state = "stopping" /\ OpOf(r) # "pending"
  <2>1. Commit(r, t, next, Idle)
    BY <1>4, Zenon DEF StopDone
  <2>2. Moves(task[t], Locked(t)) /\ Moves(Locked(t), k)
    <3>1. Moves(task[t], Locked(t))
      BY <1>2, LockedMoves, Zenon
    <3>2. Sound(Locked(t)) /\ Locked(t).state \notin Terminal
      BY <1>4, <3>1, Zenon DEF Moves, Terminal
    <3> QED
      BY <3>1, <3>2, StopMoves, StaysPut, Zenon DEF Terminal
  <2>3. Moves(task[t], k) /\ k.state = "stopping"
    <3>1. Moves(task[t], k)
      BY <2>2, MovesTrans, Zenon
    <3>2. Locked(t) \in Document
      BY <2>2, Zenon DEF Moves, Sound
    <3> QED
      BY <1>4, <3>1, <3>2, Zenon DEF Stop, Document
  <2> HIDE DEF k
  <2>4. /\ Sound(next) /\ next.attempt = a /\ next.state \notin Active
        /\ Cancelled(task[t]) => Cancelled(next)
        /\ Result(next) => Result(task[t]) /\ next.receipt = task[t].receipt
        /\ task[t].state \in Active
    BY <1>1, <2>3, StoppedSettles, Zenon DEF Moves, Active
  <2> HIDE DEF next
  <2>5. Committed(r, t, next, Idle)
    BY <1>2, <2>1, <2>4, IdlePlaced, CommitEffect
  <2>6. TypeInv'
    BY <1>1, <1>2, <2>5, Zenon DEF TypeInv, Committed
  <2>7. op[t][a] # "pending" /\ prov[t][a].post # "flying"
    BY <1>2, <1>4, Zenon DEF OpOf, JournalInv, Traced
  <2> HIDE DEF t, a
  <2>8. ASSUME NEW s \in Task, NEW b \in Attempts PROVE Traced(s, b)'
    <3>1. Traced(s, b) /\ task'[s].attempt = task[s].attempt
      BY <1>1, <2>4, <2>5, Zenon DEF JournalInv, Committed, Rewritten
    <3>2. prov[s][b].post = "flying" => s # t
      BY <1>1, <1>2, <2>7, <3>1, Zenon DEF Traced, Live
    <3>3. prov[s][b].post = "flying" => Live(s, b)'
      BY <2>5, <3>1, <3>2, Zenon DEF Traced, Live, Committed, Rewritten
    <3> QED
      BY <1>1, <3>1, <3>3, Zenon DEF Traced
  <2>9. ASSUME NEW q \in Reconciler PROVE Justified(rec[q])'
    <3>1. CASE q = r
      BY <2>5, <3>1, IdlePlaced, Zenon DEF Justified, Sending, Reading, Committed, Moved
    <3>2. CASE q # r
      <4>1. /\ rec'[q].pc = rec[q].pc /\ rec'[q].task = rec[q].task
            /\ rec'[q].attempt = rec[q].attempt
            /\ rec'[q].fresh => rec[q].fresh /\ rec[q].task # t
        BY <2>5, <3>2, Zenon DEF Committed, Moved
      <4>2. Justified(rec[q]) /\ (rec[q].pc # "idle" => rec[q].task \in Task)
        BY Zenon DEF JournalInv, TypeInv, Placed
      <4>3. rec[q].pc \in Reading /\ rec'[q].fresh =>
               task'[rec[q].task] = task[rec[q].task]
        BY <2>5, <4>1, <4>2, Zenon DEF Reading, Committed, Rewritten
      <4>4. rec[q].pc = "send" => rec[q].task # t
        BY <1>1, <1>2, <2>7, <4>2, Zenon DEF Justified, Live, Sending
      <4>5. rec[q].pc = "send" => Live(rec[q].task, rec[q].attempt)'
        BY <2>5, <4>1, <4>2, <4>4 DEF Justified, Live, Committed, Rewritten
      <4> QED
        BY <1>1, <4>1, <4>2, <4>3, <4>5, Zenon DEF Justified, Live
    <3> QED
      BY <3>1, <3>2
  <2>10. OneSender'
    BY <2>5, IdlePlaced DEF JournalInv, OneSender, Sending, Committed, Moved
  <2>11. ASSUME NEW s \in Task PROVE OwnResult(s)'
    <3>1. OwnResult(s)
      BY Zenon DEF JournalInv
    <3>2. CASE s = t
      <4>1. task'[s] = next
        BY <2>5, <3>2, Zenon DEF Committed, Rewritten
      <4> QED
        BY <1>1, <2>4, <3>1, <3>2, <4>1, Zenon DEF OwnResult
    <3>3. CASE s # t
      <4>1. task'[s] = task[s]
        BY <2>5, <3>3, Zenon DEF Committed, Rewritten
      <4> QED
        BY <1>1, <3>1, <4>1, Zenon DEF OwnResult
    <3> QED
      BY <3>2, <3>3, Zenon
  <2>12. asked' \subseteq Task /\ \A s \in asked' : Cancelled(task'[s])
    BY <1>1, <2>4, <2>5, Zenon DEF JournalInv, Committed, Rewritten
  <2> QED
    BY <2>6, <2>8, <2>9, <2>10, <2>11, <2>12, Zenon DEF JournalInv
<1> QED
  BY <1>3, <1>4

LEMMA ClaimKeeps ==
    ASSUME JournalInv, NEW r \in Reconciler, NEW t \in Task, Claim(r, t)
    PROVE  JournalInv'
<1>1. /\ TypeInv /\ Sound(task[t]) /\ task[t] \in Document /\ task[t].state = "queued"
      /\ UNCHANGED <<prov, sends, asked>>
  BY DEF Claim, TickBegins, JournalInv, TypeInv
<1>2. CASE Expire(t, task[t]) # task[t]
  <2>1. Commit(r, t, Expire(t, task[t]), Idle) /\ UNCHANGED op
    BY <1>2 DEF Claim
  <2> QED
    BY <1>1, <2>1, ExpireMoves, CommitAndLeave, Zenon DEF Keeps
<1>3. CASE Expire(t, task[t]) = task[t]
  <2> DEFINE a == task[t].attempt + 1
             k == Claimed(task[t], OwnerOf[r])
             mine == [Idle EXCEPT !.pc = "claimed", !.task = t]
  <2>1. /\ task[t].attempt < MaxAttempts /\ Commit(r, t, k, mine)
        /\ op' = [op EXCEPT ![t][a] = "not_started"]
    BY <1>3 DEF Claim
  <2>2. a \in Attempts /\ a \in 0..MaxAttempts
    BY <1>1, <2>1, ResearchAssumption DEF Document, Attempts
  <2>3. k \in Document /\ k.attempt = a /\ k.state = "launching"
    BY <1>1, <2>2, Zenon DEF Claimed, Document, Owners, Active
  <2>4. mine \in Place /\ mine.pc = "claimed" /\ mine.task = t
    <3>1. Idle \in Place
      BY IdlePlaced DEF Placed
    <3> HIDE DEF Idle
    <3> QED
      BY <3>1, Zenon DEF Place, Step
  <2> HIDE DEF k, mine
  <2>5. Sound(k) /\ Placed(mine)
    BY <2>2, <2>3, <2>4 DEF Sound, Placed, Active
  <2>6. Committed(r, t, k, mine)
    BY <1>1, <2>1, <2>5, CommitEffect, Zenon
  <2>7. /\ op' \in [Task -> [Attempts -> OpState]] /\ op'[t][a] = "not_started"
        /\ \A s \in Task, b \in Attempts : <<s, b>> # <<t, a>> => op'[s][b] = op[s][b]
    BY <1>1, <2>1, <2>2, Zenon DEF TypeInv, OpState
  <2>8. TypeInv'
    BY <1>1, <2>6, <2>7, Zenon DEF TypeInv, Committed
  <2>9. /\ a > task[t].attempt /\ task[t].attempt \in Nat
        /\ \A b \in Attempts : b \in Nat /\ (b > a => b > task[t].attempt)
    BY <1>1, ResearchAssumption DEF Document, Attempts
  <2>10. op[t][a] = "none" /\ sends[t][a] = 0 /\ prov[t][a].post = "none"
    BY <2>2, <2>9, UnsentIsNowhere, Zenon DEF JournalInv, Traced
  <2>11. task[t].state \notin Active
    BY <1>1, Zenon DEF Active
  <2> HIDE DEF a
  <2>12. ASSUME NEW s \in Task, NEW b \in Attempts PROVE Traced(s, b)'
    <3>1. Traced(s, b)
      BY DEF JournalInv
    <3>2. CASE s # t
      <4>1. task'[s] = task[s] /\ op'[s][b] = op[s][b]
        BY <2>6, <2>7, <3>2 DEF Committed, Rewritten
      <4> QED
        BY <1>1, <3>1, <4>1, Zenon DEF Traced, Live
    <3>3. CASE s = t
      <4>0. task'[s].attempt = a /\ prov[s][b].post # "flying"
        BY <2>3, <2>6, <2>11, <3>1, <3>3, Zenon DEF Committed, Rewritten, Traced, Live
      <4>1. CASE b = a
        <5>1. ~(a > a)
          BY <2>2 DEF Attempts
        <5> QED
          BY <1>1, <2>7, <2>10, <3>1, <3>3, <4>0, <4>1, <5>1 DEF Traced
      <4>2. CASE b # a
        <5>1. op'[s][b] = op[s][b]
          BY <2>7, <4>2, Zenon
        <5> QED
          BY <1>1, <2>9, <3>1, <3>3, <4>0, <5>1, Zenon DEF Traced
      <4> QED
        BY <4>1, <4>2
    <3> QED
      BY <3>2, <3>3
  <2>13. ASSUME NEW q \in Reconciler PROVE Justified(rec[q])'
    <3>1. CASE q = r
      BY <2>4, <2>6, <3>1, Zenon DEF Justified, Sending, Reading, Committed, Moved
    <3>2. CASE q # r
      <4>1. /\ rec'[q].pc = rec[q].pc /\ rec'[q].task = rec[q].task
            /\ rec'[q].attempt = rec[q].attempt
            /\ rec'[q].fresh => rec[q].fresh /\ rec[q].task # t
        BY <2>6, <3>2, Zenon DEF Committed, Moved
      <4>2. /\ Justified(rec[q]) /\ (rec[q].pc # "idle" => rec[q].task \in Task)
            /\ rec[q].pc \in Sending => rec[q].attempt \in Attempts
        BY DEF JournalInv, TypeInv, Placed, Sending
      <4>3. rec[q].pc \in Reading /\ rec'[q].fresh =>
               task'[rec[q].task] = task[rec[q].task]
        BY <2>6, <4>1, <4>2, Zenon DEF Reading, Committed, Rewritten
      <4>4. rec[q].pc = "send" => Live(rec[q].task, rec[q].attempt)'
        <5>1. rec[q].pc = "send" => Live(rec[q].task, rec[q].attempt) /\ rec[q].task \in Task
          BY <4>2, Zenon DEF Justified
        <5>2. rec[q].pc = "send" => rec[q].task # t
          BY <2>11, <5>1, Zenon DEF Live
        <5>3. rec[q].pc = "send" => task'[rec[q].task] = task[rec[q].task]
          BY <2>6, <5>1, <5>2, Zenon DEF Committed, Rewritten
        <5> QED
          BY <4>1, <5>1, <5>3, Zenon DEF Live
      <4>5. rec[q].pc \in Sending =>
               op'[rec[q].task][rec[q].attempt] = op[rec[q].task][rec[q].attempt]
        BY <2>7, <2>10, <4>2, Zenon DEF Justified, Sending
      <4>6. rec'[q].pc \in Sending =>
               /\ sends'[rec'[q].task][rec'[q].attempt] = 0
               /\ op'[rec'[q].task][rec'[q].attempt] = "pending"
        BY <1>1, <4>1, <4>2, <4>5, Zenon DEF Justified
      <4>7. rec'[q].pc \in Reading /\ rec'[q].fresh =>
               /\ task'[rec'[q].task].state = IF rec'[q].pc = "build" THEN "launching" ELSE "running"
               /\ task'[rec'[q].task].attempt = rec'[q].attempt
        BY <4>1, <4>2, <4>3, Zenon DEF Justified
      <4>8. /\ rec'[q].pc \in {"record", "stop_record"} =>
                 prov'[rec'[q].task][rec'[q].attempt].post = "served"
            /\ rec'[q].pc = "refused" => prov'[rec'[q].task][rec'[q].attempt].post = "refused"
        BY <1>1, <4>1, <4>2, Zenon DEF Justified
      <4> QED
        BY <4>1, <4>4, <4>6, <4>7, <4>8, Zenon DEF Justified, Live
    <3> QED
      BY <3>1, <3>2
  <2>14. OneSender'
    BY <2>4, <2>6 DEF JournalInv, OneSender, Sending, Committed, Moved
  <2>15. ASSUME NEW s \in Task PROVE OwnResult(s)'
    <3>1. CASE s = t
      BY <2>3, <2>6, <3>1, Zenon DEF OwnResult, Committed, Rewritten, Result
    <3>2. CASE s # t
      BY <1>1, <2>6, <3>2 DEF JournalInv, OwnResult, Committed, Rewritten
    <3> QED
      BY <3>1, <3>2
  <2>16. asked' \subseteq Task /\ \A s \in asked' : Cancelled(task'[s])
    BY <1>1, <2>6 DEF JournalInv, Committed, Rewritten, Cancelled
  <2> QED
    BY <2>8, <2>12, <2>13, <2>14, <2>15, <2>16, Zenon DEF JournalInv
<1> QED
  BY <1>2, <1>3

\* A user's cancellation makes the document one that ends cancelled.
LEMMA CancelKeeps ==
    ASSUME JournalInv, NEW t \in Task, Cancel(t) PROVE Keeps(NoTask)
<1> DEFINE k == Stop(task[t], "cancelled", FALSE)
<1>1. /\ TypeInv /\ Sound(task[t]) /\ task[t].state \notin Terminal
      /\ Commit(NoTask, t, k, Idle) /\ asked' = asked \cup {t} /\ UNCHANGED <<op, prov, sends>>
  BY Zenon DEF Cancel, JournalInv, TypeInv
<1>2. Moves(task[t], k)
  BY <1>1, StopMoves, Zenon DEF Terminal
<1>3. Cancelled(k)
  BY <1>1, Zenon DEF Stop, Cancelled, Sound, Document
<1>4. Idle.pc \notin Sending \cup {"record", "stop_record", "refused"} \cup Reading
  BY IdlePlaced DEF Sending, Reading
<1> HIDE DEF k, Idle
<1> QED
  BY <1>1, <1>2, <1>3, <1>4, IdlePlaced, CommitStep

\* Time, modes and revocations are no part of the invariant.
LEMMA UnchangedKeeps ==
    ASSUME JournalInv, UNCHANGED <<task, op, prov, rec, sends, asked>>
    PROVE  JournalInv'
<1>1. TypeInv'
  BY Zenon DEF JournalInv, TypeInv
<1>2. \A t \in Task, a \in Attempts : Traced(t, a)'
  BY DEF JournalInv, Traced, Live
<1>3. \A r \in Reconciler : Justified(rec[r])'
  BY Zenon DEF JournalInv, Justified, Live
<1>4. OneSender' /\ \A t \in Task : OwnResult(t)'
  BY Zenon DEF JournalInv, OneSender, OwnResult
<1> QED
  BY <1>1, <1>2, <1>3, <1>4, Zenon DEF JournalInv

LEMMA ProviderKeeps ==
    ASSUME JournalInv, NEW t \in Task, NEW a \in Attempts, Provider(t, a)
    PROVE  JournalInv'
<1> DEFINE p == prov[t][a]
<1>1. p \in Resource /\ (p.post # "served" => p.job = "none")
  BY DEF JournalInv, TypeInv, Traced
<1>2. ASSUME NEW n \in Resource, Update(t, a, n),
             \/ n.post = p.post
             \/ p.post = "flying" /\ n.post \in {"served", "refused", "lost"},
             n.post # "served" => n.job = "none",
             p.receipt => n.receipt
      PROVE  JournalInv'
  BY <1>2, ProviderStep, Zenon DEF Update, history
<1>3. CASE Serve(t, a)
  <2> DEFINE n1 == [p EXCEPT !.post = "served", !.job = "active"]
             n2 == [p EXCEPT !.post = "refused"]
             n3 == [p EXCEPT !.post = "lost"]
  <2>1. p.post = "flying" /\ \/ Update(t, a, n1)
                             \/ Update(t, a, n2)
                             \/ Update(t, a, n3)
    BY <1>3, Zenon DEF Serve
  <2> HIDE DEF p
  <2>2. /\ n1 \in Resource /\ n1.post = "served" /\ n1.receipt = p.receipt
        /\ n2 \in Resource /\ n2.post = "refused" /\ n2.job = p.job /\ n2.receipt = p.receipt
        /\ n3 \in Resource /\ n3.post = "lost" /\ n3.job = p.job /\ n3.receipt = p.receipt
    BY <1>1, Zenon DEF Resource
  <2> HIDE DEF n1, n2, n3
  <2> QED
    BY <1>1, <1>2, <2>1, <2>2
<1>4. CASE Work(t, a)
  <2> DEFINE n1 == [p EXCEPT !.pod = "running"]
             n2 == [p EXCEPT !.step = @ + 1]
             n3 == [p EXCEPT !.receipt = TRUE]
             n4 == [p EXCEPT !.pod = "ended"]
  <2>1. \/ Update(t, a, n1)
        \/ p.step < MaxStep /\ Update(t, a, n2)
        \/ Update(t, a, n3)
        \/ Update(t, a, n4)
    BY <1>4, Zenon DEF Work
  <2> HIDE DEF p
  <2>2. /\ n1 \in Resource /\ n1.post = p.post /\ n1.job = p.job /\ n1.receipt = p.receipt
        /\ n3 \in Resource /\ n3.post = p.post /\ n3.job = p.job /\ n3.receipt = TRUE
        /\ n4 \in Resource /\ n4.post = p.post /\ n4.job = p.job /\ n4.receipt = p.receipt
    BY <1>1, Zenon DEF Resource
  <2>3. p.step < MaxStep =>
           n2 \in Resource /\ n2.post = p.post /\ n2.job = p.job /\ n2.receipt = p.receipt
    <3>1. p.step < MaxStep => p.step + 1 \in 0..MaxStep
      BY <1>1, ResearchAssumption DEF Resource
    <3> QED
      BY <1>1, <3>1 DEF Resource
  <2> HIDE DEF n1, n2, n3, n4
  <2> QED
    BY <1>1, <1>2, <2>1, <2>2, <2>3
<1>5. ASSUME NEW job \in {"failed", "complete", "gone"}, p.job # "none",
             Update(t, a, [p EXCEPT !.job = job])
      PROVE  JournalInv'
  <2> DEFINE n == [p EXCEPT !.job = job]
  <2> HIDE DEF p
  <2>1. n \in Resource /\ n.post = p.post /\ n.receipt = p.receipt
    BY <1>1 DEF Resource
  <2>2. p.post = "served" /\ Update(t, a, n)
    BY <1>1, <1>5
  <2> HIDE DEF n
  <2> QED
    BY <1>2, <2>1, <2>2
<1>6. CASE Update(t, a, [p EXCEPT !.pod = "gone"])
  <2> DEFINE n == [p EXCEPT !.pod = "gone"]
  <2> HIDE DEF p
  <2>1. n \in Resource /\ n.post = p.post /\ n.job = p.job /\ n.receipt = p.receipt
    BY <1>1, Zenon DEF Resource
  <2>2. Update(t, a, n)
    BY <1>6
  <2> HIDE DEF n
  <2> QED
    BY <1>1, <1>2, <2>1, <2>2
<1>7. CASE Settle(t, a) \/ Overrun(t, a)
  BY <1>5, <1>7, Zenon DEF Settle, Overrun
<1>8. CASE Delete(t, a)
  BY <1>5, <1>6, <1>8, Zenon DEF Delete
<1>9. CASE Vanish(t, a)
  BY <1>5, <1>6, <1>9 DEF Vanish, Exists
<1>10. CASE Collect(t, a)
  BY <1>6, <1>10, Zenon DEF Collect
<1> QED
  BY <1>3, <1>4, <1>7, <1>8, <1>9, <1>10 DEF Provider

LEMMA ReconcileKeeps ==
    ASSUME JournalInv, NEW r \in Reconciler, Reconcile(r) PROVE JournalInv'
BY EnterClaimedKeeps, LoseReadbackKeeps, BuildVerifiedKeeps, ObserveKeeps,
   ApplyObservationKeeps, LoseAttemptKeeps, OriginalKeeps, FindKeeps, BeginKeeps,
   PermitKeeps, SendKeeps, AnsweredKeeps, RecordRejectedKeeps, RecordObservedKeeps,
   LaunchedKeeps, LaunchRejectedKeeps, AwaitEvidenceKeeps, StopReadKeeps,
   StopRecordKeeps, StopActKeeps, StopAbsentKeeps, StopPodsKeeps, StopDoneKeeps, Zenon
   DEF Reconcile, Keeps

LEMMA NextKeeps == JournalInv /\ [Next]_vars => JournalInv'
<1> SUFFICES ASSUME JournalInv, [Next]_vars PROVE JournalInv'
  OBVIOUS
<1>1. ASSUME NEW r \in Reconciler, Abort(r) PROVE JournalInv'
  BY <1>1, FailStep, Zenon DEF Abort, history, Keeps
<1>2. ASSUME NEW t \in Task, Passes(t) PROVE JournalInv'
  BY <1>2, UnchangedKeeps, Zenon DEF Passes, history
<1>3. CASE SetMode
  BY <1>3, UnchangedKeeps DEF SetMode, history
<1>4. CASE UNCHANGED vars
  BY <1>4, UnchangedKeeps DEF vars, history
<1> QED
  BY <1>1, <1>2, <1>3, <1>4, ReconcileKeeps, RenewLeaseKeeps, ClaimKeeps,
     MaintainKeeps, CancelKeeps, ProviderKeeps, Zenon DEF Next, Keeps

LEMMA InitJournal == Init => JournalInv
<1> SUFFICES ASSUME Init PROVE JournalInv
  OBVIOUS
<1>1. NewTask \in Document /\ NewTask.state = "queued" /\ NewTask.attempt = 0
  BY ResearchAssumption DEF NewTask, Document
<1>2. Nothing \in Resource /\ Nothing.post = "none" /\ Nothing.job = "none"
  BY ResearchAssumption DEF Nothing, Resource
<1>3. Placed(Idle) /\ Idle.pc = "idle"
  BY IdlePlaced
<1> HIDE DEF NewTask, Nothing, Idle
<1>4. Sound(NewTask) /\ ~Result(NewTask)
  BY <1>1 DEF Sound, Active, Result
<1>5. TypeInv
  BY <1>1, <1>2, <1>3, <1>4, Zenon DEF Init, TypeInv, OpState, Placed
<1>6. \A t \in Task, a \in Attempts : Traced(t, a)
  BY <1>1, <1>2 DEF Init, Traced
<1>7. \A r \in Reconciler : Justified(rec[r])
  BY <1>3, Zenon DEF Init, Justified, Sending, Reading
<1>8. OneSender
  BY <1>3 DEF Init, OneSender, Sending
<1>9. (\A t \in Task : OwnResult(t)) /\ asked = {}
  BY <1>4 DEF Init, OwnResult
<1> QED
  BY <1>5, <1>6, <1>7, <1>8, <1>9 DEF JournalInv

\* The journal's inductive invariant, for every number of tasks, reconcilers
\* and attempts.
THEOREM JournalInvariant == Spec => []JournalInv
BY InitJournal, NextKeeps, PTL DEF Spec

\* No attempt's create request is sent twice, by whichever reconciler.
THEOREM CreateSentOnce == Spec => []SentOnce
<1>1. JournalInv => SentOnce
  <2> SUFFICES ASSUME JournalInv, NEW t \in Task, NEW a \in Attempts
               PROVE  sends[t][a] <= 1
    BY Zenon DEF SentOnce
  <2>1. sends[t][a] = IF prov[t][a].post = "none" THEN 0 ELSE 1
    BY DEF JournalInv, Traced
  <2> QED
    BY <2>1
<1> QED
  BY <1>1, JournalInvariant, PTL

-----------------------------------------------------------------------------
(* Environment variables keep their types.                                   *)

EnvInv ==
    /\ {lapsed, overdue, revoked} \subseteq [Task -> BOOLEAN]
    /\ paused \in BOOLEAN
    /\ overlapped \subseteq Task
    /\ aborts \in 0..MaxAborts

\* A reconciler within its tick changes nothing of the environment.
LEMMA ReconcileFrame ==
    ASSUME NEW r, Reconcile(r) \/ RenewLease(r)
    PROVE  UNCHANGED <<env, aborts, asked, overlapped>>
<1>1. EnterClaimed(r) \/ LoseReadback(r) \/ BuildVerified(r) \/ Observe(r)
      \/ ApplyObservation(r) \/ LoseAttempt(r) \/ Original(r) \/ Find(r)
      \/ RenewLease(r) => UNCHANGED <<env, aborts, asked, overlapped>>
  BY Zenon DEF EnterClaimed, LoseReadback, BuildVerified, Observe, ApplyObservation,
         LoseAttempt, Original, Find, RenewLease, history
<1>2. Begin(r) \/ Permit(r) \/ Send(r) \/ Answered(r) \/ RecordRejected(r)
      \/ RecordObserved(r) \/ Launched(r) \/ LaunchRejected(r)
      => UNCHANGED <<env, aborts, asked, overlapped>>
  BY Zenon DEF Begin, Permit, Send, Answered, RecordRejected, RecordObserved, Record,
         Launched, LaunchRejected, history
<1>3. AwaitEvidence(r) \/ StopRead(r) \/ StopRecord(r) \/ StopAct(r)
      \/ StopAbsent(r) \/ StopPods(r) \/ StopDone(r)
      => UNCHANGED <<env, aborts, asked, overlapped>>
  BY Zenon DEF AwaitEvidence, StopRead, StopRecord, Record, StopAct, StopAbsent,
         StopPods, StopDone, history
<1> QED
  BY <1>1, <1>2, <1>3, Zenon DEF Reconcile

LEMMA EnvKeeps == EnvInv /\ [Next]_vars => EnvInv'
<1> SUFFICES ASSUME EnvInv, [Next]_vars PROVE EnvInv'
  OBVIOUS
<1>1. ASSUME NEW r \in Reconciler, Reconcile(r) \/ RenewLease(r) PROVE EnvInv'
  <2>1. UNCHANGED <<env, aborts, asked, overlapped>>
    BY <1>1, ReconcileFrame
  <2> QED
    BY <2>1 DEF env, EnvInv
<1>2. ASSUME NEW r \in Reconciler, Abort(r) PROVE EnvInv'
  <2>1. UNCHANGED <<lapsed, overdue, revoked, paused, overlapped>>
    BY <1>2 DEF Abort, env, history
  <2>2. aborts' \in 0..MaxAborts
    BY <1>2, ResearchAssumption DEF Abort, EnvInv
  <2> QED
    BY <2>1, <2>2 DEF EnvInv
<1>3. ASSUME NEW r \in Reconciler, NEW t \in Task, Claim(r, t) \/ Maintain(r, t)
      PROVE  EnvInv'
  <2>1. overlapped' \subseteq Task /\ UNCHANGED <<overdue, revoked, paused, aborts>>
    BY <1>3, Zenon DEF Claim, Maintain, TickBegins, env, EnvInv
  <2>2. lapsed' = lapsed \/ lapsed' = [lapsed EXCEPT ![t] = FALSE]
    BY <1>3, Zenon DEF Claim, Maintain, env
  <2> QED
    BY <2>1, <2>2, Zenon DEF EnvInv
<1>4. ASSUME NEW t \in Task, Cancel(t) \/ Passes(t) PROVE EnvInv'
  BY <1>4, Zenon DEF Cancel, Passes, env, history, EnvInv
<1>5. CASE SetMode
  BY <1>5, Zenon DEF SetMode, history, EnvInv
<1>6. ASSUME NEW t \in Task, NEW a \in Attempts, Provider(t, a) PROVE EnvInv'
  BY <1>6, Zenon DEF Provider, Serve, Work, Settle, Overrun, Delete, Vanish, Collect,
              Update, env, history, EnvInv
<1>7. CASE UNCHANGED vars
  BY <1>7, Zenon DEF vars, env, history, EnvInv
<1> QED
  BY <1>1, <1>2, <1>3, <1>4, <1>5, <1>6, <1>7, Zenon DEF Next

LEMMA InitEnv == Init => EnvInv
<1>1. 0 \in 0..MaxAborts
  BY ResearchAssumption
<1>2. Init => {lapsed, overdue, revoked} \subseteq [Task -> BOOLEAN]
  BY SMT DEF Init
<1>3. Init => paused \in BOOLEAN /\ overlapped \subseteq Task
  BY Zenon DEF Init
<1>4. Init => aborts \in 0..MaxAborts
  BY <1>1, Zenon DEF Init
<1> QED
  BY <1>2, <1>3, <1>4, Zenon DEF EnvInv

\* The ledger under racing reconcilers, and wherever they die: a settled
\* task's create request is neither on its way nor still to be sent, a result
\* is the attempt's own, and nobody overrides a cancellation.
THEOREM LedgerSafe == Spec => []TaskInv
<1>1. JournalInv /\ EnvInv => TypeOK
  BY DEF JournalInv, TypeInv, EnvInv, TypeOK, Document, OpState, Place
<1>2. JournalInv => SettledCreateKnown
  BY DEF JournalInv, Traced, Justified, Live, SettledCreateKnown
<1>3. JournalInv => ResultIsOwn
  BY Zenon DEF JournalInv, OwnResult, Result, ResultIsOwn
<1>4. JournalInv => CancelIsFinal
  BY Zenon DEF JournalInv, Cancelled, CancelIsFinal
<1>5. JournalInv /\ EnvInv => TaskInv
  BY <1>1, <1>2, <1>3, <1>4 DEF TaskInv
<1>6. Spec => []EnvInv
  BY InitEnv, EnvKeeps, PTL DEF Spec
<1> QED
  BY <1>5, <1>6, JournalInvariant, PTL
====
