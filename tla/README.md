# Verification of the trading engine and its services

TLA+ models, TLC runs and TLAPS proofs for the parts of the repository where
concurrency, crashes and unreliable delivery decide correctness: the execution
core (the path an order intent takes from the engine to a venue, the controls
that stop it and the books that account for it), the depth feed, the
collector's spool, the agent run queue, and the research platform's task
controller and release budget. `PROJECT.json` lists the runs, the theorems, the
hazards, and for every definition the source lines it models. Paths below are
relative to `src/rust_hft/` unless they start with `src/`.

## The system and its parts

A live process has three kinds of tasks.

- The **engine** (`market-core/engine/src/lib.rs`) consumes market data, runs
  the strategies, reviews their intents against the risk managers, reserves the
  exposure (`risk_reservations.rs`) and enqueues the intent. It also drains the
  execution reports and applies them to the order management (OMS,
  `risk-control/oms-core`) and the Portfolio.
- The **execution worker** (`execution_worker.rs`) owns the execution clients.
  It takes intents in batches, checks before each one whether it may still be
  submitted, charges the rate budget (`rate_budget.rs`), calls the adapter,
  polls the private execution streams and reports everything to the engine.
- The **control handle** (`execution_control.rs`) is what the operator and the
  runtime call: pause, resume, degrade, emergency stop, cancel, replace,
  reconcile. It changes the engine's mode under the engine lock and sends
  commands to the worker, waiting for each reply with a timeout.

Engine and worker are connected by two single-producer single-consumer rings
(`dataflow/ring_buffer.rs`): intents one way, reports the other
(`execution_queues.rs`). Stream markers travel in the report FIFO; when the
engine has applied one, it acknowledges it on a separate channel.

The engine keeps three canonical owners of execution state: the OMS, the
Portfolio and the risk reservations. `handle_execution_report` keeps them in
step behind a bounded replay filter; a report they cannot place halts admission
until a readback of the venue confirms them.

Beside this core run services that share nothing with it but files, databases
or the market:

- `binance-md` bridges a REST snapshot with the depth stream into a book, and
  replays the file it recorded (`market-core/binance-depth`, `apps/binance-md`);
- the **collector** writes batches the database refused to a spool directory
  that all its sessions share (`tools/collector`);
- `new-ployd` appends agent-run requests to a file that `ploy-agent-sidecar`
  claims, runs, retries and records (`prediction-markets`);
- the **research platform** runs tasks on Kubernetes from a PostgreSQL ledger
  that several reconcilers work on, and publishes releases under a budget that
  is a local journal (`research-core/platform`).

Around these stand ingestion and aggregation of market data, the adapters of the
venues, the infrastructure clients (Redis, ClickHouse, IPC), the alpha harness,
the governance contracts, the rest of the prediction-market application,
strategies, tools and apps. The `components` list of `PROJECT.json` names them all, with the reason for each
part that is not modelled.

## Modules

| module | models | code |
| --- | --- | --- |
| `FifoChannel` | abstract bounded FIFO channel | what the queues promise |
| `SpscRing` | the ring, one step per shared-memory access | `dataflow/ring_buffer.rs` |
| `ReportQueue` | a full report ring, bounded drain batches and the space notification | `execution_queues.rs`, the engine's run loop |
| `RateBudget` | two-dimensional admission with refill | `rate_budget.rs` |
| `ExecutionWorker` | the worker's task, with the engine as it appears to it | `execution_worker.rs`, parts of `execution_queues.rs` and `lib.rs` |
| `ExecutionControl` | composition: handle, engine mode, reservations and worker | `execution_control.rs`, `lib.rs`, `risk_reservations.rs` |
| `CanonicalBooks` | OMS, Portfolio, reservations, replay filter, readback, checkpoints, with a worker and a venue | `lib.rs`, `risk_reservations.rs`, `execution_control.rs`, `risk-control/oms-core`, `risk-control/portfolio-core` |
| `DepthLane` | snapshot/diff bridge, book, live loop and replay | `market-core/binance-depth`, `apps/binance-md/src/main.rs` |
| `CollectorSpool` | spool files under concurrent sessions | `tools/collector/src/spool.rs` and the flushes of the sessions |
| `AgentQueue` | request and history files of daemon and sidecar | `prediction-markets/apps/ploy-agent-sidecar`, `crates/ploy-daemon-host/src/http.rs` |
| `ResearchTask` | task state machine, ledger locks, create journal, launch and stop | `research-core/platform/src/{orchestrator,postgres,service,provider_operations,execution}.rs` |
| `ReleaseBudget` | budget ledger and the requests of a publication | `research-core/platform/src/release_{budget,oss,publisher}.rs`, `bin/research-release-capability.rs` |
| `*Proofs` | theorems about the module of that name (`ResearchStopProofs`: about `ResearchTask`) | |
| `SumTheorems` | lemmas on sums over finite sets, for `RateBudgetProofs` | |
| `MC*` | instances for TLC | |

**SpscRing.** `head`, `tail` and the slots are the fields of the ring. A push
is `PushLoad`, `PushFull`/`PushRoom`, `PushWrite`, `PushPublish`; a pop is
analogous; `CapturePrefix` is `pending_len`, whose result bounds a later drain.
An acquire load may return any value of the other index that is not older than
the last one seen, so the model includes stale reads.

**ReportQueue.** `send_report_reliable` tries, and on a full ring waits for
`event_space_notify` without a timeout; `drain_reports` notifies once per batch
that took something. The ring is `FifoChannel`, which `SpscRing` implements.
Tokio's `Notify` is external: it wakes the parked task or keeps one permit.

**RateBudget.** A bucket is `remaining` and `lastRefill`; a request is `Admit`,
`RejectAccount` or `RejectEgress`, in the code's order of examination, so a
refusal by the egress keeps a refill of the account. Venue, product and
operation are part of the key and folded into the identity.

**ExecutionWorker.** The record `w` holds the intake latches (`accepting`,
`operator`, `emergency`, `recovery`, `drain`) and, per client, the connection,
barrier, latest and awaited stream generation. The handlers are functions on
this record, because the code composes them between two awaits. `wpc` is the
place in the loop: control commands, private-event poll, acknowledged streams,
recovery retry, intent batch (with the same control and event drain before each
submission), placement, acknowledgement timeouts, periodic reconciliation, idle.
What a poll returns, how a placement ends and what a snapshot shows are chosen
freely among the outcomes the code distinguishes. The engine is here only what
the worker sees: `EnqueueIntent`, `DrainReports`, `ClearHalt`.

**ExecutionControl.** Operations are serialised by `operation_gate`; the record
`op` says where the current one is, which reply it waits for and where it
continues. Every await is a step boundary at which engine and worker move, and
every wait may time out while its command stays queued. Cancellations,
replacements and account inspections take no gate (`Ungated`), and the sentinel
degrades the engine directly, so `EnterDegrade` may fall between any two steps of
an operation. `queued` are the
reservations not yet bound to an order, `unconfirmed` the latch that demands a
readback.

**CanonicalBooks.** Each kind of report is an action-level operator of
`Handle`, which contains the OMS transition, the Portfolio update, the rollback
of both, the reservation's `observe` and the commit of the replay key. Worker
reports arrive in order and once (`worker`); private reports in any order and
any number of times (`sent`, `seen`). The venue, the worker's publications and
the death of the process are external. A restart imports whatever mixture of
checkpoints was saved (`ImportOms`, `ImportPortfolio`, `ImportReservations`, in
any order), and passes a readback before it may trade.

**DepthLane.** The exchange numbers its changes; a diff carries the quantities
as of its last id. `sync` is `BookSync`, `book` the correctness book, `depth`
the lane's own buffer. The live loop is a phase variable. What it records goes
to `log`, and `Replay` folds `replay_records` over it.

**CollectorSpool.** `task[s].step` is the place of a session inside `save` or
`drain`. `fs::write` is up to three steps (create, part of the contents, all of
them), a directory listing is taken once and worked through, a size is measured
before files are evicted by it. Every read, write and removal of a file may fail;
the errors that `save` returns end it, those of `remove_file` are ignored.

**AgentQueue.** A file is its lines and its tail: `"torn"` is a fragment,
`"bare"` a record without its newline. Claim (rename), read with tail repair,
run, requeue, record, complete are the steps of one sidecar cycle. The daemon
opens the request file and appends to it in two steps, and its handle follows a
rename, so what the lock excludes can be seen. The request file's lock is a
variable; a critical section of the history's lock is a step.

**ResearchTask.** `task` is the ledger row, `op` the create journal, `prov` what
exists at the provider, `rec` where each reconciler is. A transaction is a step,
all I/O between two transactions is done unlocked, and what a reconciler
remembers over it is `fresh` (nobody committed since) and `seen` (what it read).
Clocks appear as the facts derived from them: lapsed, overdue, revoked. A Job
that exceeds its active deadline fails and loses its running pod (`Overrun`). The
history variable `overlapped` is the set of tasks over which two reconcilers were
ever in a tick at once.

**ReleaseBudget.** `marker` is the anchor file, `journal` the ledger, `proc` the
place of each process in the script of its role; a request is anchored,
recorded and only then sent. The scripts are computed from the code's order of
requests, the allocation from `publication_limits`, and both in small units.

## Runs

A run answers one question about one part. Where a part has questions whose
instances do not multiply well, the MC module adds a variable `scenario`, chosen
in the initial state and never changed, which bounds what the environment may do.
Three scenarios also leave out a step of the system itself, which the others of
the same run take: `streams` and `backlog` of the worker run have no emergency,
and in `ungated` of the control run the engine neither pauses itself nor imports
a checkpoint. States are distinct states as TLC reports them, times those of two
workers.

| run | asks | states | time |
| --- | --- | --- | --- |
| `spsc_ring` | is the ring race free under stale reads, does a captured prefix pop, does it implement `FifoChannel` | 38,664 | 10 s |
| `report_queue` | does every report arrive, although a full ring parks the worker | 454 | 3 s |
| `rate_budget` | can a burst exceed twice the quota within an interval, can a rejection cost anything | 42,623 | 5 s |
| `worker` | can the intake be open without every client's newest stream applied, or a pause be undone; is every intent decided, does every recovery end | 93,297 | 50 s |
| `control` | what pause, resume, emergency stop and reconciliation promise, with ungated commands beside them; does the composition implement the worker's `Spec` | 230,664 | 45 s |
| `books` | do the three owners stay in step and is every possible execution reserved, through reports in any order, amendments and restarts | 128,756 | 55 s |
| `depth` | is the book the exchange's at its update id; does a replay decide as the live loop did | 123,282 | 15 s |
| `agent` | does a confirmed request wait exactly once, never run again once recorded, and finish, whoever dies where | 78,371 | 10 s |
| `spool` | what does the directory lose, does its limit hold between sessions, does it empty | 163,692 | 75 s |
| `release_budget` | can a restarted, overlapping or damaged publication overspend, repeat an exchange, or run dry | 128,372 | 20 s |
| `research` | is a settled task stopped and its create known, a create sent once, the concurrency limit kept; does a stopping task settle | 170,087 | 95 s |
| `spool_kept_doc` | a comment the code does not bear out (below) | violated | 2 s |

All passing runs pass. An invariant named `...Inv` is the conjunction of the
module's type invariant and the state invariants given with it below.

- `OpenIntakeIsHealthy`, `LatestStreamApplied`: the intake is open only with
  every latch clear and every client connected, past its barrier and applied;
  recovery ends only on acknowledgements of the newest generation.
- `AcknowledgedMeansApplied`: no marker is acknowledged over a failed report.
- `PauseOutlivesRecovery`: a recovery never reopens what an operator closed.
  `EveryIntentDecided`, `RecoveryCompletes`: neither waits for ever, although
  each recovery pass rejects one batch only.
- `ControlInv`: an intent that may still reach a venue holds its reservation
  (`UndecidedIsReserved`), and no leftover enabling command stands behind an
  emergency stop (`EmergencyWins`, and `EmergencyCloses` as its consequence over
  time). `PausedIntentsStayUnsent`: once a pause has returned, nothing enqueued
  before it is ever submitted. `SnapshotIsQuiet`: a guarded reconciliation sees
  a quiet venue. `HaltStopsTrading`: no resume in flight slips past a halt.
- `BooksInv`: a fill counts once (`CountedOnce`: the owners' own fill sets stand
  behind the bounded filter) and in both books (`BooksAgree`).
  `ExposureCovered`: while the engine admits intents, position plus reservations
  cover what the venue has executed and may still execute. `TradesReconciled`:
  a restarted process trades only when the owners agree on the open orders and
  the filter holds no key of an uncounted event. `TerminalStays`: no late report
  reopens an order. `FillsAccounted`, `QueuedSettles`: nothing waits for ever
  without recovery being demanded or the process being in restart.
- `LaneInv`: no gap passes the bridge, and the sequence guard moves with the
  book. `ReplayParity` holds because the live loop buffers exactly one diff; with
  `MaxBuffer = 2` it does not, as the bridge record then holds diffs the live
  lane skipped.
- `QueueInv`: `NothingLost` and `WaitsOnce`. `NothingLost` and `RequestsFinish`
  except a history with a malformed line (divergence 4 below), which stops every
  claim; `RecordedNeverRuns` holds even then.
- `SpoolInv`: a saved batch stays until the database has it or a limit took it,
  unless a drain met its file before it was complete (the history variable
  `early`); beyond those at most one batch is lost for each file operation that
  failed. `SpoolBounded`: the directory exceeds its limit by at most one file for
  each save that is under way, was cut off by a restart, or failed before it
  evicted. `SpoolEmpties`: every file leaves, also when the database never
  recovers.
- `BudgetInv`, `DamageIsFinal`: what is anchored is spent for good, and no
  exchange of a role's script is sent twice (`ExchangedOnce`: over all processes
  and restarts, each position of a script that exchanges is reached by at most
  one sent request). `NeverExhausted`: the formula of
  `publication_limits` covers every request of every phase.
- `TaskInv`: the fate of a create is known before its task settles, a result is
  the attempt's own, a cancellation is final. `SentOnce`. `SettledIsStopped` and
  `ProcessesBounded` speak of the tasks outside `overlapped`, whatever the ticks
  over the others do; for a task over which ticks overlapped the code does not
  ensure them (divergence 5 below). `StoppingSettles`: the code keeps the slot of
  a stopping task for good in two cases, both by design and both about its
  current attempt: the create's fate stays unknown, or the Job is retained
  without a pod that could show it stopped (somebody removed it, or the Job
  exceeded its active deadline before or while the pod ran).

Every property of a passing run has a mutant, a plausible bug in one mapped
definition that makes TLC report a violation of that property.

### Where code and comments differ

The run `spool_kept_doc` shows a defect. `SavedIsKept` with two sessions: a
drain deletes a spool file without a header (`spool.rs:218`); another session's
`save` may just have created it (`spool.rs:150`), and then fills a file that has
no name any more, while the comment at `spool.rs:171` says a file that did not
reach the database is kept.

Five more statements of comments or documents do not hold of the code. Each is a
definition at the end of its module or a property without its antecedent, and
TLC refutes it on the instance named here.

1. `WatermarkRejectsQueued` (`ExecutionWorker`, `Spec`, one client, two
   intents, batch 2, one stream generation, two events). The comment at
   `execution_worker.rs:2698` says that any intent queued before the applied
   stream watermark is stale and is drained. The drain covers the FIFO; an intent
   already popped into the batch when the recovery completes between two
   submissions is still submitted.
2. `PauseAckIsQuiescent` (the same instance with one command). The comment at `execution_worker.rs:2039` calls the pause
   acknowledgement a quiescence barrier after every queued intent was rejected.
   When the command is handled between two intents of a batch, the rest of the
   batch is still undecided at the acknowledgement. This fails closed:
   `PausedIntentsStayUnsent` holds.
3. `CommittedKeysAccepted` (`CanonicalBooks`, the instance of the run). The
   comment at `lib.rs:2334` commits a deduplication key only after both owners
   accepted the event. `import_portfolio_state` takes the keys of a checkpoint
   before the Portfolio has accepted it. This fails closed: `TradesReconciled`
   holds.
4. `ValidPrefixContinues` (`AgentQueue`, the instance of the run). The sidecar's
   README (63-66) promises that after a torn append the valid prefix continues.
   If the daemon tears its append to the history while the sidecar runs a batch,
   the sidecar's next append completes the fragment into a malformed line, and
   every later claim fails.
5. `SettledIsStopped` for every task, overlapped or not, and `RetryIsKept` (`ResearchTask`,
   two reconcilers on one task). `RESEARCH_FOUNDATION.md:136` asks for the
   create's outcome first and the absence of the resource after it; `stop` reads
   them in the other order (`execution.rs:780`, `801`). And a reconciler that
   finds its create unsent ends the task even if another has stopped the attempt
   and queued the retry meanwhile, because a queued retry still has the old
   attempt number (`service.rs:562`).

### Bounds

- *Ring*: four slots and six pushes wrap both indices, fill and empty the ring,
  and let a view be a whole lap old.
- *Report queue*: three slots, batches of two, eight reports: full rings,
  batches that end at the limit and ones that end on an empty ring.
- *Budget*: two accounts share an egress; intervals of two and three ticks over
  six ticks give late, early and coinciding refills.
- *Worker*: `commands` has an intent, an event, a command and emergencies;
  `recovery` two events and a command, so that a command falls anywhere in a
  recovery; `streams` an intent, two generations and three events, enough for a
  superseded generation whose acknowledgement arrives late; `backlog` two
  intents, two events and batches of one, the least FIFO longer than a batch. One
  client suffices for the liveness; that the safety properties hold for any
  number of clients is proved.
- *Control*: three commands cover a timed-out resume, its abort and an emergency
  stop or a pause (`operations`); two commands, of which cancellations and
  replacements may be any (`ungated`). One intent is enough for the properties
  about one intent. Streams are absent here. The safety properties are proved
  without these bounds.
- *Books*: two clients whose ids collide (one simulated, one not) for the
  attribution of reports (`reports`); one client with two fills, a fee, an
  amendment and a filter of one key for replays (`amendments`); one crash between
  any two saves (`restart`). `MaxRevision` bounds how often one amendment's
  report is applied.
- *Depth*: three changes over two prices, a snapshot of one level: a lost diff
  before, inside and after the bridge, a stale snapshot, a cut book. The live
  loop's buffer of one diff is the bound `MaxBuffer`.
- *Agent queue*: two requests, two retries, three deaths.
- *Spool*: a limit of one file. `restart`, `error` and `answer` have two sessions
  with two batches, and one restart, one failing file operation, or answers of
  the database that get lost, so that a session measures, lists or evicts the
  other's file at each of its steps; `limit` has three batches of one session.
- *Release budget*: two processes, six starts, two faults; one program and one
  build, so that each kind of request occurs. The code's size constants keep
  their order.
- *Research*: `failures` (one task, two attempts, everything the provider does,
  the exceeded deadline of a Job included),
  `operators` (cancel, revoke, pause), `slots` (two tasks of both backends and a
  limit of one) and `race` (two reconcilers on one task, through lapsed leases).

Deadlock is checked in the ring, queue, budget, worker, control and spool runs.
The other systems may come to rest (an ended feed, a settled task, a finished
publication, an order that is done), so their runs do not check it.

### Fairness

- `FairSpec` of the worker: its task and the engine's report drain keep running
  (both are loops with timers, so neither waits for an event alone). Strong
  fairness of `RecoveryPass`: while a recovery is ready the retry timer keeps
  firing and the venue eventually returns a matching snapshot. The last part is
  an assumption about the venue; without it the code retries for ever.
- `ControlFairSpec`: the worker's task keeps running; the handle may stop at any
  await.
- `ReportQueue`: both tasks are scheduled. Producing a report is not fair. The
  engine's wake-up needs no notification because its wait has a backoff timer.
- `CanonicalBooks`: the worker's loop and the engine's drain run, and the private
  stream delivers each fill at least once (reconnects replay it).
- `AgentQueue`: daemon and sidecar keep running after a bounded number of
  deaths. `Claim` and `Requeue` are strongly fair, as the file lock they wait
  for is released again and again.
- `CollectorSpool`: every session goes on flushing, and time passes. The
  database need not recover.
- `ResearchTask`: one reconciler ticks on its timer, the API server answers, the
  job controller and the garbage collector act. The other reconciler may stop,
  and workers need not make progress.

## Proofs

TLAPS proves the following for every value of the constants that satisfies the
named assumptions (positive capacities and batch sizes, natural bounds).

- **SpscRingProofs** (`CapacityAssumption`, `NoneAssumption`). `Inv` is
  inductive: the indices are the wrapped counts of published and returned items
  (`IndexInv`), each side's view is a past value whose branch still holds
  (`ViewInv`), and the slots hold exactly the items in flight (`SlotInv`). The
  views are needed because the branch was taken on a stale value. From it:
  race freedom, ordered reuse, prefix pops, FIFO, and that the ring implements
  `FifoChannel`.
- **ExecutionWorkerProofs** (`BatchAssumption`, `BoundAssumption`).
  `OpenIntakeIsHealthy` is not inductive: it does not say why a stream without a
  barrier was applied. `IntakeInv` adds that a worker not recovering is
  synchronised (`Latched`) and that the newest generation of each client is
  behind its barrier, awaited, or acknowledged (`Tracked`). Each handler is
  shown once to lead from a sound record to a sound one (`Follows`), and each
  action composes them. From it: `OpenIntakeIsHealthy`, `LatestStreamApplied`,
  `EmergencyIsFinal`, `PauseOutlivesRecovery`; with `FaultHalts`,
  `AcknowledgedMeansApplied`; and with `TypeInv`, `TypeOK`.
- **ReportQueueProofs** (`QueueAssumption`). `NoLostWakeup` needs
  `WakeupKept`: between the refused send and the wait a whole batch may pass,
  and its notification is then the permit. Also `Lossless`.
- **RateBudgetProofs** (`ScopeAssumption`, `QuotaAssumption`). No bucket leaves
  `0..Quota`, because both dimensions are examined before either pays; and a
  rejected request leaves unchanged what every bucket offers. For
  `PacedAdmissions`, `PaceInv` adds that the admissions since the last refill are
  what the quota lacks, that the interval before the refill admitted at most a
  quota, and that none is later than the interval the refill opened: a window
  that straddles a refill then gets a quota from either side. Sums over instants
  are handled by `SumTheorems`, which shows that the fold does not depend on the
  order in which it picks.
- **ExecutionControlProofs** (the worker's assumptions, `UngatedAssumption`).
  `ControlImplementsWorker`: the composition implements the worker's `Spec`, so
  what is proved of the worker holds in it. `WorkerInv` adds to the worker's
  invariants that an intent is in one place only and that commands and replies
  stay in step. `PlaneInv` is inductive with it: whenever an emergency, a
  returned pause or a guarded reconciliation requires it, the intake is shut or
  the command that shuts it is queued with no enabling command behind it. The
  position in the FIFO is needed because a timed-out command stays queued. From
  it: `HaltStopsTrading`, `ControlInv`, `PausedIntentsStayUnsent`,
  `SnapshotIsQuiet`.
- **ResearchTaskProofs** (`ResearchAssumption`). `JournalInv` follows each create
  operation: it leaves `not_started` once, for the one reconciler that is then
  between its permit and the request (`OneSender`), and stays `pending` until the
  provider has answered; each reconciler's place is justified by what it read
  (`Justified`). From it: `SentOnce` and `TaskInv`, for any number of
  reconcilers, overlapping or not.
- **ResearchStopProofs** (`ResearchAssumption`). `TickInv` says of every task
  outside `overlapped` that what runs belongs to the attempt that holds the slot,
  and that what its reconciler has verified on the way to a stop still holds;
  a second reconciler on the task would break this last part. `CapacityInv`: the claims in
  being never exceed the limit. From them: `SettledIsStopped` and
  `ProcessesBounded`.

Proved and not repeated as a TLC run are the ring's `Inv`, `SlotReuseOrdered` and
`ReceivedIsPrefix`, the worker's `TypeOK` and `EmergencyIsFinal`, the report
queue's `Lossless` and `NoLostWakeup`, the budget's `TypeOK`, and the inductive
invariants of the last three modules.

Checked by TLC only: every liveness property and `EmergencyCloses` (fairness and
ENABLED are outside the prover), and everything about `CanonicalBooks`,
`DepthLane`, `CollectorSpool`, `AgentQueue` and `ReleaseBudget`.

## What is abstracted or left out

- Prices, sizes and the contents of orders; which order a fill belongs to. A
  private order event is only: harmless, requires recovery, or latches.
- In `ExecutionWorker`, `OrderEvent` only says whether the event overfills its
  order; which kinds of event end an acknowledgement wait is not told apart.
- The comparison of a venue snapshot with local state is one nondeterministic
  verdict.
- Stream generations are unique over the process, as the adapter draws them from
  one counter (`adapter-polymarket`, `next_execution_stream_id`); this is taken as
  given.
- The report FIFO is unbounded in `ExecutionWorker`; `ReportQueue` justifies it.
- A worker without any client.
- In `ExecutionWorker` and `ExecutionControl`, how a report changes the books;
  `CanonicalBooks` models that, and abstracts the worker in turn.
- In `CanonicalBooks`: prices, sides, notional contracts, the account identity
  map, `OrderCompleted`, the statuses Unknown, Accepted, Expired and Replaced, and
  the bootstrap of an empty account. What the venue may deliver (`Deliverable`,
  `Placed`) is a venue in general, with the client's id on its order events. An
  event without one, as the simulated venue of `system_builder` sends on
  placement, sets `recovery_required` (`risk_reservations.rs:422`) and binds or
  releases no reservation. `Bind` is therefore taken with an id only, and the
  identity checks on a local order (`identity_matches`), which refuse more, are
  left out.
- In `CollectorSpool`: errors of metadata and directory listing calls.
- In `DepthLane`: parsing, signals, and the second side of the book.
- In `AgentQueue`: loss of power (the code claims nothing for it) and the agent
  session that a run starts.
- In `ResearchTask`: CexCampaign tasks, which create a second resource, and the
  equality of lease texts in `launched`, which is over-approximated.
- In `ReleaseBudget`: header, binding and policy validation, which compare values
  no step changes, and the refusals of a ledger that reaches `LEDGER_LIMIT`
  (2 MiB): a full ledger anchors nothing more, so nothing more is sent.
- Logging, metrics, alerts and latency bookkeeping.

## Not modelled

The repository has about 579,000 lines of implementation; the models cover its
stateful concurrent protocols, not its bulk. Left out, with the reason:

- *Pure computation over data*: strategies, indicators, alpha harness search and
  evaluation, backtests, feature pipelines, valuation. Their correctness is
  numeric, and a bounded model of it would say little.
- *Wire formats and I/O*: venue and market-data adapters, IPC and HTTP surfaces,
  object storage, Redis and ClickHouse clients. The models take from them which
  answers, losses and orders of events can occur.
- *Immutable documents*: governance contracts, policy and release validation.
- *The rest of the prediction-market application*: 166,000 lines with an engine
  of its own, of which only the agent run queue is modelled.
- *Assembly*: configuration, builders, command lines, deployment scripts.
