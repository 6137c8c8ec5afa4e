----------------------------- MODULE AgentQueue -----------------------------
(***************************************************************************)
(* The file-backed queue of agent runs between new-ployd, which appends    *)
(* requests, and ploy-agent-sidecar, which claims, runs, retries and       *)
(* records them.  Either process may die at any step, in particular inside *)
(* an append: the file then ends in a fragment ("torn") or in a complete   *)
(* record without its newline ("bare").                                    *)
(*                                                                         *)
(* A critical section of the run history's lock is one step.  The request  *)
(* file's lock, held over several steps, is a variable.  Synced data       *)
(* survives; the loss of power is outside the code's claims.               *)
(***************************************************************************)
EXTENDS Integers, Sequences, FiniteSets, SequencesExt

CONSTANTS
  Run,           \* run ids, each used by one request
  MaxRetries,    \* SIDECAR_AGENT_RUN_MAX_RETRIES
  MaxCrashes     \* bound: deaths of either process

ASSUME QueueAssumption == MaxRetries \in Nat /\ MaxCrashes \in Nat

VARIABLES
  requests,    \* agent-run-requests.jsonl
  inProgress,  \* agent-run-requests.in-progress.jsonl
  runs,        \* agent-runs.jsonl: terminal attempts, its tail, a bad line
  lock,        \* holder of the request file's lock
  daemon,      \* the daemon's handler: step and run
  handle,      \* the file the daemon has open for its append, wherever it is now
  accepted,    \* history: runs whose request the daemon confirmed
  pc,          \* the sidecar's next step
  batch,       \* the requests of its ClaimedBatch still to run
  result,      \* outcome of the current run
  crashes

files == <<requests, inProgress, runs>>
sidecar == <<pc, batch, result>>
vars == <<files, lock, daemon, handle, accepted, sidecar, crashes>>

NoFile == [exists |-> FALSE, lines |-> <<>>, tail |-> "none"]
FileOf(lines) == [exists |-> TRUE, lines |-> lines, tail |-> "none"]
Key == [run : Run, attempt : 0..MaxRetries]

(* parse_jsonl_with_tail_repair: a fragment goes to quarantine, a bare     *)
(* record gets its newline.                                                *)
Repaired(file) == [file EXCEPT !.tail = "none"]

(* An open file follows a rename, and is lost when its name is taken by    *)
(* another file or removed.                                                *)
Renamed(from, to) == handle' = IF handle = from THEN to ELSE handle
Replaced(name) == Renamed(name, "none")

AppendLine(file, key) == FileOf(Append(file.lines, key))

(* What a death inside an append may leave of the file.                    *)
TornAppends(file, key) ==
  {file,
   [file EXCEPT !.exists = TRUE, !.tail = "torn"],
   [exists |-> TRUE, lines |-> Append(file.lines, key), tail |-> "bare"]}

Finished(key) == \E outcome \in {"done", "retry"} : <<key, outcome>> \in runs.terminal

----------------------------------------------------------------------------
(* new-ployd: queue_agent_run_request.                                     *)

NoDaemon == [step |-> "idle"]

DaemonLock(r) ==
  /\ daemon = NoDaemon /\ lock = "free" /\ lock' = "daemon"
  /\ \A key \in Key : key.run = r =>
       key \notin ToSet(requests.lines) \cup ToSet(inProgress.lines) /\ ~Finished(key)
  /\ daemon' = [step |-> "request", run |-> r]
  /\ UNCHANGED <<files, handle, accepted, sidecar, crashes>>

(* It refuses to append after a fragment and completes a bare record.      *)
DaemonOpens ==
  /\ daemon.step = "request"
  /\ IF requests.tail = "torn"
       THEN daemon' = NoDaemon /\ lock' = "free" /\ UNCHANGED <<requests, handle>>
       ELSE /\ requests' = FileOf(requests.lines) /\ handle' = "requests"
            /\ daemon' = [daemon EXCEPT !.step = "append"]
            /\ UNCHANGED lock
  /\ UNCHANGED <<inProgress, runs, accepted, sidecar, crashes>>

Request == [run |-> daemon.run, attempt |-> 0]

DaemonAppendsRequest ==
  /\ daemon.step = "append" /\ daemon' = [daemon EXCEPT !.step = "history"]
  /\ requests' = IF handle = "requests" THEN AppendLine(requests, Request) ELSE requests
  /\ inProgress' = IF handle = "inProgress" THEN AppendLine(inProgress, Request) ELSE inProgress
  /\ handle' = "none"
  /\ UNCHANGED <<runs, lock, accepted, sidecar, crashes>>

DaemonAppendsHistory ==
  /\ daemon.step = "history"
  /\ IF runs.tail = "torn" THEN UNCHANGED <<runs, accepted>>
     ELSE runs' = [runs EXCEPT !.tail = "none"] /\ accepted' = accepted \cup {daemon.run}
  /\ daemon' = NoDaemon /\ lock' = "free"
  /\ UNCHANGED <<requests, inProgress, handle, sidecar, crashes>>

DaemonDies ==
  /\ daemon # NoDaemon /\ crashes < MaxCrashes
  /\ IF daemon.step = "append" /\ handle = "requests"
       THEN requests' \in TornAppends(requests, Request) ELSE UNCHANGED requests
  /\ IF daemon.step = "append" /\ handle = "inProgress"
       THEN inProgress' \in TornAppends(inProgress, Request) ELSE UNCHANGED inProgress
  /\ IF daemon.step = "history" /\ runs.tail # "torn"
       THEN runs' \in {runs, [runs EXCEPT !.tail = "torn"], [runs EXCEPT !.tail = "bare"]}
       ELSE UNCHANGED runs
  /\ daemon' = NoDaemon /\ lock' = "free" /\ handle' = "none" /\ crashes' = crashes + 1
  /\ UNCHANGED <<accepted, sidecar>>

----------------------------------------------------------------------------
(* ploy-agent-sidecar: run_cycle.                                          *)

(* Mutant: the request file is claimed without its lock.                   *)
MutantClaim ==
  /\ pc = "idle"
  /\ \/ inProgress.exists /\ UNCHANGED <<requests, inProgress, handle>>
     \/ /\ ~inProgress.exists /\ requests.exists
        /\ inProgress' = requests /\ requests' = NoFile /\ Renamed("requests", "inProgress")
  /\ pc' = "reading"
  /\ UNCHANGED <<runs, lock, daemon, accepted, batch, result, crashes>>

(* claim: an unfinished claim comes before the queue.                      *)
Claim ==
  /\ pc = "idle" /\ lock = "free"
  /\ \/ inProgress.exists /\ UNCHANGED <<requests, inProgress, handle>>
     \/ /\ ~inProgress.exists /\ requests.exists
        /\ inProgress' = requests /\ requests' = NoFile /\ Renamed("requests", "inProgress")
  /\ pc' = "reading" /\ lock' = "sidecar"
  /\ UNCHANGED <<runs, daemon, accepted, batch, result, crashes>>

(* Mutant: a recovered claim is run again whatever the history says.       *)
MutantUnfinished(key) == TRUE

Unfinished(key) == ~Finished(key)

(* read_claimed_batch: a malformed complete line fails the whole claim.    *)
ReadBatch ==
  /\ pc = "reading" /\ lock' = IF lock = "sidecar" THEN "free" ELSE lock
  /\ IF runs.malformed
       THEN pc' = "idle" /\ UNCHANGED <<runs, inProgress, handle, batch>>
       ELSE /\ runs' = [runs EXCEPT !.tail = "none"]
            /\ inProgress' = Repaired(inProgress)
            /\ IF inProgress.tail = "none" THEN UNCHANGED handle ELSE Replaced("inProgress")
            /\ batch' = SelectSeq(inProgress.lines, Unfinished)
            /\ pc' = "running"
  /\ UNCHANGED <<requests, daemon, accepted, result, crashes>>

(* The model's answer: the run is finished, or asks to be retried while    *)
(* retries are left.                                                       *)
RunRequest ==
  /\ pc = "running" /\ batch # <<>>
  /\ \/ result' = "done" /\ pc' = "record"
     \/ /\ Head(batch).attempt + 1 <= MaxRetries
        /\ result' = "retry" /\ pc' = "requeue"
  /\ UNCHANGED <<files, lock, daemon, handle, accepted, batch, crashes>>

Retry == [Head(batch) EXCEPT !.attempt = @ + 1]

(* requeue: the retry of an attempt that was requeued before is not        *)
(* appended again.                                                         *)
Requeue ==
  /\ pc = "requeue" /\ lock = "free" /\ pc' = "record"
  /\ requests' = IF Retry \in ToSet(requests.lines) THEN Repaired(requests)
                 ELSE AppendLine(Repaired(requests), Retry)
  /\ IF requests.tail = "none" THEN UNCHANGED handle ELSE Replaced("requests")
  /\ UNCHANGED <<inProgress, runs, lock, daemon, accepted, batch, result, crashes>>

(* record_run appends without looking at the file's tail: after a fragment *)
(* or a bare record, the two make one malformed line.                      *)
Recorded(entry) ==
  IF runs.tail = "none" THEN [runs EXCEPT !.terminal = @ \cup {entry}]
  ELSE [runs EXCEPT !.tail = "none", !.malformed = TRUE]

(* Mutant: the outcome is not recorded.                                    *)
MutantRecordRun ==
  /\ pc = "record" /\ pc' = "complete"
  /\ UNCHANGED <<files, lock, daemon, handle, accepted, batch, result, crashes>>

RecordRun ==
  /\ pc = "record" /\ pc' = "complete"
  /\ runs' = Recorded(<<Head(batch), result>>)
  /\ UNCHANGED <<requests, inProgress, lock, daemon, handle, accepted, batch, result, crashes>>

Complete ==
  /\ pc = "complete" /\ pc' = "running"
  /\ batch' = Tail(batch)
  /\ inProgress' = IF batch' = <<>> THEN NoFile ELSE FileOf(batch')
  /\ Replaced("inProgress")
  /\ UNCHANGED <<requests, runs, lock, daemon, accepted, result, crashes>>

Acknowledge ==
  /\ pc = "running" /\ batch = <<>> /\ pc' = "idle"
  /\ inProgress' = NoFile /\ Replaced("inProgress")
  /\ UNCHANGED <<requests, runs, lock, daemon, accepted, batch, result, crashes>>

(* The process dies, or a step fails and the cycle is abandoned.           *)
SidecarDies ==
  /\ pc # "idle" /\ crashes < MaxCrashes /\ crashes' = crashes + 1
  /\ IF pc = "requeue" /\ Retry \notin ToSet(requests.lines)
       THEN requests' \in TornAppends(Repaired(requests), Retry)
       ELSE UNCHANGED requests
  /\ IF pc = "record" /\ runs.tail = "none"
       THEN runs' \in {runs, [runs EXCEPT !.tail = "torn"],
                       [runs EXCEPT !.tail = "bare",
                                    !.terminal = @ \cup {<<Head(batch), result>>}]}
       ELSE UNCHANGED runs
  /\ pc' = "idle" /\ batch' = <<>> /\ result' = "none"
  /\ lock' = IF lock = "sidecar" THEN "free" ELSE lock
  /\ UNCHANGED <<inProgress, daemon, handle, accepted>>

----------------------------------------------------------------------------
Init ==
  /\ requests = NoFile /\ inProgress = NoFile
  /\ runs = [terminal |-> {}, tail |-> "none", malformed |-> FALSE]
  /\ lock = "free" /\ daemon = NoDaemon /\ handle = "none" /\ accepted = {}
  /\ pc = "idle" /\ batch = <<>> /\ result = "none" /\ crashes = 0

SidecarStep ==
  \/ Claim \/ ReadBatch \/ RunRequest \/ Requeue \/ RecordRun \/ Complete \/ Acknowledge

DaemonStep == DaemonOpens \/ DaemonAppendsRequest \/ DaemonAppendsHistory

Next ==
  \/ \E r \in Run : DaemonLock(r)
  \/ DaemonStep \/ DaemonDies
  \/ SidecarStep \/ SidecarDies

Spec == Init /\ [][Next]_vars

(* The sidecar polls for ever.  A lock that is free again and again is     *)
(* granted: the steps that wait for it get strong fairness.                *)
LiveSpec ==
  /\ Spec
  /\ WF_vars(DaemonStep) /\ WF_vars(SidecarStep)
  /\ SF_vars(Claim) /\ SF_vars(Requeue)

----------------------------------------------------------------------------
Waiting == ToSet(requests.lines) \cup ToSet(inProgress.lines)

(* No attempt beyond SIDECAR_AGENT_RUN_MAX_RETRIES is ever queued.         *)
TypeOK ==
  /\ Waiting \subseteq Key /\ ToSet(batch) \subseteq Key
  /\ {requests.tail, inProgress.tail, runs.tail} \subseteq {"none", "torn", "bare"}
  /\ lock \in {"free", "daemon", "sidecar"} /\ handle \in {"none", "requests", "inProgress"}
  /\ pc \in {"idle", "reading", "running", "requeue", "record", "complete"}

(* Wherever a process dies, a confirmed request is waiting or has been     *)
(* run, and a run that asked for a retry has its retry waiting or run      *)
(* (finalize_needs_retry requeues before it records).  A malformed line    *)
(* has swallowed an outcome and stops every claim.                         *)
NothingLost ==
  \/ runs.malformed
  \/ /\ \A r \in accepted : \E key \in Key :
          key.run = r /\ (key \in Waiting \/ Finished(key))
     /\ \A key \in Key : <<key, "retry">> \in runs.terminal =>
          LET next == [key EXCEPT !.attempt = @ + 1] IN next \in Waiting \/ Finished(next)

(* No attempt waits twice, and none waits in the queue once it was run     *)
(* (requeue looks for the retry before it appends it).                     *)
WaitsOnce ==
  LET waiting == requests.lines \o inProgress.lines
  IN /\ Cardinality(ToSet(waiting)) = Len(waiting)
     /\ \A key \in ToSet(requests.lines) : ~Finished(key)

(* The files between any two steps, whoever died: each confirmed request   *)
(* waits exactly once until it was run.                                    *)
QueueInv == TypeOK /\ NothingLost /\ WaitsOnce

(* An attempt whose outcome is recorded never runs again                   *)
(* (read_claimed_batch drops what the history calls terminal).             *)
RecordedNeverRuns ==
  [][pc = "running" /\ pc' \in {"requeue", "record"} => ~Finished(Head(batch))]_vars

(* Every confirmed request comes to an outcome other than a retry, through *)
(* every requeue of run_cycle, unless a malformed line inside the run      *)
(* history stops the claims: the sidecar's own append completes a fragment *)
(* that the daemon left after the sidecar had read the history.            *)
RequestsFinish ==
  \A r \in Run : r \in accepted ~>
    \/ \E key \in Key : key.run = r /\ <<key, "done">> \in runs.terminal
    \/ runs.malformed

(* The sidecar's README: after an interrupted append the valid prefix of   *)
(* the run history goes on being read.  The code does not meet it.         *)
ValidPrefixContinues == ~runs.malformed
====
