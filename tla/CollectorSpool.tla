--------------------------- MODULE CollectorSpool ---------------------------
(***************************************************************************)
(* The collector's spool directory: batches the database did not take are  *)
(* written to files, bounded in size and age, and replayed after a later   *)
(* flush.  All exchange sessions of the process share the directory and    *)
(* nothing locks it, so the file operations of two sessions interleave.    *)
(*                                                                         *)
(* A batch stands for its rows and its file.  fs::write creates the file   *)
(* empty, may write part of it, and completes it, in steps others can see. *)
(* A file that has contents, in part or whole, weighs one.  Every file     *)
(* operation may fail.                                                     *)
(***************************************************************************)
EXTENDS Integers, Sequences, FiniteSets, SequencesExt

CONSTANTS
  Session,     \* tasks running run_exchange_session
  Batch,       \* batches whose first insert fails
  MaxFiles,    \* COLLECTOR_SPOOL_MAX_BYTES
  DrainLimit,  \* COLLECTOR_SPOOL_DRAIN_LIMIT
  MaxCrashes,  \* bound: restarts of the collector
  MaxErrors    \* bound: file operations that fail

ASSUME SpoolAssumption ==
  /\ MaxFiles \in Nat /\ DrainLimit \in Nat
  /\ MaxCrashes \in Nat /\ MaxErrors \in Nat

VARIABLES
  spool,      \* the files' names, oldest modification first
  full,       \* the files whose contents are complete
  part,       \* the files with some of their contents
  old,        \* the files older than the time to live
  db,         \* the batches in the database
  task,       \* per session: step, batch to save, listing, size measured, files tried
  saved,      \* history: batches for which save returned success
  dropped,    \* history: files deleted for size or for age
  early,      \* history: files a drain met before they were complete
  unevicted,  \* history: number of saves that ended before they evicted
  crashes,
  errors

files == <<spool, full, part, old>>
history == <<saved, dropped, early, unevicted>>
vars == <<files, db, task, history, crashes, errors>>

Idle == [step |-> "idle", batch |-> {}, listing |-> <<>>, size |-> 0, tried |-> 0]
Saving == UNION {task[s].batch : s \in Session}
Fresh == Batch \ (db \cup saved \cup dropped \cup early \cup ToSet(spool) \cup Saving)

Size == Cardinality(full \cup part)

Fails == errors < MaxErrors /\ errors' = errors + 1

(* remove_file of a file that may be gone.                                 *)
RemoveFile(b) ==
  /\ spool' = Remove(spool, b)
  /\ full' = full \ {b} /\ part' = part \ {b} /\ old' = old \ {b}

(* The result of remove_file is ignored.                                   *)
TryRemoveFile(b) ==
  \/ RemoveFile(b) /\ UNCHANGED errors
  \/ b \in ToSet(spool) /\ Fails /\ UNCHANGED files

Removed == ToSet(spool) \ ToSet(spool')

Goto(s, step) == task' = [task EXCEPT ![s].step = step]

(* A database call: taken and confirmed, refused, or taken although the    *)
(* answer was lost or came after the timeout.                              *)
InsertOk(b) == db' = db \cup {b}
InsertFails(b) == db' \in {db, db \cup {b}}

----------------------------------------------------------------------------
(* flush_data: rows the database takes need no spool; a batch it does not  *)
(* confirm is saved; the spool is drained in either case.                  *)
FlushTaken(s) ==
  /\ task[s].step = "idle" /\ Goto(s, "list")
  /\ UNCHANGED <<files, db, history, crashes, errors>>

(* One table of the flush, or the next one before the spool is drained.    *)
FlushFails(s) == \E b \in Fresh :
  /\ task[s].step \in {"idle", "list"} /\ InsertFails(b)
  /\ task' = [task EXCEPT ![s].step = "create", ![s].batch = {b}]
  /\ UNCHANGED <<files, history, crashes, errors>>

(* save, in the steps other sessions can see.                              *)
CreateFile(s) == \E b \in task[s].batch :
  /\ task[s].step = "create" /\ Goto(s, "write")
  /\ spool' = Append(spool, b)
  /\ UNCHANGED <<full, part, old, db, history, crashes, errors>>

(* Writing makes a file the most recently modified one.                    *)
WritePart(s) == \E b \in task[s].batch \cap ToSet(spool) :
  /\ task[s].step = "write" /\ b \notin part
  /\ spool' = Append(Remove(spool, b), b) /\ part' = part \cup {b}
  /\ UNCHANGED <<full, old, db, task, history, crashes, errors>>

(* The contents reach the file only if nobody has unlinked it.             *)
WriteFile(s) == \E b \in task[s].batch :
  /\ task[s].step = "write" /\ Goto(s, "measure")
  /\ IF b \in ToSet(spool)
       THEN /\ spool' = Append(Remove(spool, b), b)
            /\ full' = full \cup {b} /\ part' = part \ {b}
       ELSE UNCHANGED <<spool, full, part>>
  /\ saved' = saved \cup {b}
  /\ UNCHANGED <<old, db, dropped, early, unevicted, crashes, errors>>

(* save returns the error of creating or writing the file, which stays as  *)
(* it is, and nothing is evicted; flush_data ignores the error.            *)
SaveFails(s) ==
  /\ task[s].step \in {"create", "write"} /\ Fails
  /\ task' = [task EXCEPT ![s].step = "list", ![s].batch = {}]
  /\ unevicted' = unevicted + 1
  /\ UNCHANGED <<files, db, saved, dropped, early, crashes>>

(* Mutant: the size cap is checked one file late.                          *)
MutantMeasure(s) ==
  /\ task[s].step = "measure"
  /\ task' = [task EXCEPT ![s] = IF Size > MaxFiles + 1
                                THEN [Idle EXCEPT !.step = "evict", !.size = Size, !.listing = spool]
                                ELSE [Idle EXCEPT !.step = "list"]]
  /\ UNCHANGED <<files, db, history, crashes, errors>>

Measure(s) ==
  /\ task[s].step = "measure"
  /\ task' = [task EXCEPT ![s] = IF Size > MaxFiles
                                THEN [Idle EXCEPT !.step = "evict", !.size = Size, !.listing = spool]
                                ELSE [Idle EXCEPT !.step = "list"]]
  /\ UNCHANGED <<files, db, history, crashes, errors>>

(* Delete the oldest files of the listing until the size measured before,  *)
(* less what this task deleted or failed to delete, is within the cap.     *)
EvictNext(s) ==
  /\ task[s].step = "evict"
  /\ IF task[s].size <= MaxFiles \/ task[s].listing = <<>>
       THEN /\ task' = [task EXCEPT ![s] = [Idle EXCEPT !.step = "list"]]
            /\ UNCHANGED <<files, dropped, unevicted, errors>>
       ELSE LET b == Head(task[s].listing) IN
            /\ task' = [task EXCEPT ![s].listing = Tail(@),
                                    ![s].size = IF b \in full \cup part THEN @ - 1 ELSE @]
            /\ TryRemoveFile(b)
            /\ dropped' = dropped \cup Removed
            /\ unevicted' = unevicted + errors' - errors
  /\ UNCHANGED <<db, saved, early, crashes>>

----------------------------------------------------------------------------
(* drain.                                                                  *)
ListFiles(s) ==
  /\ task[s].step = "list"
  /\ task' = [task EXCEPT ![s].step = "drain", ![s].listing = spool, ![s].tried = 0]
  /\ UNCHANGED <<files, db, history, crashes, errors>>

Tried(s) == [task[s] EXCEPT !.step = "drain", !.listing = Tail(@), !.tried = @ + 1]

DrainEnds(s) ==
  /\ task[s].step = "drain" /\ (task[s].listing = <<>> \/ task[s].tried >= DrainLimit)
  /\ task' = [task EXCEPT ![s] = Idle]
  /\ UNCHANGED <<files, db, history, crashes, errors>>

Draining(s) == task[s].step = "drain" /\ task[s].listing # <<>> /\ task[s].tried < DrainLimit

(* Mutant: an expired file is passed over, not deleted.                    *)
MutantDrainExpired(s) ==
  /\ Draining(s) /\ Head(task[s].listing) \in old
  /\ task' = [task EXCEPT ![s] = Tried(s)]
  /\ UNCHANGED <<files, db, history, crashes, errors>>

(* A file past its time to live is deleted.                                *)
DrainExpired(s) == LET b == Head(task[s].listing) IN
  /\ Draining(s) /\ b \in old
  /\ task' = [task EXCEPT ![s] = Tried(s)]
  /\ TryRemoveFile(b) /\ dropped' = dropped \cup Removed
  /\ UNCHANGED <<db, saved, early, unevicted, crashes>>

(* A complete file is read; of an incomplete one the decoder may return a  *)
(* part, which is replayed as if it were the batch.                        *)
DrainReads(s) == LET b == Head(task[s].listing) IN
  /\ Draining(s) /\ b \in (full \cup part) \ old
  /\ Goto(s, IF b \in full THEN "replay" ELSE "replay_part")
  /\ early' = early \cup ({b} \cap part)
  /\ UNCHANGED <<files, db, saved, dropped, unevicted, crashes, errors>>

(* A file that cannot be opened or decoded, or in which no header or no    *)
(* row is found, is deleted: one that is not complete yet, and one whose   *)
(* opening or reading fails.                                               *)
DrainDeletes(s) == LET b == Head(task[s].listing) IN
  /\ Draining(s) /\ b \notin old
  /\ task' = [task EXCEPT ![s] = Tried(s)]
  /\ \/ b \notin full /\ TryRemoveFile(b)
     \/ b \in full /\ Fails /\ RemoveFile(b)
  /\ early' = early \cup ({b} \cap (ToSet(spool) \ full))
  /\ UNCHANGED <<db, saved, dropped, unevicted, crashes>>

(* Mutant: the file is deleted before the database confirmed the batch.    *)
MutantReplayOk(s) == LET b == Head(task[s].listing) IN
  /\ task[s].step \in {"replay", "replay_part"} /\ UNCHANGED db
  /\ task' = [task EXCEPT ![s] = Tried(s)]
  /\ TryRemoveFile(b) /\ UNCHANGED <<history, crashes>>

ReplayOk(s) == LET b == Head(task[s].listing) IN
  /\ task[s].step \in {"replay", "replay_part"}
  /\ IF task[s].step = "replay" THEN InsertOk(b) ELSE UNCHANGED db
  /\ task' = [task EXCEPT ![s] = Tried(s)]
  /\ TryRemoveFile(b) /\ UNCHANGED <<history, crashes>>

(* The first batch the database does not confirm ends the drain.           *)
ReplayFails(s) == LET b == Head(task[s].listing) IN
  /\ task[s].step \in {"replay", "replay_part"}
  /\ IF task[s].step = "replay" THEN InsertFails(b) ELSE UNCHANGED db
  /\ task' = [task EXCEPT ![s] = Idle]
  /\ UNCHANGED <<files, history, crashes, errors>>

----------------------------------------------------------------------------
(* The time to live of a file that nobody is writing passes.               *)
Expire == \E b \in ToSet(spool) \ (old \cup Saving) :
  /\ old' = old \cup {b}
  /\ UNCHANGED <<spool, full, part, db, task, history, crashes, errors>>

InSave(s) == task[s].step \in {"create", "write", "measure", "evict"}

Crash ==
  /\ crashes < MaxCrashes /\ crashes' = crashes + 1
  /\ \E s \in Session : task[s] # Idle
  /\ task' = [s \in Session |-> Idle]
  /\ unevicted' = unevicted + Cardinality({s \in Session : InSave(s)})
  /\ UNCHANGED <<files, db, saved, dropped, early, errors>>

Init ==
  /\ spool = <<>> /\ full = {} /\ part = {} /\ old = {} /\ db = {}
  /\ saved = {} /\ dropped = {} /\ early = {} /\ unevicted = 0
  /\ task = [s \in Session |-> Idle] /\ crashes = 0 /\ errors = 0

Step(s) ==
  \/ FlushTaken(s) \/ CreateFile(s) \/ WriteFile(s) \/ Measure(s) \/ EvictNext(s)
  \/ ListFiles(s) \/ DrainEnds(s) \/ DrainExpired(s) \/ DrainReads(s) \/ DrainDeletes(s)
  \/ ReplayOk(s) \/ ReplayFails(s)

Next ==
  \/ Expire \/ Crash
  \/ \E s \in Session : Step(s) \/ FlushFails(s) \/ WritePart(s) \/ SaveFails(s)

Spec == Init /\ [][Next]_vars

(* Every session keeps flushing, as its flush timer makes it while data    *)
(* arrives, and time passes.                                               *)
LiveSpec == Spec /\ (\A s \in Session : WF_vars(Step(s))) /\ WF_vars(Expire)

----------------------------------------------------------------------------
(* A name is in the directory once, a file is complete or not, and a drain *)
(* tries at most COLLECTOR_SPOOL_DRAIN_LIMIT files.                        *)
TypeOK ==
  /\ IsInjective(spool) /\ ToSet(spool) \subseteq Batch
  /\ full \cup part \cup old \subseteq ToSet(spool) /\ full \cap part = {}
  /\ db \cup saved \cup dropped \cup early \subseteq Batch
  /\ \A s \in Session : task[s].size \in Nat /\ task[s].tried \in 0..DrainLimit

Kept == db \cup dropped \cup full

(* Once spool::save has returned, the batch is in its file until the       *)
(* database has it or the cap or the time to live took it, whatever the    *)
(* other sessions measure, evict and replay.  A batch is lost only if a    *)
(* drain met its file before spool::save had completed it; beyond those,   *)
(* at most one for each file operation that failed, as spool::drain        *)
(* deletes a file it cannot read.                                          *)
LostOnlyUnread == Cardinality(saved \ (early \cup Kept)) <= errors

(* The directory between any two steps of the sessions.                    *)
SpoolInv == TypeOK /\ LostOnlyUnread

(* The comment on spool::drain: a file is deleted only once its batch is   *)
(* in the database, and kept for the next drain otherwise.                 *)
SavedIsKept == saved \subseteq Kept

(* Whatever the sessions measured of each other, the directory exceeds its *)
(* cap by at most one file for each spool::save that is under way, was cut *)
(* off by a restart, or failed before it had evicted what it should.       *)
SpoolBounded ==
  Size <= MaxFiles + unevicted + Cardinality({s \in Session : InSave(s)})

(* Every file leaves the directory, even when the database never recovers: *)
(* spool::drain stops at the first failed insert, but ages files out.      *)
SpoolEmpties == \A b \in Batch : b \in ToSet(spool) ~> b \notin ToSet(spool)
====
