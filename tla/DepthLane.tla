----------------------------- MODULE DepthLane ------------------------------
(***************************************************************************)
(* The Binance market-data lane: BookSync's snapshot/diff bridge, the      *)
(* CorrectnessBook it guards, the live loop of binance-md that drives them *)
(* and the replay of the file that loop records.                           *)
(*                                                                         *)
(* The exchange numbers its changes of the book.  A diff <<first, final>>  *)
(* carries the quantities, as of `final`, of every price changed from      *)
(* `first` on; diffs arrive in order but may be lost or malformed.  A      *)
(* snapshot is the book as of some change, cut to its best levels.  One    *)
(* side of the book stands for both.                                       *)
(***************************************************************************)
EXTENDS Integers, Sequences, FiniteSets, Functions, FiniteSetsExt, SequencesExt

CONSTANTS
  Price,       \* a set of integers, the better price the larger
  Quantity,    \* positive quantities
  Depth,       \* levels in a snapshot
  MaxId,       \* bound: changes at the exchange
  MaxLog,      \* bound: records of the replay file
  MaxBuffer    \* diffs buffered before a snapshot; the live loop uses 1

ASSUME LaneAssumption ==
  /\ Price \subseteq Nat \ {0} /\ Quantity \subseteq Nat \ {0}
  /\ {Depth, MaxBuffer} \subseteq Nat \ {0} /\ {MaxId, MaxLog} \subseteq Nat

VARIABLES
  changes,    \* external: the exchange's changes, <<price, quantity>> by id
  published,  \* external: the last id a diff was sent for
  stream,     \* external: diffs on their way
  sync,       \* BookSync: state, last_update_id, buffered
  depth,      \* the lane's buffered_depth
  book,       \* CorrectnessBook: quantity by price, and top.last_update_id
  floor,      \* history: the lowest price the last snapshot vouches for
  phase,      \* the live loop: "warmup", "fetching", "live", "rebuilding", "ended"
  log         \* the replay file

exchange == <<changes, published>>
lane == <<sync, depth, book, floor>>
vars == <<exchange, stream, lane, phase, log>>

----------------------------------------------------------------------------
(* The exchange's book, snapshots and diffs.                               *)

Empty == [p \in Price |-> 0]

BookAt(n) ==
  FoldLeft(LAMBDA b, change : [b EXCEPT ![change[1]] = change[2]],
           Empty, SubSeq(changes, 1, n))

Levels(b) == {p \in Price : b[p] > 0}
Best(b, n) == {p \in Levels(b) : Cardinality({q \in Levels(b) : q > p}) < n}

SnapshotAt(n) == [p \in Price |-> IF p \in Best(BookAt(n), Depth) THEN BookAt(n)[p] ELSE 0]

FloorOf(n) == IF Cardinality(Levels(BookAt(n))) <= Depth THEN 0
              ELSE Min(Best(BookAt(n), Depth))

Touched(diff) == {changes[i][1] : i \in diff[1]..diff[2]}

----------------------------------------------------------------------------
(* BookSync.                                                               *)

IsValid(diff) == diff[1] <= diff[2]

(* Mutant: one missing change is not seen as a gap.                        *)
MutantClassifyUpdate(last, diff) ==
  IF ~IsValid(diff) THEN "invalid"
  ELSE IF diff[2] < last + 1 THEN "stale"
  ELSE IF diff[1] > last + 2 THEN "gap"
  ELSE "apply"

ClassifyUpdate(last, diff) ==
  IF ~IsValid(diff) THEN "invalid"
  ELSE IF diff[2] < last + 1 THEN "stale"
  ELSE IF diff[1] > last + 1 THEN "gap"
  ELSE "apply"

BridgesSnapshot(last, diff) == diff[1] <= last + 1 /\ diff[2] >= last + 1

(* apply_snapshot's pass over the buffered diffs: it stops at the first    *)
(* one that is malformed or leaves a gap.                                  *)
BufferedStep(snapshotId, acc, diff) ==
  IF acc.gap THEN acc
  ELSE LET decision ==
             IF ~IsValid(diff) THEN "invalid"
             ELSE IF ~acc.bridged /\ diff[2] <= snapshotId THEN "stale"
             ELSE IF ~acc.bridged /\ ~BridgesSnapshot(snapshotId, diff) THEN "gap"
             ELSE ClassifyUpdate(acc.last, diff)
       IN [last    |-> IF decision = "apply" THEN diff[2] ELSE acc.last,
           bridged |-> acc.bridged \/ (IsValid(diff) /\ BridgesSnapshot(snapshotId, diff)),
           gap     |-> decision \in {"gap", "invalid"},
           decided |-> Append(acc.decided, decision)]

ApplyBuffered(snapshotId, buffered) ==
  FoldLeft(LAMBDA acc, diff : BufferedStep(snapshotId, acc, diff),
           [last |-> snapshotId, bridged |-> FALSE, gap |-> FALSE, decided |-> <<>>],
           buffered)

StartBuffering == [state |-> "buffering", last |-> 0, buffered |-> <<>>]

LoadSnapshot(id) == [state |-> "live", last |-> id, buffered |-> <<>>]

BufferDiff(s, diff) ==
  IF s.state \in {"buffering", "fetching"} THEN [s EXCEPT !.buffered = Append(@, diff)] ELSE s

ClassifyLive(s, diff) ==
  LET decision == ClassifyUpdate(s.last, diff)
  IN CASE decision = "apply" -> [s EXCEPT !.last = diff[2], !.state = "live"]
       [] decision \in {"gap", "invalid"} -> [s EXCEPT !.state = "rebuild"]
       [] OTHER -> s

(* CorrectnessBook.                                                        *)
ApplySnapshot(id) == [levels |-> SnapshotAt(id), id |-> id]

ApplyDiff(b, diff) ==
  [levels |-> [p \in Price |-> IF p \in Touched(diff) THEN BookAt(diff[2])[p] ELSE b.levels[p]],
   id |-> diff[2]]

----------------------------------------------------------------------------
(* The exchange and the stream.                                            *)

Change ==
  /\ Len(changes) < MaxId
  /\ \E p \in Price, q \in Quantity \cup {0} : changes' = Append(changes, <<p, q>>)
  /\ UNCHANGED <<published, stream, lane, phase, log>>

(* Every change is in exactly one diff; a diff may be lost or arrive with  *)
(* its ends exchanged.                                                     *)
PublishDiff ==
  /\ published < Len(changes) /\ published' = Len(changes)
  /\ \E diff \in {<<published + 1, Len(changes)>>, <<Len(changes) + 1, published>>} :
       stream' \in {stream, Append(stream, diff)}
  /\ UNCHANGED <<changes, lane, phase, log>>

----------------------------------------------------------------------------
(* The live loop.                                                          *)

(* Until the snapshot is bridged, a diff is buffered and a snapshot        *)
(* fetched.                                                                *)
BufferDepthUpdate ==
  /\ phase \in {"warmup", "fetching"} /\ stream # <<>> /\ Len(depth) < MaxBuffer
  /\ sync' = BufferDiff(sync, Head(stream))
  /\ depth' = Append(depth, Head(stream))
  /\ stream' = Tail(stream)
  /\ phase' = "fetching"
  /\ UNCHANGED <<exchange, book, floor, log>>

(* Mutant: every buffered diff is recorded as applied.                     *)
MutantApplied(result) == depth

Applied(result) ==
  SelectSeq([i \in DOMAIN result.decided |->
               IF result.decided[i] = "apply" THEN depth[i] ELSE <<>>],
            LAMBDA diff : diff # <<>>)

(* The snapshot, with the buffered diffs that follow it unless one leaves  *)
(* a gap.                                                                  *)
Bridged(result, id) ==
  IF result.gap THEN ApplySnapshot(id)
  ELSE FoldLeft(LAMBDA b, diff : ApplyDiff(b, diff), ApplySnapshot(id), Applied(result))

(* apply_snapshot_bridge: a gap starts the buffering anew.                 *)
SnapshotBridge(id) ==
  LET result == ApplyBuffered(id, sync.buffered)
  IN /\ phase = "fetching" /\ Len(log) + 1 < MaxLog
     /\ book' = Bridged(result, id) /\ floor' = FloorOf(id)
     /\ depth' = <<>>
     /\ sync' = IF result.gap THEN StartBuffering
                ELSE [state |-> "live", last |-> result.last, buffered |-> <<>>]
     /\ phase' = IF result.gap THEN "warmup" ELSE "live"
     /\ log' = log \o <<[kind |-> "snapshot", id |-> id],
                        [kind |-> "bridge", count |-> Len(Applied(result)),
                         updates |-> IF result.gap THEN <<>> ELSE Applied(result),
                         last |-> result.last]>>
     /\ UNCHANGED <<exchange, stream>>

ProcessDepthUpdate ==
  /\ phase = "live" /\ stream # <<>> /\ Len(log) < MaxLog
  /\ LET diff == Head(stream)
         decision == ClassifyUpdate(sync.last, diff)
     IN /\ sync' = ClassifyLive(sync, diff)
        /\ book' = IF decision = "apply" THEN ApplyDiff(book, diff) ELSE book
        /\ log' = Append(log, [kind |-> "depth", diff |-> diff, decision |-> decision])
  /\ phase' = IF sync'.state = "rebuild" THEN "rebuilding" ELSE "live"
  /\ stream' = Tail(stream)
  /\ UNCHANGED <<exchange, depth, floor>>

(* apply_replay_snapshot: the diff that showed the gap is not applied.     *)
RebuildFromSnapshot(id) ==
  /\ phase = "rebuilding" /\ Len(log) < MaxLog
  /\ book' = ApplySnapshot(id) /\ floor' = FloorOf(id)
  /\ sync' = LoadSnapshot(id)
  /\ phase' = "live"
  /\ log' = Append(log, [kind |-> "snapshot", id |-> id])
  /\ UNCHANGED <<exchange, stream, depth>>

(* The connection closes, the runtime ends, or a fetch fails.              *)
End ==
  /\ phase # "ended" /\ phase' = "ended"
  /\ UNCHANGED <<exchange, stream, lane, log>>

Init ==
  /\ changes = <<>> /\ published = 0 /\ stream = <<>>
  /\ sync = StartBuffering /\ depth = <<>>
  /\ book = [levels |-> Empty, id |-> 0] /\ floor = 0
  /\ phase = "warmup" /\ log = <<>>

(* The venue may answer with any book it had.                              *)
Fetch == \E id \in 0..Len(changes) : SnapshotBridge(id) \/ RebuildFromSnapshot(id)

Next ==
  \/ Change \/ PublishDiff
  \/ BufferDepthUpdate \/ ProcessDepthUpdate \/ Fetch \/ End

Spec == Init /\ [][Next]_vars

----------------------------------------------------------------------------
(* replay_records, one record at a time.                                   *)

NewReplay == [sync |-> [state |-> "disconnected", last |-> 0, buffered |-> <<>>],
              book |-> [levels |-> Empty, id |-> 0], mismatches |-> 0]

ReplayDiff(r, diff) ==
  [r EXCEPT !.sync = ClassifyLive(r.sync, diff),
            !.book = IF ClassifyUpdate(r.sync.last, diff) = "apply" THEN ApplyDiff(@, diff)
                     ELSE @]

Parity(r, holds) == IF holds THEN r ELSE [r EXCEPT !.mismatches = @ + 1]

ReplayBridgeDiff(r, diff) ==
  Parity(ReplayDiff(r, diff), ClassifyUpdate(r.sync.last, diff) = "apply")

ReplayRecord(r, record) ==
  CASE record.kind = "snapshot" ->
         [r EXCEPT !.sync = LoadSnapshot(record.id), !.book = ApplySnapshot(record.id)]
    [] record.kind = "bridge" ->
         LET counted == Parity(r, record.count = Len(record.updates))
             applied == FoldLeft(LAMBDA s, diff : ReplayBridgeDiff(s, diff),
                                 counted, record.updates)
         IN Parity(applied, applied.sync.last = record.last)
    [] record.kind = "depth" ->
         Parity(ReplayDiff(r, record.diff),
                ClassifyUpdate(r.sync.last, record.diff) = record.decision)

Replay == FoldLeft(LAMBDA r, record : ReplayRecord(r, record), NewReplay, log)

----------------------------------------------------------------------------
(* The states of BookSync the live loop leaves it in, and its buffer.      *)
TypeOK ==
  /\ sync.state \in {"buffering", "live", "rebuild"} /\ sync.last \in 0..MaxId
  /\ book.levels \in [Price -> Quantity \cup {0}] /\ book.id \in 0..MaxId
  /\ phase \in {"warmup", "fetching", "live", "rebuilding", "ended"}
  /\ Len(sync.buffered) <= MaxBuffer

(* Whatever is lost, malformed or stale, the book is the exchange's book   *)
(* as of the id it is stamped with: every level it has is right, and none  *)
(* is missing above the price the snapshot reached down to (apply_snapshot *)
(* and classify_live_update let no gap through).                           *)
BookExact ==
  \A p \in Price : book.levels[p] > 0 \/ p >= floor => book.levels[p] = BookAt(book.id)[p]

(* The sequence guard (BookSync::last_update_id) and the book it guards    *)
(* move together.                                                          *)
SyncFollowsBook == phase \in {"live", "rebuilding"} => sync.last = book.id

(* The lane between two messages: the book is exact as of its id, and the  *)
(* sequence guard vouches for that id.                                     *)
LaneInv == TypeOK /\ BookExact /\ SyncFollowsBook

(* Replaying the file so far (replay_records) reports no mismatch and      *)
(* rebuilds the book.                                                      *)
ReplayParity ==
  /\ Replay.mismatches = 0
  /\ log # <<>> => Replay.book = book
====
