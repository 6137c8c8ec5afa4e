---------------------------- MODULE ReleaseBudget ----------------------------
(***************************************************************************)
(* The publication budget of a release: a private journal from which every *)
(* process of a publication reserves each request before it sends it, and  *)
(* an anchor file that is written before the journal.  Processes are run   *)
(* by CI steps that can be started again, run side by side and die at any  *)
(* step; the journal itself may be lost or rolled back.                    *)
(*                                                                         *)
(* Digests are injective, so an anchor is the record it commits to.  Sizes *)
(* are in units small enough to enumerate; the constants of the code keep  *)
(* their order.  Header, binding and policy checks compare values that no  *)
(* action here changes.                                                    *)
(***************************************************************************)
EXTENDS Integers, Sequences, FiniteSets, SequencesExt

CONSTANTS
  Process,
  Programs,     \* sizes of the measured executables, a sequence
  SourceBytes,  \* size of the source archive
  BuildCount,   \* builds of the inventory
  MaxStarts,    \* bound: process starts
  MaxFaults     \* bound: deaths and losses of the journal

(* JSON_LIMIT, SMALL_RESPONSE_LIMIT (also the bound on a versioning        *)
(* answer), CONTROL_RESPONSE_LIMIT, STS_REQUEST_LIMIT.                     *)
CONSTANTS Json, Small, Control, Sts

ASSUME BudgetAssumption ==
  /\ Programs \in Seq(Nat \ {0}) /\ SourceBytes \in Nat \ {0} /\ BuildCount \in Nat \ {0}
  /\ Small < Control /\ Control < Sts /\ Sts < Json

VARIABLES
  marker,    \* the anchor file: absent, or the records it commits to
  journal,   \* the ledger file: absent, or its records
  lock,      \* holder of the ledger's flock
  proc,      \* per process: role, next operation, stage, size of the request
  sent,      \* requests sent, in order, with the place of each in its script
  exhausted, \* history: a reservation, or the check before the first publish
             \* exchange, was refused for lack of budget
  expired,   \* the envelope's expiry has passed
  starts, faults

vars == <<marker, journal, lock, proc, sent, exhausted, expired, starts, faults>>

Absent == [exists |-> FALSE, records |-> <<>>]
File(records) == [exists |-> TRUE, records |-> records]

----------------------------------------------------------------------------
(* Limits.                                                                 *)
Cost(up, down) == [requests |-> 1, up |-> up, down |-> down]
Nothing == [requests |-> 0, up |-> 0, down |-> 0]
Add(a, b) == [d \in DOMAIN a |-> a[d] + b[d]]
Fits(a, b) == \A d \in DOMAIN a : a[d] <= b[d]
AtLeastSmall(n) == IF n > Small THEN n ELSE Small
Sum(s) == FoldSeq(LAMBDA x, acc : acc + x, 0, s)

(* Mutant: the third metadata object of each build is forgotten.           *)
MutantPublicationLimits ==
  LET metadata == 2 * BuildCount
      objects == 1 + Len(Programs) + metadata
  IN [requests |-> 3 * objects + 6,
      up |-> SourceBytes + Sum(Programs) + metadata * Json + 2 * Sts,
      down |-> AtLeastSmall(SourceBytes)
               + Sum([i \in DOMAIN Programs |-> AtLeastSmall(Programs[i])])
               + metadata * Json + (2 * objects + 1) * Small + 4 * Control]

(* What the inventory says a whole publication needs; create refuses an    *)
(* allocation below it, and here the allocation is exactly that.           *)
PublicationLimits ==
  LET metadata == 3 * BuildCount
      objects == 1 + Len(Programs) + metadata
  IN [requests |-> 3 * objects + 6,
      up |-> SourceBytes + Sum(Programs) + metadata * Json + 2 * Sts,
      down |-> AtLeastSmall(SourceBytes)
               + Sum([i \in DOMAIN Programs |-> AtLeastSmall(Programs[i])])
               + metadata * Json + (2 * objects + 1) * Small + 4 * Control]

Allocation == PublicationLimits

----------------------------------------------------------------------------
(* Operations of the processes.                                            *)
Claim(name) == [kind |-> "claim", name |-> name]
Reserve(phase, service, up, down) ==
  [kind |-> "reserve", phase |-> phase, service |-> service, up |-> up, down |-> down]

(* A request whose payload is only known when it is made: up to its limit. *)
Unknown == -1

Exchange(phase, begin, done) ==
  <<Claim(begin), Reserve(phase, "oidc", 0, Control),
    Reserve(phase, "sts", Unknown, Control), Claim(done)>>

(* put then verify: versioning read, upload, independent read.             *)
PublishObject(bytes) ==
  <<Reserve("publish", "read", 0, Small), Reserve("publish", "write", bytes, Small),
    Reserve("publish", "readback", 0, bytes)>>

Objects ==
  <<SourceBytes>> \o Programs \o [i \in 1..3 * BuildCount |-> Unknown]

Script ==
  [source |-> Exchange("source", "source_exchange", "source_ready"),
   check |-> <<Claim("preflight"), Reserve("source", "read", 0, Small),
               Reserve("source", "read", 0, 0), Claim("preflight_ready")>>,
   exchange |-> <<[kind |-> "fund"]>> \o
                Exchange("publish", "publish_exchange", "publisher_ready"),
   publish |-> <<Claim("publication")>> \o
               FlattenSeq([i \in DOMAIN Objects |-> PublishObject(Objects[i])]) \o
               <<Claim("publication_ready")>>]

Role == DOMAIN Script

(* The request's sizes; a metadata file is read back at its own size.      *)
Made(op, size) ==
  IF op.kind # "reserve" THEN op
  ELSE [op EXCEPT !.up = IF @ = Unknown THEN size ELSE @,
                  !.down = IF op.service # "readback" THEN @
                           ELSE AtLeastSmall(IF @ = Unknown THEN size ELSE @)]

Sizes(op) ==
  CASE op.kind = "reserve" /\ op.service = "sts" -> {Sts}
    [] op.kind = "reserve" /\ op.service = "write" /\ op.up = Unknown -> {1, Json}
    [] OTHER -> {0}

----------------------------------------------------------------------------
(* State::apply on the state read back from the journal.                   *)
Claims(j) == {r.name : r \in {x \in ToSet(j) : x.kind = "claim"}}
Reservations(j) == SelectSeq(j, LAMBDA r : r.kind = "reserve")
Reserved(j) == FoldSeq(LAMBDA r, acc : Add(acc, Cost(r.up, r.down)), Nothing, Reservations(j))
Controls(j) ==
  {<<r.phase, r.service>> : r \in {x \in ToSet(Reservations(j)) : x.service \in {"oidc", "sts"}}}
SourceReads(j) ==
  Len(SelectSeq(Reservations(j), LAMBDA r : r.phase = "source" /\ r.service = "read"))

Requires ==
  [source_ready |-> "source_exchange", preflight |-> "source_ready",
   preflight_ready |-> "preflight", publish_exchange |-> "preflight_ready",
   publisher_ready |-> "publish_exchange", publication |-> "publisher_ready",
   publication_ready |-> "publication"]

Exchanged(j, phase) == {<<phase, "oidc">>, <<phase, "sts">>} \subseteq Controls(j)

ClaimAdmitted(j, name) ==
  /\ name \in DOMAIN Requires => Requires[name] \in Claims(j)
  /\ name \notin Claims(j)
  /\ name = "source_ready" => Exchanged(j, "source")
  /\ name = "publisher_ready" => Exchanged(j, "publish")
  /\ name = "preflight_ready" => SourceReads(j) = 2

Window(r) ==
  IF r.service \in {"oidc", "sts"}
    THEN IF r.phase = "source" THEN <<"source_exchange", "source_ready">>
                               ELSE <<"publish_exchange", "publisher_ready">>
    ELSE IF r.phase = "source" THEN <<"preflight", "preflight_ready">>
                               ELSE <<"publication", "publication_ready">>

InWindow(j, r) ==
  /\ Window(r)[1] \in Claims(j) /\ Window(r)[2] \notin Claims(j)
  /\ r.service \in {"oidc", "sts"} => <<r.phase, r.service>> \notin Controls(j)
  /\ r.phase = "source" /\ r.service = "read" => SourceReads(j) < 2 /\ r.up = 0

Funded(j, r) == Fits(Add(Reserved(j), Cost(r.up, r.down)), Allocation)

Admitted(j, r) ==
  IF r.kind = "claim" THEN ClaimAdmitted(j, r.name) ELSE InWindow(j, r) /\ Funded(j, r)

(* require_publish_funding: what is reserved and what the publication has  *)
(* yet to spend fit together.                                              *)
PublishFunding(j) ==
  Fits(Add(Reserved(j),
           [PublicationLimits EXCEPT !.requests = @ - 4, !.up = @ - Sts,
                                     !.down = @ - (2 * Control + Small)]),
       Allocation)

----------------------------------------------------------------------------
Idle == [role |-> "none", pos |-> 0, stage |-> "idle", size |-> 0]
Op(p) == Script[proc[p].role][proc[p].pos]
Request(p) == Made(Op(p), proc[p].size)

Exits(p) == proc' = [proc EXCEPT ![p] = Idle]

Advance(p, stage) ==
  IF proc[p].pos = Len(Script[proc[p].role]) /\ stage = "next" THEN Exits(p)
  ELSE proc' = [proc EXCEPT ![p].stage = stage,
                            ![p].pos = IF stage = "next" THEN @ + 1 ELSE @]

(* Mutant: only the journal is looked for, so a lost one is created again. *)
MutantCreate(p) ==
  /\ proc[p] = Idle /\ lock = "free" /\ ~journal.exists /\ ~expired
  /\ marker' = File(<<>>) /\ lock' = p
  /\ proc' = [proc EXCEPT ![p].stage = "create"]
  /\ UNCHANGED <<journal, sent, exhausted, expired, starts, faults>>

(* create burns the anchor file first: it is created exclusively, before   *)
(* the journal, so a lost journal cannot be created again.                 *)
Create(p) ==
  /\ proc[p] = Idle /\ lock = "free" /\ ~marker.exists /\ ~expired
  /\ marker' = File(<<>>) /\ lock' = p
  /\ proc' = [proc EXCEPT ![p].stage = "create"]
  /\ UNCHANGED <<journal, sent, exhausted, expired, starts, faults>>

CreateJournal(p) ==
  /\ proc[p].stage = "create"
  /\ journal' = File(<<>>) /\ lock' = "free" /\ Exits(p)
  /\ UNCHANGED <<marker, sent, exhausted, expired, starts, faults>>

Start(p, role) ==
  /\ proc[p] = Idle /\ starts < MaxStarts /\ starts' = starts + 1
  /\ proc' = [proc EXCEPT ![p] = [Idle EXCEPT !.role = role, !.pos = 1, !.stage = "next"]]
  /\ UNCHANGED <<marker, journal, lock, sent, exhausted, expired, faults>>

(* Mutant: the journal is not compared with the anchors.                   *)
MutantIntact == journal.exists

(* locked: the journal is complete and matches the anchors.                *)
Intact == journal.exists /\ marker.exists /\ journal.records = marker.records

(* The sizes this request may have; a file is read back at its own size.   *)
SizesOf(p) ==
  IF Op(p).kind = "reserve" /\ Op(p).service = "readback" THEN {proc[p].size}
  ELSE Sizes(Op(p))

(* append, first half: under the lock, check and write the anchor.         *)
Anchor(p) == \E size \in SizesOf(p) :
  LET r == Made(Op(p), size) IN
  /\ lock = "free" /\ Intact /\ ~expired /\ Admitted(journal.records, r)
  /\ lock' = p /\ marker' = File(Append(marker.records, r))
  /\ proc' = [proc EXCEPT ![p].stage = "anchored", ![p].size = size]
  /\ UNCHANGED <<journal, sent, exhausted, expired, starts, faults>>

(* append, second half.                                                    *)
Record(p) ==
  /\ proc[p].stage = "anchored" /\ lock' = "free"
  /\ journal' = File(Append(journal.records, Last(marker.records)))
  /\ IF Op(p).kind = "claim" THEN Advance(p, "next") ELSE Advance(p, "send")
  /\ UNCHANGED <<marker, sent, exhausted, expired, starts, faults>>

(* The request goes out; its answer lets the process go on or ends it.     *)
Send(p) ==
  /\ proc[p].stage = "send"
  /\ sent' = Append(sent, [request |-> Request(p), role |-> proc[p].role, pos |-> proc[p].pos])
  /\ Advance(p, "next") \/ Exits(p)
  /\ UNCHANGED <<marker, journal, lock, exhausted, expired, starts, faults>>

CheckFunding(p) ==
  /\ lock = "free" /\ Intact /\ ~expired /\ PublishFunding(journal.records)
  /\ Advance(p, "next")
  /\ UNCHANGED <<marker, journal, lock, sent, exhausted, expired, starts, faults>>

(* Any refusal ends the process.                                           *)
Refused(p) == \E size \in SizesOf(p) :
  LET j == journal.records
      r == Made(Op(p), size)
      short == IF r.kind = "fund" THEN ~PublishFunding(j)
               ELSE r.kind = "reserve" /\ InWindow(j, r) /\ ~Funded(j, r)
  IN
  /\ lock = "free" /\ Exits(p)
  /\ \/ (~Intact \/ expired) /\ UNCHANGED exhausted
     \/ /\ Intact /\ ~expired /\ short
        /\ exhausted' = (exhausted \/ r.kind = "reserve" \/ "publish_exchange" \notin Claims(j))
     \/ /\ Intact /\ ~expired /\ ~short /\ r.kind # "fund" /\ ~Admitted(j, r)
        /\ UNCHANGED exhausted
  /\ UNCHANGED <<marker, journal, lock, sent, expired, starts, faults>>

----------------------------------------------------------------------------
(* Faults: a process dies between two steps, or in a partial write, which  *)
(* leaves anchor and journal different; the journal is rolled back or      *)
(* removed; the envelope expires.                                          *)
Dies(p) ==
  /\ proc[p] # Idle /\ faults < MaxFaults /\ faults' = faults + 1
  /\ Exits(p) /\ lock' = IF lock = p THEN "free" ELSE lock
  /\ UNCHANGED <<marker, journal, sent, exhausted, expired, starts>>

LoseJournal ==
  /\ lock = "free" /\ journal.exists /\ faults < MaxFaults /\ faults' = faults + 1
  /\ \/ journal' = Absent
     \/ journal.records # <<>> /\ journal' = File(Front(journal.records))
  /\ UNCHANGED <<marker, lock, proc, sent, exhausted, expired, starts>>

Expire ==
  /\ ~expired /\ expired' = TRUE
  /\ UNCHANGED <<marker, journal, lock, proc, sent, exhausted, starts, faults>>

Init ==
  /\ marker = Absent /\ journal = Absent /\ lock = "free"
  /\ proc = [p \in Process |-> Idle] /\ sent = <<>>
  /\ exhausted = FALSE /\ expired = FALSE /\ starts = 0 /\ faults = 0

Step(p) ==
  \/ CreateJournal(p) \/ Record(p) \/ Send(p)
  \/ proc[p].stage = "next" /\ Op(p).kind = "fund" /\ CheckFunding(p)
  \/ proc[p].stage = "next" /\ Op(p).kind # "fund" /\ Anchor(p)
  \/ proc[p].stage = "next" /\ Refused(p)

Next ==
  \/ \E p \in Process : Create(p) \/ Step(p) \/ Dies(p) \/ \E role \in Role : Start(p, role)
  \/ LoseJournal \/ Expire

Spec == Init /\ [][Next]_vars

----------------------------------------------------------------------------
(* Every process is at an operation of its own script (publish, check,     *)
(* oss_exchange) or has exited; the ledger's flock has one holder.         *)
TypeOK ==
  /\ lock \in Process \cup {"free"}
  /\ \A p \in Process :
       /\ proc[p].stage \in {"idle", "create", "next", "anchored", "send"}
       /\ proc[p].role \in Role => proc[p].pos \in 1..Len(Script[proc[p].role])

(* What has been sent never exceeds the allocation, and each request was   *)
(* committed to the anchor file before: Ledger::append runs first, whoever *)
(* dies or loses the journal in between.                                   *)
SentWithinAllocation ==
  LET requests == [i \in DOMAIN sent |-> sent[i].request]
      Times(r, records) == Len(SelectSeq(records, LAMBDA x : x = r))
  IN /\ Fits(FoldSeq(LAMBDA r, acc : Add(acc, Cost(r.up, r.down)), Nothing, requests), Allocation)
     /\ \A r \in ToSet(requests) : Times(r, requests) <= Times(r, marker.records)

(* However often and by whichever processes a role is run, no request of   *)
(* its script is sent twice: an identity exchange happens once per phase   *)
(* and each object is uploaded and read back at most once (State::apply    *)
(* refuses a claim or a control reservation it has seen).                  *)
ExchangedOnce == IsInjective([i \in DOMAIN sent |-> <<sent[i].role, sent[i].pos>>])

(* Anchor, journal and the requests that left the process, however often   *)
(* and wherever its processes die.                                         *)
BudgetInv == TypeOK /\ SentWithinAllocation /\ ExchangedOnce

(* A journal that was rolled back, removed or cut off by a death is never  *)
(* appended to again (Ledger::locked, Ledger::create): no reservation is   *)
(* given out twice.                                                        *)
DamageIsFinal ==
  [][lock = "free" /\ marker.exists /\ ~Intact => marker' = marker /\ journal' # marker]_vars

(* A publication is never refused for lack of budget half way: the amount  *)
(* reserved at creation (Inventory::publication_limits) covers every       *)
(* request of every phase.                                                 *)
NeverExhausted == ~exhausted
====
