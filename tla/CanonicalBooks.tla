--------------------------- MODULE CanonicalBooks ---------------------------
(***************************************************************************)
(* The engine's canonical owners of execution state: the OMS, the          *)
(* Portfolio and the risk reservations, kept in step by                    *)
(* Engine::handle_execution_report behind a bounded replay filter.         *)
(*                                                                         *)
(* Reports reach the engine on two ways.  The worker publishes, exactly    *)
(* once and in order, what became of a submission (`worker`).  The venue's *)
(* private topics publish everything else (`sent`): unordered, any number  *)
(* of times, possibly never.  A report the owners cannot place latches the *)
(* reconciliation halt; a readback of the venue is the only way to release *)
(* reservations whose fate is uncertain.                                   *)
(*                                                                         *)
(* Prices, sides and fees' amounts are left out: a fill is its identity    *)
(* and quantity, and exposure is a quantity.                               *)
(***************************************************************************)
EXTENDS Integers, Sequences, Functions

CONSTANTS
  Client,          \* client order ids, one per intent
  VenueId,         \* the order id the venue assigns to each client's order
  Simulated,       \* clients of an in-process venue: final cancels, own OrderNew
  Qty,             \* admitted quantity of each client's order
  Fill, FillQty,   \* fill ids of one order, and their quantities
  HasFee,          \* fills that carry a fee
  Capacity,        \* of the replay filter and the portfolio's journal
  RefusedImports,  \* whether a portfolio checkpoint may fail its digest
  MaxAmends,       \* bound: replacements
  MaxRevision,     \* bound: applications of their reports to one order
  MaxCrashes       \* bound: restarts

(* Client and venue ids share one namespace and may collide.               *)
Id == Client \cup {VenueId[c] : c \in Client}

ASSUME IdAssumption ==
  \A c, d \in Client : VenueId[c] = VenueId[d] => c = d

ASSUME QtyAssumption ==
  /\ Qty \in [Client -> Nat \ {0}]
  /\ FillQty \in [Fill -> Nat \ {0}]
  /\ Capacity \in Nat \ {0}
  /\ HasFee \subseteq Fill
  /\ RefusedImports \in BOOLEAN
  /\ {MaxAmends, MaxRevision, MaxCrashes} \subseteq Nat

VARIABLES
  oms,        \* order records, by order id
  portfolio,  \* known orders, counted fills and fees, position, journal
  evidence,   \* owners that retain a reconciliation exception
  filter,     \* applied_accounting_event_ids, oldest first
  queued,     \* reservations of clients without an order
  held,       \* reservations bound to an order id: client and revision
  awaiting,   \* bound reservations that a terminal report left uncertain
  recovery,   \* recovery_required
  supplied,   \* checkpoint_supplied
  halt,       \* reconciliation_halt
  trading,    \* whether the trading mode admits intents
  intent,     \* external: where the worker has each client's intent
  tracked,    \* external: order ids the worker knows
  latched,    \* external: whether the worker refuses every intent
  worker,     \* external: reports the worker has published
  venue,      \* external: the venue's own record of each client's order
  sent, seen, \* external: private reports published, and delivered once
  snapshot,   \* external: the readback in progress
  disk,       \* external: the last saved checkpoint of each owner
  starting,   \* the process restores checkpoints, or awaits its first readback
  crashes,    \* number of restarts so far
  amends      \* number of replacements so far

reservations == <<queued, held, awaiting, recovery, supplied>>
owners == <<oms, portfolio, evidence, filter, reservations, halt, trading>>
world  == <<intent, tracked, latched, venue, sent, amends>>
process == <<disk, starting, crashes>>
vars == <<owners, world, worker, seen, snapshot, process>>

Terminal == {"filled", "canceled", "rejected"}
Status == {"new", "acknowledged", "partial"} \cup Terminal
Open(record) == record.status \notin Terminal

Total(fills) == FoldFunctionOnSet(LAMBDA x, y : x + y, 0, FillQty, fills)
FillsOf(o) == {f \in Fill : <<o, f>> \in portfolio.fills}
Without(f, o) == Restrict(f, DOMAIN f \ {o})
With(f, o, value) == [i \in DOMAIN f \cup {o} |-> IF i = o THEN value ELSE f[i]]
Keys(journal) == {journal[i] : i \in DOMAIN journal}

(* A bounded FIFO: a full one forgets its oldest key.                      *)
Remember(journal, key) ==
  Append(IF Len(journal) >= Capacity THEN Tail(journal) ELSE journal, key)

Latch == halt' = TRUE /\ recovery' = TRUE /\ trading' = FALSE

(* A report some owner cannot place is retained as evidence, the owners    *)
(* are rolled back and admission stops.                                    *)
Retain(owner) ==
  /\ evidence' = evidence \cup {owner}
  /\ Latch
  /\ UNCHANGED <<oms, portfolio, filter, queued, held, awaiting, supplied>>

(* What an accepted report leaves alone, and the pause that a reservation  *)
(* in doubt causes.                                                        *)
Accept ==
  /\ trading' = (trading /\ ~recovery')
  /\ UNCHANGED <<evidence, supplied, halt>>

SetOrder(o, record) == oms' = [oms EXCEPT ![o] = record]

----------------------------------------------------------------------------
(* Exposure of the reservations.                                           *)

MatchesRecord(o) ==
  /\ held[o].revision = oms[o].revision
  /\ held[o].client = oms[o].client
  /\ oms[o].qty <= Qty[held[o].client]

(* view() projects the bound reservations, confirm_readback() all orders.  *)
Projects(orders) ==
  /\ DOMAIN held \subseteq orders
  /\ \A o \in orders : o \in DOMAIN held => MatchesRecord(o)
  /\ \A o \in orders : Open(oms[o]) => o \in DOMAIN held

ViewReady == ~recovery /\ DOMAIN held \subseteq DOMAIN oms /\ Projects(DOMAIN held)

(* A replacement may only reduce what is reserved.                         *)
ValidReplace(o, q) ==
  /\ o \in DOMAIN held /\ MatchesRecord(o)
  /\ q >= oms[o].cum
  /\ q - oms[o].cum <= (IF oms[o].qty > oms[o].cum THEN oms[o].qty - oms[o].cum ELSE 0)

----------------------------------------------------------------------------
(* handle_execution_report, one action per kind of report.                 *)

NewRecord(c) ==
  [client |-> c, status |-> "new", qty |-> Qty[c], cum |-> 0, fills |-> {},
   revision |-> 0]
SameOrder(o, c) == oms[o].client = c /\ oms[o].qty = Qty[c]

(* An accepted OrderNew binds its queued reservation to the order, unless  *)
(* the order's amendments are unknown.                                     *)
Bind(o, c) ==
  IF c \in queued
    THEN IF oms'[o].revision = 0
           THEN /\ queued' = queued \ {c}
                /\ held' = With(held, o, [client |-> c, revision |-> 0])
                /\ UNCHANGED recovery
           ELSE recovery' = TRUE /\ UNCHANGED <<queued, held>>
    ELSE /\ recovery' = (recovery \/ (o \notin DOMAIN held /\ Open(oms'[o])))
         /\ UNCHANGED <<queued, held>>

OrderNew(o, c) ==
  IF (halt /\ c \notin queued) \/ (o \in DOMAIN held /\ held[o].client # c)
    THEN Latch /\ UNCHANGED <<oms, portfolio, evidence, filter, queued, held,
                              awaiting, supplied>>
  ELSE IF o \in DOMAIN oms /\ ~SameOrder(o, c) THEN Retain("oms")
  ELSE
         /\ oms' = IF o \in DOMAIN oms THEN oms ELSE With(oms, o, NewRecord(c))
         /\ portfolio' = [portfolio EXCEPT !.orders = @ \cup {o}]
         /\ Bind(o, c)
         /\ UNCHANGED <<filter, awaiting>> /\ Accept

(* Mutant: a proven rejection keeps its reservation.                       *)
MutantUnsentRejected(c) ==
  /\ trading' = (trading /\ ~recovery)
  /\ UNCHANGED <<oms, portfolio, evidence, filter, queued, held, awaiting, recovery,
                 supplied, halt>>

(* A rejection that the worker proves was never submitted.                 *)
UnsentRejected(c) ==
  /\ queued' = queued \ {c}
  /\ trading' = (trading /\ ~recovery)
  /\ UNCHANGED <<oms, portfolio, evidence, filter, held, awaiting, recovery,
                 supplied, halt>>

OrderAck(o) ==
  IF o \notin DOMAIN oms THEN Retain("oms")
  ELSE /\ SetOrder(o, [oms[o] EXCEPT !.status = IF @ = "new" THEN "acknowledged" ELSE @])
       /\ UNCHANGED <<portfolio, filter, queued, held, awaiting, recovery>> /\ Accept

(* Reservations that a terminal report settles, or leaves uncertain.       *)
Release(o) == held' = Without(held, o) /\ awaiting' = awaiting \ {o}
Await(o) == awaiting' = awaiting \cup {o} /\ UNCHANGED held

(* Mutant: a late fill sets the status of a terminal order.                *)
MutantFilledRecord(record, f) ==
  LET cum == record.cum + FillQty[f]
  IN [record EXCEPT !.cum = cum, !.fills = @ \cup {f},
        !.status = IF cum >= record.qty THEN "filled" ELSE "partial"]

(* A late fill counts but never reopens a terminal order.                  *)
FilledRecord(record, f) ==
  LET cum == record.cum + FillQty[f]
  IN [record EXCEPT !.cum = cum, !.fills = @ \cup {f},
        !.status = IF @ \in {"canceled", "rejected"} THEN @
                   ELSE IF cum >= record.qty THEN "filled"
                   ELSE "partial"]

(* Mutant: the portfolio trusts the replay filter alone.                   *)
MutantCountFill(o, f) ==
  portfolio' = [portfolio EXCEPT !.fills = @ \cup {<<o, f>>},
                                 !.position = @ + FillQty[f],
                                 !.journal = Remember(@, <<"fill", o, f>>)]

(* Mutant: a fill after the end of its order is not counted.               *)
MutantSkipLateFill(o, f) ==
  IF <<o, f>> \in portfolio.fills \/ ~Open(oms[o]) THEN UNCHANGED portfolio
  ELSE portfolio' = [portfolio EXCEPT !.fills = @ \cup {<<o, f>>},
                                      !.position = @ + FillQty[f],
                                      !.journal = Remember(@, <<"fill", o, f>>)]

(* The portfolio keeps its own record of the fills it has counted.         *)
CountFill(o, f) ==
  IF <<o, f>> \in portfolio.fills THEN UNCHANGED portfolio
  ELSE portfolio' = [portfolio EXCEPT !.fills = @ \cup {<<o, f>>},
                                      !.position = @ + FillQty[f],
                                      !.journal = Remember(@, <<"fill", o, f>>)]

Exceeds(o, f) == f \notin oms[o].fills /\ oms[o].cum + FillQty[f] > oms[o].qty

OrderFill(o, f) ==
  IF <<"fill", o, f>> \in Keys(filter) THEN UNCHANGED owners
  ELSE IF o \in DOMAIN oms => Exceeds(o, f) THEN Retain("oms")
  ELSE IF o \notin portfolio.orders THEN Retain("portfolio")
  ELSE
         /\ SetOrder(o, IF f \in oms[o].fills THEN oms[o] ELSE FilledRecord(oms[o], f))
         /\ CountFill(o, f)
         /\ filter' = Remember(filter, <<"fill", o, f>>)
         /\ IF oms'[o].cum >= oms'[o].qty THEN Release(o) ELSE UNCHANGED <<held, awaiting>>
         /\ UNCHANGED <<queued, recovery>> /\ Accept

FeeCharged(o, f) ==
  IF <<"fee", o, f>> \in Keys(filter) THEN UNCHANGED owners
  ELSE IF o \notin DOMAIN oms THEN Retain("oms")
  ELSE IF o \notin portfolio.orders THEN Retain("portfolio")
  ELSE
         /\ portfolio' = IF <<o, f>> \in portfolio.fees THEN portfolio
                         ELSE [portfolio EXCEPT !.fees = @ \cup {<<o, f>>}, !.paid = @ + 1,
                                                !.journal = Remember(@, <<"fee", o, f>>)]
         /\ filter' = Remember(filter, <<"fee", o, f>>)
         /\ UNCHANGED <<oms, queued, held, awaiting, recovery>> /\ Accept

EndOrder(o, status) ==
  SetOrder(o, IF Open(oms[o]) THEN [oms[o] EXCEPT !.status = status] ELSE oms[o])

(* A rejection whose id is both a queued client's and an order's is not    *)
(* attributed to either.                                                   *)
OrderReject(o) ==
  IF o \notin DOMAIN oms \/ o \in queued THEN Retain("oms")
  ELSE /\ EndOrder(o, "rejected")
       /\ CASE oms'[o].status = "filled" -> Release(o)
            [] oms'[o].status = "rejected" /\ o \in DOMAIN held -> Await(o)
            [] OTHER -> UNCHANGED <<held, awaiting>>
       /\ UNCHANGED <<portfolio, filter, queued, recovery>> /\ Accept

(* Mutant: every cancellation is final.                                    *)
MutantOrderCanceled(o) ==
  IF o \notin DOMAIN oms THEN Retain("oms")
  ELSE /\ EndOrder(o, "canceled")
       /\ Release(o)
       /\ UNCHANGED <<portfolio, filter, queued, recovery>> /\ Accept

(* Only an in-process venue reports every fill before the cancellation.    *)
OrderCanceled(o) ==
  IF o \notin DOMAIN oms THEN Retain("oms")
  ELSE /\ EndOrder(o, "canceled")
       /\ IF o \notin DOMAIN held THEN UNCHANGED <<held, awaiting>>
          ELSE IF oms[o].client \in Simulated THEN Release(o)
          ELSE Await(o)
       /\ UNCHANGED <<portfolio, filter, queued, recovery>> /\ Accept

AmendedRecord(record, q) ==
  [record EXCEPT !.qty = q, !.revision = @ + 1,
     !.status = IF @ \in Terminal THEN @
                ELSE IF record.cum >= q THEN "filled"
                ELSE IF record.cum > 0 THEN "partial"
                ELSE @]

(* The venue's amendment is recorded even if it was never approved; the    *)
(* reservation follows only an unbroken sequence of revisions.             *)
OrderModified(o, q) ==
  IF o \in DOMAIN oms => q < oms[o].cum THEN Retain("oms")
  ELSE LET follows == o \in DOMAIN held /\ held[o].revision = oms[o].revision
           approved == ValidReplace(o, q)
       IN /\ SetOrder(o, AmendedRecord(oms[o], q))
          /\ held' = IF follows THEN [held EXCEPT ![o].revision = @ + 1] ELSE held
          /\ evidence' = IF approved THEN evidence ELSE evidence \cup {"oms"}
          /\ halt' = (halt \/ ~approved)
          /\ recovery' = (recovery \/ ~approved \/ ~follows)
          /\ trading' = (trading /\ ~recovery')
          /\ UNCHANGED <<portfolio, filter, queued, awaiting, supplied>>

Handle(report) ==
  CASE report[1] = "new"      -> OrderNew(report[2], report[3])
    [] report[1] = "unsent"   -> UnsentRejected(report[2])
    [] report[1] = "ack"      -> OrderAck(report[2])
    [] report[1] = "fill"     -> OrderFill(report[2], report[3])
    [] report[1] = "fee"      -> FeeCharged(report[2], report[3])
    [] report[1] = "reject"   -> OrderReject(report[2])
    [] report[1] = "cancel"   -> OrderCanceled(report[2])
    [] report[1] = "modified" -> OrderModified(report[2], report[3])

ApplyWorkerReport ==
  /\ worker # <<>> /\ starting # "restoring"
  /\ Handle(Head(worker))
  /\ worker' = Tail(worker)
  /\ UNCHANGED <<world, seen, snapshot, process>>

(* The stream of an in-process venue keeps its order: a cancellation comes *)
(* after the fills.                                                        *)
Deliverable(report) ==
  report[1] = "cancel" =>
    \A c \in Simulated : report[2] = VenueId[c] =>
      \A other \in sent : other[1] = "fill" /\ other[2] = report[2] => other \in seen

ApplyPrivateReport(report) ==
  /\ Deliverable(report) /\ starting # "restoring"
  /\ report[1] = "modified" /\ report[2] \in DOMAIN oms =>
       oms[report[2]].revision < MaxRevision
  /\ Handle(report)
  /\ seen' = seen \cup {report}
  /\ UNCHANGED <<world, worker, snapshot, process>>

----------------------------------------------------------------------------
(* Admission and submission.                                               *)

(* A risk view that cannot be computed stops admission.                    *)
Admit(c) ==
  /\ trading /\ intent[c] = "idle"
  /\ IF ViewReady
       THEN /\ queued' = queued \cup {c}
            /\ intent' = [intent EXCEPT ![c] = "queued"]
            /\ UNCHANGED <<recovery, trading>>
       ELSE recovery' = TRUE /\ trading' = FALSE /\ UNCHANGED <<queued, intent>>
  /\ UNCHANGED <<oms, portfolio, evidence, filter, held, awaiting, supplied, halt,
                 tracked, latched, venue, sent, amends, worker, seen, snapshot, process>>

Placed(c) ==
  /\ venue' = [venue EXCEPT ![c].state = "open"]
  /\ sent' = sent \cup (IF c \in Simulated THEN {<<"new", VenueId[c], c>>} ELSE {})
NotPlaced == UNCHANGED <<venue, sent>>

(* An order id the worker already tracks latches its intake, and nothing   *)
(* is published for the second order.                                      *)
Publish(o, reports, track, unknown) ==
  IF o \in tracked
    THEN latched' = TRUE /\ UNCHANGED <<worker, tracked>>
    ELSE /\ worker' = worker \o reports
         /\ tracked' = IF track THEN tracked \cup {o} ELSE tracked
         /\ latched' = (latched \/ unknown)

(* The worker publishes what it knows of a submission: OrderNew under the  *)
(* venue's id or, when the call failed, under the client's; a failure that *)
(* proves nothing latches its intake.                                      *)
Submit(c) ==
  /\ intent[c] = "queued" /\ intent' = [intent EXCEPT ![c] = "submitted"]
  /\ \/ /\ worker' = Append(worker, <<"unsent", c>>)
        /\ NotPlaced /\ UNCHANGED <<tracked, latched>>
     \/ /\ ~latched
        /\ \/ Placed(c) /\ Publish(VenueId[c], <<<<"new", VenueId[c], c>>>>, TRUE, FALSE)
           \/ (Placed(c) \/ NotPlaced) /\ Publish(c, <<<<"new", c, c>>>>, TRUE, TRUE)
           \/ NotPlaced /\ Publish(c, <<<<"new", c, c>>, <<"reject", c>>>>, FALSE, FALSE)
  /\ UNCHANGED <<owners, amends, seen, snapshot, process>>

(* The worker forgets an order when its last report passes.                *)
Untrack(o) ==
  /\ o \in tracked
  /\ \E report \in sent : report[1] \in {"fill", "cancel", "reject"} /\ report[2] = o
  /\ tracked' = tracked \ {o}
  /\ UNCHANGED <<owners, intent, latched, venue, sent, amends, worker, seen, snapshot, process>>

----------------------------------------------------------------------------
(* The venue.                                                              *)

Remaining(c) == IF venue[c].state = "open" THEN venue[c].qty - Total(venue[c].fills) ELSE 0

Venue(c, record, reports) ==
  /\ venue[c].state = "open"
  /\ venue' = [venue EXCEPT ![c] = record]
  /\ sent' = sent \cup reports
  /\ UNCHANGED <<owners, intent, tracked, latched, worker, seen, snapshot, process>>

VenueAcks(c) == Venue(c, venue[c], {<<"ack", VenueId[c]>>}) /\ UNCHANGED amends

VenueFills(c, f) ==
  /\ f \notin venue[c].fills /\ FillQty[f] <= Remaining(c)
  /\ Venue(c, [venue[c] EXCEPT !.fills = @ \cup {f},
                               !.state = IF FillQty[f] = Remaining(c) THEN "closed" ELSE @],
           {<<"fill", VenueId[c], f>>}
             \cup (IF f \in HasFee THEN {<<"fee", VenueId[c], f>>} ELSE {}))
  /\ UNCHANGED amends

VenueCancels(c) ==
  /\ Venue(c, [venue[c] EXCEPT !.state = "closed"], {<<"cancel", VenueId[c]>>})
  /\ UNCHANGED amends

VenueRejects(c) ==
  /\ venue[c].fills = {}
  /\ Venue(c, [venue[c] EXCEPT !.state = "closed"], {<<"reject", VenueId[c]>>})
  /\ UNCHANGED amends

(* replace_order approves a reduction, the worker checks it again against  *)
(* what it tracks, and the venue executes it.                              *)
Replace(c, q) ==
  LET o == VenueId[c]
  IN /\ amends < MaxAmends /\ amends' = amends + 1
     /\ trading /\ o \in DOMAIN oms
     /\ Open(oms[o]) /\ oms[o].cum = 0 /\ q <= oms[o].qty
     /\ ValidReplace(o, q)
     /\ ~latched /\ o \in tracked /\ Total(venue[c].fills) < q /\ q <= venue[c].qty
     /\ Venue(c, [venue[c] EXCEPT !.qty = q], {<<"modified", o, q>>})

----------------------------------------------------------------------------
(* The authoritative readback.                                             *)

NoSnapshot == <<>>

(* Taken while trading is paused, with no submission under way and the     *)
(* worker's reports applied.                                               *)
TakeSnapshot ==
  /\ ~trading /\ snapshot = NoSnapshot /\ worker = <<>> /\ starting # "restoring"
  /\ \A c \in Client : intent[c] # "queued"
  /\ snapshot' = venue
  /\ UNCHANGED <<owners, world, worker, seen, process>>

OpenAt(snap) == {c \in Client : snap[c].state = "open"}

(* The local order an exchange order is compared with.                     *)
LocalOrder(c) ==
  IF VenueId[c] \in DOMAIN oms THEN {VenueId[c]}
  ELSE {o \in DOMAIN oms : oms[o].client = c}

OrdersMatch ==
  /\ \A c \in OpenAt(snapshot) :
       \E o \in LocalOrder(c) : Open(oms[o]) /\ oms[o].cum = Total(snapshot[c].fills)
  /\ \A o \in DOMAIN oms : Open(oms[o]) =>
       \E c \in OpenAt(snapshot) : o \in LocalOrder(c)

(* Every recent fill of the venue has been counted.                        *)
FillsMatch ==
  \A c \in Client : \A f \in snapshot[c].fills : <<VenueId[c], f>> \in portfolio.fills

PositionsMatch ==
  portfolio.position =
    FoldFunction(LAMBDA x, y : x + y, 0, [c \in Client |-> Total(snapshot[c].fills)])

TerminalIsClosed ==
  \A o \in DOMAIN oms : ~Open(oms[o]) =>
    \A c \in OpenAt(snapshot) : o # VenueId[c] /\ oms[o].client # c

(* Mutant: the readback does not compare the open orders.                  *)
MutantConfirmsHoldings ==
  /\ ~halt /\ (recovery => supplied) /\ queued = {}
  /\ FillsMatch /\ PositionsMatch
  /\ Projects(DOMAIN oms)
  /\ TerminalIsClosed

Confirms ==
  /\ ~halt /\ (recovery => supplied) /\ queued = {}
  /\ OrdersMatch /\ FillsMatch /\ PositionsMatch
  /\ Projects(DOMAIN oms)
  /\ TerminalIsClosed

(* A healthy readback releases what no open order backs and lets a         *)
(* restarted process run; any other changes nothing.                       *)
ConfirmReadback ==
  /\ snapshot # NoSnapshot /\ snapshot' = NoSnapshot
  /\ IF Confirms
       THEN /\ held' = Restrict(held, {o \in DOMAIN held : Open(oms[o])})
            /\ awaiting' = {} /\ recovery' = FALSE /\ starting' = "no"
       ELSE UNCHANGED <<held, awaiting, recovery, starting>>
  /\ UNCHANGED <<oms, portfolio, evidence, filter, queued, supplied, halt, trading,
                 world, worker, seen, disk, crashes>>

Pause ==
  /\ trading /\ trading' = FALSE
  /\ UNCHANGED <<oms, portfolio, evidence, filter, reservations, halt, world, worker,
                 seen, snapshot, process>>

Resume ==
  /\ ~trading /\ starting = "no" /\ snapshot = NoSnapshot
  /\ ~halt /\ queued = {} /\ ViewReady
  /\ trading' = TRUE
  /\ UNCHANGED <<oms, portfolio, evidence, filter, reservations, halt, world, worker,
                 seen, snapshot, process>>

----------------------------------------------------------------------------
(* Checkpoints, restarts and the repair of a halt.                         *)

NoFunction == [o \in {} |-> 0]
EmptyPortfolio ==
  [orders |-> {}, fills |-> {}, fees |-> {}, position |-> 0, paid |-> 0, journal |-> <<>>]
NoReservations == [queued |-> {}, held |-> NoFunction, awaiting |-> {}]

ExportReservations == [queued |-> queued, held |-> held, awaiting |-> awaiting]

(* Each owner is saved on its own.                                         *)
Save ==
  /\ starting = "no" /\ crashes < MaxCrashes
  /\ \/ disk' = [disk EXCEPT !.oms = oms, !.omsEvidence = evidence \cap {"oms"}]
     \/ disk' = [disk EXCEPT !.portfolio = portfolio,
                             !.portfolioEvidence = evidence \cap {"portfolio"}]
     \/ disk' = [disk EXCEPT !.reservations = ExportReservations]
  /\ UNCHANGED <<owners, world, worker, seen, snapshot, starting, crashes>>

Crash ==
  /\ crashes < MaxCrashes /\ crashes' = crashes + 1
  /\ starting' = "restoring"
  /\ oms' = NoFunction /\ portfolio' = EmptyPortfolio /\ evidence' = {} /\ filter' = <<>>
  /\ queued' = {} /\ held' = NoFunction /\ awaiting' = {}
  /\ recovery' = FALSE /\ supplied' = FALSE /\ halt' = FALSE /\ trading' = FALSE
  /\ worker' = <<>> /\ tracked' = {} /\ latched' = FALSE /\ snapshot' = NoSnapshot
  /\ intent' = [c \in Client |-> IF intent[c] = "queued" THEN "lost" ELSE intent[c]]
  /\ UNCHANGED <<venue, sent, amends, seen, disk>>

(* Restored owners make any reservation checkpoint supplied before stale.  *)
OwnersRestored == recovery' = TRUE /\ supplied' = FALSE /\ trading' = FALSE

ImportOms ==
  /\ starting = "restoring"
  /\ oms' = disk.oms
  /\ evidence' = (evidence \ {"oms"}) \cup disk.omsEvidence
  /\ halt' = (halt \/ disk.omsEvidence # {})
  /\ OwnersRestored
  /\ UNCHANGED <<portfolio, filter, queued, held, awaiting, world, worker, seen,
                 snapshot, process>>

(* The replay filter is rebuilt from the checkpoint's journal before the   *)
(* portfolio has accepted the checkpoint.                                  *)
ImportPortfolio ==
  /\ starting = "restoring"
  /\ filter' = disk.portfolio.journal
  /\ halt' = (halt \/ disk.portfolioEvidence # {})
  /\ OwnersRestored
  /\ \/ /\ portfolio' = disk.portfolio
        /\ evidence' = (evidence \ {"portfolio"}) \cup disk.portfolioEvidence
     \/ RefusedImports /\ UNCHANGED <<portfolio, evidence>>
  /\ UNCHANGED <<oms, queued, held, awaiting, world, worker, seen, snapshot, process>>

(* Reservations that are still unresolved are never discarded.             *)
ImportReservations(checkpoint) ==
  /\ ~trading /\ (starting = "restoring" \/ recovery)
  /\ recovery' = TRUE
  /\ IF (queued # {} \/ DOMAIN held # {}) /\ ExportReservations # checkpoint
       THEN UNCHANGED <<queued, held, awaiting, supplied>>
       ELSE /\ queued' = checkpoint.queued /\ held' = checkpoint.held
            /\ awaiting' = checkpoint.awaiting /\ supplied' = TRUE
  /\ UNCHANGED <<oms, portfolio, evidence, filter, halt, trading, world, worker, seen,
                 snapshot, process>>

(* The restored process starts to take reports.                            *)
Restored ==
  /\ starting = "restoring" /\ starting' = "readback"
  /\ UNCHANGED <<owners, world, worker, seen, snapshot, disk, crashes>>

(* clear_reconciliation_halt: exception-free checkpoints end the halt; a   *)
(* report that was retained may then be applied again.                     *)
ClearHalt ==
  /\ halt /\ starting # "restoring" /\ snapshot = NoSnapshot
  /\ evidence' = {} /\ halt' = FALSE
  /\ filter' = portfolio.journal
  /\ OwnersRestored
  /\ UNCHANGED <<oms, portfolio, queued, held, awaiting, world, worker, seen, snapshot,
                 process>>

----------------------------------------------------------------------------
Init ==
  /\ oms = NoFunction /\ portfolio = EmptyPortfolio /\ evidence = {} /\ filter = <<>>
  /\ queued = {} /\ held = NoFunction /\ awaiting = {}
  /\ recovery = FALSE /\ supplied = FALSE /\ halt = FALSE /\ trading = TRUE
  /\ intent = [c \in Client |-> "idle"] /\ tracked = {} /\ latched = FALSE /\ worker = <<>>
  /\ venue = [c \in Client |-> [state |-> "none", qty |-> Qty[c], fills |-> {}]]
  /\ sent = {} /\ seen = {} /\ snapshot = NoSnapshot
  /\ disk = [oms |-> NoFunction, omsEvidence |-> {}, portfolio |-> EmptyPortfolio,
             portfolioEvidence |-> {}, reservations |-> NoReservations]
  /\ starting = "no" /\ crashes = 0 /\ amends = 0

VenueStep(c) ==
  \/ VenueAcks(c)
  \/ \E f \in Fill : VenueFills(c, f)
  \/ VenueCancels(c)
  \/ VenueRejects(c)
  \/ \E q \in 1..Qty[c] : Replace(c, q)

Recover ==
  \/ Save \/ Crash \/ ImportOms \/ ImportPortfolio \/ Restored
  \/ \E checkpoint \in {disk.reservations, ExportReservations} :
       ImportReservations(checkpoint)
  \/ ClearHalt

Next ==
  \/ ApplyWorkerReport
  \/ \E report \in sent : ApplyPrivateReport(report)
  \/ \E c \in Client : Admit(c) \/ Submit(c) \/ VenueStep(c)
  \/ \E o \in Id : Untrack(o)
  \/ TakeSnapshot \/ ConfirmReadback \/ Pause \/ Resume
  \/ Recover

Spec == Init /\ [][Next]_vars

(* The worker's loop submits and publishes, the engine drains its reports, *)
(* and the private stream delivers each report at least once.              *)
FirstDelivery(report) == report \in sent \ seen /\ ApplyPrivateReport(report)

LiveSpec ==
  /\ Spec
  /\ WF_vars(ApplyWorkerReport)
  /\ \A c \in Client : WF_vars(Submit(c))
  /\ \A c \in Client, f \in Fill : WF_vars(FirstDelivery(<<"fill", VenueId[c], f>>))

----------------------------------------------------------------------------
(* What each owner, journal and latch may hold.                            *)
TypeOK ==
  /\ DOMAIN oms \subseteq Id
  /\ \A o \in DOMAIN oms :
       oms[o] \in [client : Client, status : Status, qty : Nat, cum : Nat,
                   fills : SUBSET Fill, revision : Nat]
  /\ portfolio.fills \subseteq Id \X Fill /\ portfolio.fees \subseteq Id \X Fill
  /\ portfolio.position \in Nat /\ portfolio.paid \in Nat
  /\ Len(filter) <= Capacity /\ Len(portfolio.journal) <= Capacity
  /\ queued \subseteq Client /\ DOMAIN held \subseteq Id
  /\ \A o \in DOMAIN held : held[o] \in [client : Client, revision : Nat]
  /\ awaiting \subseteq DOMAIN held
  /\ {recovery, supplied, halt, trading, latched} \subseteq BOOLEAN
  /\ starting \in {"no", "restoring", "readback"}

(* Every fill is counted once, by the order and by the position, however   *)
(* often it is reported and although the replay filter forgets.            *)
CountedOnce ==
  /\ \A o \in DOMAIN oms : oms[o].cum = Total(oms[o].fills) /\ oms[o].cum <= oms[o].qty
  /\ portfolio.position =
       FoldFunction(LAMBDA x, y : x + y, 0, [o \in Id |-> Total(FillsOf(o))])

(* OMS and portfolio accept a fill together or not at all.                 *)
BooksAgree ==
  crashes = 0 => \A o \in DOMAIN oms : oms[o].fills = FillsOf(o)

Sum(f) == FoldFunction(LAMBDA x, y : x + y, 0, f)

(* What the venue made, or may still make, the account hold.               *)
Exposure == Sum([c \in Client |-> Total(venue[c].fills) + Remaining(c)])

Reserved ==
  Sum([c \in queued |-> Qty[c]])
    + Sum([o \in DOMAIN held |-> IF o \in DOMAIN oms THEN oms[o].qty - oms[o].cum ELSE 0])

(* While intents are admitted, the position and the reservations account   *)
(* for all that the orders have done and may still do at the venue.        *)
ExposureCovered == trading => Exposure <= portfolio.position + Reserved

(* After torn checkpoints the two owners agree again on every open order   *)
(* before trading resumes.                                                 *)
OpenOrdersAgree ==
  trading => \A o \in DOMAIN oms : Open(oms[o]) => oms[o].fills = FillsOf(o)

(* A key that makes the engine skip a report belongs to a counted event.   *)
FilterCounted ==
  \A key \in Keys(filter) :
    <<key[2], key[3]>> \in (IF key[1] = "fill" THEN portfolio.fills ELSE portfolio.fees)
FilterCountedWhileTrading == trading => FilterCounted

(* The owners between two reports: each fill is counted once, and by OMS   *)
(* and portfolio together.                                                 *)
BooksInv == TypeOK /\ CountedOnce /\ BooksAgree

(* Whatever mixture of checkpoints a process restored, it trades only once *)
(* the owners agree on every open order and the replay filter skips        *)
(* nothing that nobody counted (readback before set_trading).              *)
TradesReconciled == OpenOrdersAgree /\ FilterCountedWhileTrading

(* Within one process a terminal order never opens again.                  *)
TerminalStays ==
  [][starting # "restoring" /\ crashes' = crashes =>
       \A o \in DOMAIN oms : ~Open(oms[o]) => o \in DOMAIN oms' /\ ~Open(oms'[o])]_vars

(* The venue's fill reaches the portfolio, or reservations stay in         *)
(* recovery, from which only a readback that shows it counted releases; a  *)
(* process that died owes it only once it has been restored.               *)
FillsAccounted ==
  \A c \in Client, f \in Fill :
    f \in venue[c].fills ~>
      <<VenueId[c], f>> \in portfolio.fills \/ recovery \/ starting # "no"

(* A queued reservation is bound or released, unless the engine enters     *)
(* recovery, the worker latches or the process dies.                       *)
QueuedSettles ==
  \A c \in Client :
    c \in queued ~> c \notin queued \/ recovery \/ latched \/ starting # "no"

(* The comment on the replay filter: the engine commits a deduplication    *)
(* key only after OMS and Portfolio have both accepted the event.  A       *)
(* refused portfolio checkpoint breaks it, while nothing trades.           *)
CommittedKeysAccepted == FilterCounted
====
