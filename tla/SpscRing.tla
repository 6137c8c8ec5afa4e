------------------------------ MODULE SpscRing ------------------------------
(***************************************************************************)
(* SpscRingBuffer of dataflow/ring_buffer.rs, one step per shared-memory   *)
(* access.  Producer and consumer run on different threads.  Each owns one *)
(* index (the producer head, the consumer tail), publishes it with a       *)
(* release store and learns the other one with an acquire load.  Such a    *)
(* load may return any value of the other index that is not older than the *)
(* last one this side saw, so a load picks its value from that window      *)
(* (pSeen and cSeen count the stores a side has seen).  The slots are      *)
(* plain memory: SlotReuseOrdered and NoSlotRace state that no two         *)
(* unordered accesses meet in one.                                         *)
(***************************************************************************)
EXTENDS Integers, Sequences

CONSTANTS Item,        \* values that are pushed
          None,        \* the content of a slot that holds no item
          Capacity,    \* number of slots; new() rounds it to a power of two
          MaxItems     \* bound on the number of pushes of a behaviour

ASSUME CapacityAssumption == Capacity \in Nat /\ Capacity >= 2
ASSUME NoneAssumption == None \notin Item
ASSUME MaxItemsAssumption == MaxItems \in Nat

VARIABLES buffer,   \* the slots, None when empty
          head,     \* next slot to write; stored by the producer only
          tail,     \* next slot to read; stored by the consumer only
          ppc,      \* producer: "idle", "check", "write", "publish"
          pItem,    \* the item being pushed
          pTail,    \* the tail its acquire load returned
          pSeen,    \* how many stores of tail the producer has seen
          cpc,      \* consumer: "idle", "check", "take", "release"
          cItem,    \* what slot.take() returned
          cHead,    \* the head its acquire load returned
          cSeen,    \* how many stores of head the consumer has seen
          prefix,   \* pops left of a captured prefix, 0 outside one
          sent,     \* published items (history)
          rcvd      \* returned items (history)

producerVars == <<ppc, pItem, pTail, pSeen>>
consumerVars == <<cpc, cItem, cHead, cSeen, prefix>>
vars == <<buffer, head, tail, producerVars, consumerVars, sent, rcvd>>

Slots == 0 .. Capacity - 1

\* (index + 1) & (capacity - 1), the capacity being a power of two.
NextIndex(index) == (index + 1) % Capacity

Init ==
    /\ buffer = [s \in Slots |-> None]
    /\ head = 0
    /\ tail = 0
    /\ ppc = "idle" /\ pItem = None /\ pTail = 0 /\ pSeen = 0
    /\ cpc = "idle" /\ cItem = None /\ cHead = 0 /\ cSeen = 0
    /\ prefix = 0
    /\ sent = << >>
    /\ rcvd = << >>

-----------------------------------------------------------------------------
\* try_push: its own head is exact, the tail may be an older one.
PushLoad(item) ==
    /\ ppc = "idle"
    /\ Len(sent) < MaxItems
    /\ \E seen \in pSeen .. Len(rcvd) :
          /\ pSeen' = seen
          /\ pTail' = seen % Capacity
    /\ pItem' = item
    /\ ppc' = "check"
    /\ UNCHANGED <<buffer, head, tail, consumerVars, sent, rcvd>>

\* next_head == tail: the item is handed back to the caller.
PushFull ==
    /\ ppc = "check"
    /\ NextIndex(head) = pTail
    /\ ppc' = "idle"
    /\ pItem' = None
    /\ UNCHANGED <<buffer, head, tail, pTail, pSeen, consumerVars, sent, rcvd>>

\* Mutant: the full test compares head itself, so the last free slot is used.
MutantPushRoom ==
    /\ ppc = "check"
    /\ ppc' = "write"
    /\ UNCHANGED <<buffer, head, tail, pItem, pTail, pSeen, consumerVars,
                   sent, rcvd>>

PushRoom ==
    /\ ppc = "check"
    /\ NextIndex(head) # pTail
    /\ ppc' = "write"
    /\ UNCHANGED <<buffer, head, tail, pItem, pTail, pSeen, consumerVars,
                   sent, rcvd>>

PushWrite ==
    /\ ppc = "write"
    /\ buffer' = [buffer EXCEPT ![head] = pItem]
    /\ ppc' = "publish"
    /\ UNCHANGED <<head, tail, pItem, pTail, pSeen, consumerVars, sent, rcvd>>

PushPublish ==
    /\ ppc = "publish"
    /\ head' = NextIndex(head)
    /\ sent' = Append(sent, pItem)
    /\ ppc' = "idle"
    /\ pItem' = None
    /\ UNCHANGED <<buffer, tail, pTail, pSeen, consumerVars, rcvd>>

-----------------------------------------------------------------------------
\* Mutant: pending_len counts the slots up to the head inclusive.
MutantCapturePrefix ==
    /\ cpc = "idle"
    /\ prefix = 0
    /\ \E seen \in cSeen .. Len(sent) :
          /\ cSeen' = seen
          /\ cHead' = seen % Capacity
          /\ prefix' = (((seen % Capacity) - tail) + 1) % Capacity
    /\ UNCHANGED <<buffer, head, tail, producerVars, cpc, cItem, sent, rcvd>>

\* pending_len: the consumer captures how many published items it can see;
\* the drain that follows pops that many (drain_pause_readback_prefix).
CapturePrefix ==
    /\ cpc = "idle"
    /\ prefix = 0
    /\ \E seen \in cSeen .. Len(sent) :
          /\ cSeen' = seen
          /\ cHead' = seen % Capacity
          /\ prefix' = ((seen % Capacity) - tail) % Capacity
    /\ UNCHANGED <<buffer, head, tail, producerVars, cpc, cItem, sent, rcvd>>

\* try_pop: its own tail is exact, the head may be an older one.
PopLoad ==
    /\ cpc = "idle"
    /\ \E seen \in cSeen .. Len(sent) :
          /\ cSeen' = seen
          /\ cHead' = seen % Capacity
    /\ cpc' = "check"
    /\ UNCHANGED <<buffer, head, tail, producerVars, cItem, prefix, sent, rcvd>>

\* tail == head: nothing to take, the drain loop ends.
PopEmpty ==
    /\ cpc = "check"
    /\ tail = cHead
    /\ cpc' = "idle"
    /\ prefix' = 0
    /\ UNCHANGED <<buffer, head, tail, producerVars, cItem, cHead, cSeen,
                   sent, rcvd>>

PopReady ==
    /\ cpc = "check"
    /\ tail # cHead
    /\ cpc' = "take"
    /\ UNCHANGED <<buffer, head, tail, producerVars, cItem, cHead, cSeen,
                   prefix, sent, rcvd>>

\* slot.take() empties the slot.
PopTake ==
    /\ cpc = "take"
    /\ cItem' = buffer[tail]
    /\ buffer' = [buffer EXCEPT ![tail] = None]
    /\ cpc' = "release"
    /\ UNCHANGED <<head, tail, producerVars, cHead, cSeen, prefix, sent, rcvd>>

PopRelease ==
    /\ cpc = "release"
    /\ tail' = NextIndex(tail)
    /\ rcvd' = Append(rcvd, cItem)
    /\ cItem' = None
    /\ cpc' = "idle"
    /\ prefix' = IF prefix > 0 THEN prefix - 1 ELSE 0
    /\ UNCHANGED <<buffer, head, producerVars, cHead, cSeen, sent>>

-----------------------------------------------------------------------------
Producer ==
    \/ \E item \in Item : PushLoad(item)
    \/ PushFull \/ PushRoom \/ PushWrite \/ PushPublish

Consumer ==
    \/ CapturePrefix
    \/ PopLoad \/ PopEmpty \/ PopReady \/ PopTake \/ PopRelease

Next == Producer \/ Consumer

Spec == Init /\ [][Next]_vars

-----------------------------------------------------------------------------
\* Type invariant: indices stay within the slots, and a push in progress
\* carries an item.
TypeOK ==
    /\ buffer \in [Slots -> Item \cup {None}]
    /\ head \in Slots
    /\ tail \in Slots
    /\ ppc \in {"idle", "check", "write", "publish"}
    /\ pItem \in Item \cup {None}
    /\ ppc # "idle" => pItem \in Item
    /\ pTail \in Slots
    /\ pSeen \in Nat
    /\ cpc \in {"idle", "check", "take", "release"}
    /\ cItem \in Item \cup {None}
    /\ cHead \in Slots
    /\ cSeen \in Nat
    /\ prefix \in Slots
    /\ sent \in Seq(Item)
    /\ rcvd \in Seq(Item \cup {None})

\* The indices are the numbers of published and returned items, wrapped.
IndexInv ==
    /\ Len(rcvd) <= Len(sent)
    /\ Len(sent) - Len(rcvd) < Capacity
    /\ head = Len(sent) % Capacity
    /\ tail = Len(rcvd) % Capacity

\* What each side saw is a past value of the other index, and the branch it
\* took on that value still holds.
ViewInv ==
    /\ pSeen <= Len(rcvd)
    /\ pTail = pSeen % Capacity
    /\ cSeen <= Len(sent)
    /\ cHead = cSeen % Capacity
    /\ Len(sent) - pSeen < Capacity
    /\ ppc \in {"write", "publish"} => Len(sent) + 1 - pSeen < Capacity
    /\ Len(rcvd) <= cSeen
    /\ cpc \in {"take", "release"} => Len(rcvd) < cSeen
    /\ prefix <= cSeen - Len(rcvd)

\* Which items the slots hold: the published ones that were not taken yet.
SlotInv ==
    /\ \A k \in Len(rcvd) + 1 .. Len(sent) :
          buffer[(k - 1) % Capacity] =
             IF cpc = "release" /\ k = Len(rcvd) + 1 THEN None ELSE sent[k]
    /\ ppc = "publish" => buffer[head] = pItem
    /\ cpc = "release" => cItem = sent[Len(rcvd) + 1]
    /\ \A k \in 1 .. Len(rcvd) : rcvd[k] = sent[k]

\* The inductive invariant behind the ring's safety: counts, views and slots
\* agree between any two memory accesses of try_push and try_pop.
Inv == TypeOK /\ IndexInv /\ ViewInv /\ SlotInv

-----------------------------------------------------------------------------
\* The producer's write and the consumer's take never meet in one slot: the
\* unsafe slot accesses of try_push and try_pop are data-race free.
NoSlotRace == ppc = "write" /\ cpc = "take" => head # tail

\* Before try_push writes a slot again, the take of the item that was there
\* lies in the part of tail's history the producer's acquire load saw; before
\* try_pop takes from a slot, its write lies in what the consumer saw of head.
SlotReuseOrdered ==
    /\ ppc = "write" => Len(sent) + 1 <= pSeen + Capacity
    /\ cpc = "take" => Len(rcvd) + 1 <= cSeen

\* A prefix captured with pending_len is really there: none of the pops that
\* drain it finds the ring empty, whatever the producer does meanwhile.
PrefixAlwaysPops == cpc = "check" /\ prefix > 0 => tail # cHead

\* The consumer gets exactly what was published, in order, and nothing that
\* a slot held before or after: try_pop never returns an empty slot.
ReceivedIsPrefix ==
    /\ Len(rcvd) <= Len(sent)
    /\ \A k \in 1 .. Len(rcvd) : rcvd[k] = sent[k]

\* The ring implements the bounded channel with one slot kept free.
Channel == INSTANCE FifoChannel WITH Bound <- Capacity - 1

ImplementsChannel == Channel!Spec
=============================================================================
