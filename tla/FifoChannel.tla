---------------------------- MODULE FifoChannel ----------------------------
(***************************************************************************)
(* What a bounded single-producer single-consumer channel promises its two *)
(* endpoints: items come out in the order they went in, none is lost,      *)
(* duplicated or invented, and at most Bound of them are in flight.  The   *)
(* ring buffer of the engine's dataflow layer is shown to implement it     *)
(* (module SpscRing), and the modules above it use a channel of this kind  *)
(* for the intent and the report queue.                                    *)
(***************************************************************************)
EXTENDS Naturals, Sequences

CONSTANTS Item,    \* what can be sent
          Bound    \* how many items may be in flight

VARIABLES sent,    \* everything accepted from the producer, oldest first
          rcvd     \* everything handed to the consumer, oldest first

vars == <<sent, rcvd>>

Init ==
    /\ sent = << >>
    /\ rcvd = << >>

\* An accepted send: there was room for one more item.
Send(item) ==
    /\ Len(sent) - Len(rcvd) < Bound
    /\ sent' = Append(sent, item)
    /\ UNCHANGED rcvd

\* A successful receive hands over the oldest item still in flight.
Receive ==
    /\ Len(rcvd) < Len(sent)
    /\ rcvd' = Append(rcvd, sent[Len(rcvd) + 1])
    /\ UNCHANGED sent

Next ==
    \/ \E item \in Item : Send(item)
    \/ Receive

Spec == Init /\ [][Next]_vars
=============================================================================
