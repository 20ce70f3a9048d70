---------------------------- MODULE MessageQueue ----------------------------
(***************************************************************************)
(* What a connection promises to the layers above it: the messages of the  *)
(* peer arrive whole, once and in the order in which they were sent, and   *)
(* none is missing until something fails.  Several of them may arrive with *)
(* one job of the network layer.                                           *)
(***************************************************************************)
EXTENDS Naturals, Sequences

CONSTANTS
    Messages,   \* messages of the peer
    MaxSent     \* bound: messages sent in a behaviour

VARIABLES
    sent,       \* messages sent so far
    delivered,  \* positions in sent of the messages that were processed
    failed      \* did an allocation fail, or was a message too large?

vars == <<sent, delivered, failed>>

Last == IF delivered = <<>> THEN 0 ELSE delivered[Len(delivered)]

Init == sent = <<>> /\ delivered = <<>> /\ failed = FALSE

Send(m) ==
    /\ Len(sent) < MaxSent
    /\ sent' = Append(sent, m)
    /\ UNCHANGED <<delivered, failed>>

(* Messages that follow each other; none is left out until something fails.*)
Deliver(first, n) ==
    /\ first + n - 1 <= Len(sent)
    /\ ~failed => first = Last + 1
    /\ delivered' = delivered \o [i \in 1..n |-> first + i - 1]
    /\ UNCHANGED sent

Arrive ==
    \E first \in (Last + 1)..Len(sent), n \in 1..Len(sent) : Deliver(first, n) /\ failed' = failed

Fail ==
    failed' /\ \E first \in (Last + 1)..(Len(sent) + 1), n \in 0..Len(sent) : Deliver(first, n)

Next ==
    \/ \E m \in Messages : Send(m)
    \/ Arrive
    \/ Fail

(* Until something fails, every message is delivered.                      *)
Spec == Init /\ [][Next]_vars /\ WF_vars(~failed /\ Arrive)
=============================================================================
