---------------------------- MODULE FifoDelivery ----------------------------
(***************************************************************************)
(* What an ordered, reliable datagram service promises its two users: the  *)
(* receiver gets what the sender's calls accepted, in order, once each.    *)
(***************************************************************************)
EXTENDS Naturals, Sequences

CONSTANT Payload

VARIABLES
    accepted,           \* payloads accepted from the sender, in order
    delivered           \* payloads made available to the receiver, in order

Init == accepted = <<>> /\ delivered = <<>>

Accept ==
    /\ \E payload \in Payload : accepted' = Append(accepted, payload)
    /\ UNCHANGED delivered

Deliver ==
    /\ Len(delivered) < Len(accepted)
    /\ delivered' = Append(delivered, accepted[Len(delivered) + 1])
    /\ UNCHANGED accepted

Next == Accept \/ Deliver

Spec == Init /\ [][Next]_<<accepted, delivered>>
=============================================================================
