-------------------------- MODULE DataPlaneProofs --------------------------
(***************************************************************************)
(* Proofs about the data planes together, for every set of sockets,         *)
(* sessions and streams and every scenario.                                 *)
(***************************************************************************)
EXTENDS MCDataPlane, SctpDataChannelProofs, WtDataChannelProofs

-----------------------------------------------------------------------------
(* The data planes together: one of them runs, the others stand still. *)

LEMMA PlaneStep == [Next]_vars => [DcNext]_dcAll /\ [WtNext]_wtAll
BY Zenon DEF Next, vars

PlanesInv == SilentInv /\ ChanInv /\ HandleInv /\ LateInv /\ StreamsHeldOnce /\ PayloadInv

LEMMA PlanesAlways == Spec => []PlanesInv
<1>1. Init => PlanesInv
  <2>1. WtInit => PayloadInv
    BY Zenon DEF WtInit, PayloadInv, PayloadValues, NoPayload
  <2> QED BY ZenonT(30), <2>1, SilentInit, ChanInit, HandleInit, LateInit, StreamsInit DEF Init, PlanesInv
<1>2. PlanesInv /\ [DcNext]_dcAll /\ [WtNext]_wtAll => PlanesInv'
  BY ZenonT(30), SilentNext, ChanNext, HandleNext, LateNext, StreamsNext, PayloadNext
     DEF PlanesInv, HandleInv
<1> QED BY <1>1, <1>2, PlaneStep, PTL DEF Spec

\* Over either transport, close() of a data channel ends delivery: over SCTP
\* nothing reaches on_message once it has returned; over WebTransport no
\* datagram or peer-stream event that starts later does, a stream installed
\* while close() ran apart, and of those already under way at most one does
\* (close() of both data channels; the own WebTransport stream is not covered).
THEOREM PlanesCloseEndsDelivery == Spec => CloseEndsDelivery
<1>1. PlanesInv /\ [DcNext]_dcAll /\ [WtNext]_wtAll
      => [SilentOnceClosed /\ LateInboundIgnored]_vars
  BY ZenonT(30), SilentStep, LateStep DEF PlanesInv
<1>2. PlanesInv => OneAfterClose
  BY Zenon, LateGives DEF PlanesInv
<1> QED BY <1>1, <1>2, PlanesAlways, PlaneStep, PTL DEF Spec, CloseEndsDelivery

\* The same of the composition of the data planes.
THEOREM PlanesAsOpened == Spec => []ChannelAsOpened
<1> QED BY PlanesAlways, ChanGives, PTL DEF PlanesInv
=============================================================================
