------------------------------- MODULE MCWire -------------------------------
(***************************************************************************)
(* One exchange with a peer, for TLC: an item of Codec or a datagram of    *)
(* Delivery. Once one of them has begun the other stays idle.              *)
(***************************************************************************)
EXTENDS MCCodec, MCDelivery

wireVars == <<vars, deliveryVars>>

WireInit == Init /\ DeliveryInit

WireNext ==
    \/ stage = "idle" /\ Next /\ UNCHANGED deliveryVars
    \/ pc = "idle" /\ DeliveryNext /\ UNCHANGED vars

WireSpec == WireInit /\ [][WireNext]_wireVars

=============================================================================
