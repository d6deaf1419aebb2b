------------------------------ MODULE Delivery ------------------------------
(***************************************************************************)
(* A datagram on its way from a device to the handlers of handlePacket     *)
(* (client.go): sent by the device, carried by routers, which put the      *)
(* device's network address into the NPDU, re-sent by a BBMD, which wraps  *)
(* it as a forwarded NPDU, and perhaps cut by the receive buffer.          *)
(***************************************************************************)
EXTENDS Frames

CONSTANTS PDUs,       \* what devices send: [type, invokeID, service, data]
          Devices,    \* what they announce: [device, maxAPDU, segmentation,
                      \* vendor]
          OriginIP,   \* the device's IP address
          BBMDIP,     \* the IP address of the BBMD
          MACs        \* addresses on networks behind a router

\* A PDU whose fields fit their bytes. Its type is in the high four bits of the
\* first one, so it is not segmented; acks without data, rejects and aborts carry
\* none, and an unconfirmed request has no invoke ID. An I-Am is in Devices.
IsPDU(p) ==
    /\ p = [type |-> p.type, invokeID |-> p.invokeID, service |-> p.service,
            data |-> p.data]
    /\ p.type \in {16 * k : k \in 0..15}
    /\ p.invokeID \in 0..255 /\ p.service \in 0..255 /\ p.data \in Seq(0..255)
    /\ p.type \in {SimpleAck, RejectPDU, AbortPDU} => p.data = <<>>
    /\ p.type = UnconfirmedRequest => p.invokeID = 0 /\ p.service # ServiceIAm

IsDevice(d) ==
    /\ d = [device |-> d.device, maxAPDU |-> d.maxAPDU,
            segmentation |-> d.segmentation, vendor |-> d.vendor]
    /\ d.device \in Nat /\ d.device < 4194304
    /\ d.maxAPDU \in Nat /\ d.maxAPDU < 65536
    /\ d.segmentation \in 0..255
    /\ d.vendor \in Nat /\ d.vendor < 65536

\* The length of an address is one byte.
ASSUME DeliveryAssumption ==
    /\ \A ip \in {OriginIP, BBMDIP} : ip \in Seq(0..255) /\ Len(ip) = 4
    /\ \A p \in PDUs : IsPDU(p)
    /\ \A d \in Devices : IsDevice(d)
    /\ \A m \in MACs : m \in Seq(0..255) /\ Len(m) \in 1..255

VARIABLES stage,      \* "idle", "wire", "received"
          pdu,        \* the device's PDU
          npdu,       \* the network header so far
          dest,       \* TRUE when it has a destination specifier
          mac,        \* the network address in it, <<>> if none
          message,    \* TRUE for a message of the network layer
          forwarded,  \* TRUE once a BBMD has wrapped it
          lost,       \* bytes missing at the end
          handled,    \* the handler reached, with the APDU and the address
          iam         \* the device handleIAm decodes

deliveryVars == <<stage, pdu, npdu, dest, mac, message, forwarded, lost,
                  handled, iam>>

-----------------------------------------------------------------------------
\* The PDU as a device encodes it; requests as this library does.
Encode(p) ==
    CASE p.type = ConfirmedRequest ->
           EncodeConfirmedRequest(p.invokeID, p.service, p.data, 0, 5)
      [] p.type = UnconfirmedRequest ->
           EncodeUnconfirmedRequest(p.service, p.data)
      [] OTHER -> <<p.type, p.invokeID, p.service>> \o p.data

\* The parameters of an I-Am request.
EncodeIAm(d) ==
    EncodeApplicationTag(TagObjectID,
        EncodeObjectIdentifier([type |-> ObjectTypeDevice,
                                instance |-> d.device]))
    \o EncodeApplicationTag(2, EncodeUnsigned(d.maxAPDU))
    \o EncodeApplicationTag(9, EncodeUnsigned(d.segmentation))
    \o EncodeApplicationTag(2, EncodeUnsigned(d.vendor))

IAm(d) == [type |-> UnconfirmedRequest, invokeID |-> 0,
           service |-> ServiceIAm, data |-> EncodeIAm(d)]

\* A forwarded NPDU carries the address of the sender after the BVLC header.
Datagram ==
    LET body == npdu \o Encode(pdu)
    IN  IF forwarded
        THEN EncodeBVLC(BVLCForwardedNPDU, 6 + Len(body))
                 \o OriginIP \o PutUint16(47808) \o body
        ELSE EncodeBVLC(BVLCOriginalUnicastNPDU, Len(body)) \o body

-----------------------------------------------------------------------------
DeliveryInit ==
    /\ stage = "idle"
    /\ pdu = IAm([device |-> 0, maxAPDU |-> 0, segmentation |-> 0,
                  vendor |-> 0])
    /\ npdu = <<>>
    /\ dest = FALSE
    /\ mac = <<>>
    /\ message = FALSE
    /\ forwarded = FALSE
    /\ lost = 0
    /\ handled = Dropped
    /\ iam = IAmError

\* A device sends its PDU with a header of its own.
Emit(p, header, hasDest) ==
    /\ stage = "idle"
    /\ stage' = "wire"
    /\ pdu' = p
    /\ npdu' = header
    /\ dest' = hasDest
    /\ UNCHANGED <<mac, message, forwarded, lost, handled, iam>>

Unicast == \E p \in PDUs : Emit(p, EncodeNPDU(FALSE, 0), FALSE)

Broadcast ==
    \E d \in Devices :
        Emit(IAm(d), EncodeNPDUWithDest(65535, <<>>, 255, FALSE, 0), TRUE)

ToStation ==
    \E p \in PDUs, m \in MACs :
        Emit(p, EncodeNPDUWithDest(7, m, 255, TRUE, 3), TRUE)

\* A router adds the device's address. It goes behind the destination address
\* and before the hop count, which is the last byte of a header with both
\* (ASHRAE 135, clause 6.2.2: DNET, DLEN, DADR, SNET, SLEN, SADR, hop count).
Route ==
    /\ stage = "wire"
    /\ mac = <<>>
    /\ ~message
    /\ ~forwarded
    /\ lost = 0
    /\ \E m \in MACs :
        /\ mac' = m
        /\ npdu' = IF dest
                   THEN <<1, npdu[2] + 8>> \o SubSeq(npdu, 3, Len(npdu) - 1)
                            \o PutUint16(5) \o <<Len(m)>> \o m
                            \o <<npdu[Len(npdu)]>>
                   ELSE <<1, npdu[2] + 8>> \o Drop(npdu, 2)
                            \o PutUint16(5) \o <<Len(m)>> \o m
    /\ UNCHANGED <<stage, pdu, dest, message, forwarded, lost, handled, iam>>

\* A router's own message, with or without a vendor identifier.
NetworkMessage ==
    /\ stage = "wire"
    /\ ~message
    /\ ~forwarded
    /\ lost = 0
    /\ \E type \in {<<1>>, <<127>>, <<128, 0, 7>>} :
        npdu' = <<1, npdu[2] + 128>> \o Drop(npdu, 2) \o type
    /\ message' = TRUE
    /\ UNCHANGED <<stage, pdu, dest, mac, forwarded, lost, handled, iam>>

Forward ==
    /\ stage = "wire"
    /\ ~forwarded
    /\ lost = 0
    /\ forwarded' = TRUE
    /\ UNCHANGED <<stage, pdu, npdu, dest, mac, message, lost, handled, iam>>

CutDatagram ==
    /\ stage = "wire"
    /\ lost = 0
    /\ lost' \in 1..Len(Datagram)
    /\ UNCHANGED <<stage, pdu, npdu, dest, mac, message, forwarded, handled,
                   iam>>

\* handlePacket, with the decoding of handleIAm. The datagram comes from the
\* BBMD when that is what sent it.
ReceiveDatagram ==
    LET data == SubSeq(Datagram, 1, Len(Datagram) - lost)
    IN  /\ stage = "wire"
        /\ stage' = "received"
        /\ handled' = HandlePacket(data,
                                   IF forwarded THEN BBMDIP ELSE OriginIP)
        /\ iam' = IF handled'.to = "handleIAm"
                  THEN DecodeIAm(handled'.apdu.data) ELSE IAmError
        /\ UNCHANGED <<pdu, npdu, dest, mac, message, forwarded, lost>>

DeliveryNext ==
    \/ Unicast
    \/ Broadcast
    \/ ToStation
    \/ Route
    \/ NetworkMessage
    \/ Forward
    \/ CutDatagram
    \/ ReceiveDatagram

DeliverySpec == DeliveryInit /\ [][DeliveryNext]_deliveryVars

-----------------------------------------------------------------------------
\* PDUs a handler exists for.
Handler(p) ==
    CASE p.type \in {SimpleAck, ComplexAck, ErrorPDU, RejectPDU, AbortPDU} ->
           "handleResponse"
      [] p.type = UnconfirmedRequest /\ p.service = ServiceIAm -> "handleIAm"
      [] p.type = UnconfirmedRequest
         /\ p.service = ServiceUnconfirmedCOVNotification ->
           "handleCOVNotification"
      [] p.type \notin {ConfirmedRequest, UnconfirmedRequest, SimpleAck,
                        ComplexAck, ErrorPDU, RejectPDU, AbortPDU} -> "dropped"
      [] OTHER -> "none"

\* The header has a destination and a source. DecodeNPDU takes the hop count to
\* follow the destination address, where such a header has SNET: what it makes
\* of the rest is one byte off. The properties below leave these headers out.
BothSpecifiers == dest /\ mac # <<>>

\* A whole datagram whose header has at most one of the two specifiers reaches
\* the handler of its PDU, with the invoke ID and the service the device wrote,
\* forwarded by a BBMD or not; a message of the network layer reaches none.
HandlerReached ==
    stage = "received" /\ lost = 0 /\ ~BothSpecifiers =>
        IF message THEN handled.to = "dropped"
        ELSE /\ handled.to = Handler(pdu)
             /\ handled.to # "dropped" =>
                    /\ handled.apdu.type = pdu.type
                    /\ handled.apdu.invokeID = pdu.invokeID
                    /\ handled.apdu.service = pdu.service

\* No byte of a header with at most one specifier is taken for data, nor data
\* for a header: what a handler gets is the device's data or, when the end was
\* lost, the beginning of it. The length in the BVLC header is not compared, so
\* a cut shows only here.
DataIsPrefix ==
    stage = "received" /\ handled.to # "dropped" /\ ~BothSpecifiers =>
        /\ ~message
        /\ handled.apdu.service = pdu.service
        /\ \E n \in 0..Len(pdu.data) :
               handled.apdu.data = SubSeq(pdu.data, 1, n)
        /\ lost = 0 => handled.apdu.data = pdu.data

\* Of an announcement whose header has at most one specifier, handleIAm stores
\* exactly what the device announced, or nothing: a cut one is refused at
\* whichever byte it ends. The address it stores is the one a router recorded,
\* else that of the sender, which is the BBMD for an announcement that a BBMD
\* forwarded.
IAmExact ==
    stage = "received" /\ handled.to = "handleIAm" /\ ~BothSpecifiers =>
        IF lost = 0
        THEN /\ pdu = IAm([x \in DOMAIN iam \ {"ok"} |-> iam[x]])
             /\ handled.addr = IF mac # <<>> THEN mac
                               ELSE IF forwarded THEN BBMDIP ELSE OriginIP
        ELSE iam = IAmError

\* protocol.go: "DecodeNPDU decodes an NPDU", and CHANGELOG.md has the way from an
\* I-Am to the device cache under "Tested and supported". A whole announcement
\* reaches handleIAm with its data, whichever specifiers its header has. It does
\* not when a router has added a source to a broadcast for all networks.
AnnouncementHandled ==
    stage = "received" /\ lost = 0 /\ ~message /\ Handler(pdu) = "handleIAm" =>
        handled.to = "handleIAm" /\ handled.apdu.data = pdu.data

=============================================================================
