------------------------------- MODULE Frames -------------------------------
(***************************************************************************)
(* The three headers of a datagram (protocol.go) and what handlePacket     *)
(* makes of it (client.go): BVLC for the UDP link, NPDU for the network,   *)
(* APDU for the application.                                               *)
(***************************************************************************)
EXTENDS Wire

BVLCForwardedNPDU == 4
BVLCOriginalUnicastNPDU == 10
BVLCOriginalBroadcastNPDU == 11

ConfirmedRequest == 0
UnconfirmedRequest == 16
SimpleAck == 32
ComplexAck == 48
ErrorPDU == 80
RejectPDU == 96
AbortPDU == 112

ServiceIAm == 0
ServiceUnconfirmedCOVNotification == 2
ObjectTypeDevice == 8

\* A bit of a byte, by its weight.
HasBit(byte, weight) == (byte \div weight) % 2 = 1

-----------------------------------------------------------------------------
\* The length field is the 16 low bits of the datagram's length.
EncodeBVLC(function, npduLength) ==
    <<129, function>> \o PutUint16(4 + npduLength)

EncodeNPDU(expectingReply, priority) ==
    <<1, priority + IF expectingReply THEN 4 ELSE 0>>

EncodeNPDUWithDest(destNet, destAddr, hopCount, expectingReply, priority) ==
    <<1, priority + 32 + IF expectingReply THEN 4 ELSE 0>>
        \o PutUint16(destNet) \o <<Len(destAddr) % 256>> \o destAddr
        \o <<hopCount>>

EncodeConfirmedRequest(invokeID, service, data, maxSegments, maxAPDU) ==
    <<ConfirmedRequest, 16 * maxSegments + maxAPDU, invokeID, service>> \o data

EncodeUnconfirmedRequest(service, data) ==
    <<UnconfirmedRequest, service>> \o data

-----------------------------------------------------------------------------
NPDUError == [ok |-> FALSE, control |-> 0, srcNet |-> 0, srcAddr |-> <<>>,
              offset |-> 0]

\* Mutant: the hop count after the destination address is not skipped.
DestSpecifierSizeNoHop(data, offset) ==
    IF Len(data) < offset + 3 THEN -1
    ELSE IF Len(data) < offset + 3 + data[offset + 3] + 1 THEN -1
    ELSE 3 + data[offset + 3]

\* Bytes of DNET, DLEN, DADR and the hop count at offset; -1 when cut short.
DestSpecifierSize(data, offset) ==
    IF Len(data) < offset + 3 THEN -1
    ELSE IF Len(data) < offset + 3 + data[offset + 3] + 1 THEN -1
    ELSE 4 + data[offset + 3]

\* Bytes of SNET, SLEN and SADR at offset; -1 when cut short.
SrcSpecifierSize(data, offset) ==
    IF Len(data) < offset + 3 THEN -1
    ELSE IF Len(data) < offset + 3 + data[offset + 3] THEN -1
    ELSE 3 + data[offset + 3]

\* Bytes of a network message's type and vendor; -1 when cut short.
MessageSize(data, offset) ==
    IF Len(data) < offset + 1 THEN -1
    ELSE IF data[offset + 1] < 128 THEN 1
    ELSE IF Len(data) < offset + 3 THEN -1
    ELSE 3

\* The fields a handler uses, and the offset of the APDU.
DecodeNPDU(data) ==
    LET dest == IF HasBit(data[2], 32) THEN DestSpecifierSize(data, 2) ELSE 0
        src == IF HasBit(data[2], 8) THEN SrcSpecifierSize(data, 2 + dest)
               ELSE 0
        msg == IF HasBit(data[2], 128) THEN MessageSize(data, 2 + dest + src)
               ELSE 0
        at == 2 + dest
    IN  IF Len(data) < 2 THEN NPDUError
        ELSE IF data[1] # 1 \/ dest < 0 THEN NPDUError
        ELSE IF src < 0 THEN NPDUError
        ELSE IF msg < 0 THEN NPDUError
        ELSE [ok |-> TRUE, control |-> data[2],
              srcNet |-> IF src = 0 THEN 0 ELSE Uint16(Drop(data, at)),
              srcAddr |-> IF src = 0 THEN <<>>
                          ELSE SubSeq(data, at + 4, at + src),
              offset |-> at + src + msg]

-----------------------------------------------------------------------------
APDUError == [ok |-> FALSE, type |-> 0, segmented |-> FALSE, more |-> FALSE,
              invokeID |-> 0, sequence |-> 0, window |-> 0, service |-> 0,
              data |-> <<>>]

\* Mutant: a complex acknowledgement without a service.
HeaderSizeOff(type) ==
    CASE type = ConfirmedRequest -> 4
      [] type = UnconfirmedRequest -> 2
      [] type = ComplexAck -> 2
      [] OTHER -> 3

\* Bytes of the fixed header of each PDU type, and of an unsegmented PDU.
HeaderSize(type) ==
    CASE type = ConfirmedRequest -> 4
      [] type = UnconfirmedRequest -> 2
      [] OTHER -> 3

\* The segment numbers follow the fixed header of the two PDU types that can
\* be segmented. Acks without data, rejects and aborts carry none.
DecodeAPDU(data) ==
    LET type == 16 * (data[1] \div 16)
        size == HeaderSize(type)
        flags == type \in {ConfirmedRequest, ComplexAck}
        segmented == flags /\ HasBit(data[1], 8)
        header == IF segmented THEN size + 2 ELSE size
    IN  IF Len(data) < 1 THEN APDUError
        ELSE IF type \notin {ConfirmedRequest, UnconfirmedRequest, SimpleAck,
                             ComplexAck, ErrorPDU, RejectPDU, AbortPDU}
                \/ Len(data) < header THEN APDUError
        ELSE [ok |-> TRUE, type |-> type, segmented |-> segmented,
              more |-> flags /\ HasBit(data[1], 4),
              invokeID |-> IF size = 2 THEN 0 ELSE data[size - 1],
              sequence |-> IF segmented THEN data[size + 1] ELSE 0,
              window |-> IF segmented THEN data[size + 2] ELSE 0,
              service |-> data[size],
              data |-> IF type \in {SimpleAck, RejectPDU, AbortPDU} THEN <<>>
                       ELSE Drop(data, header)]

-----------------------------------------------------------------------------
IAmError == [ok |-> FALSE, device |-> 0, maxAPDU |-> 0, segmentation |-> 0,
             vendor |-> 0]

\* handleIAm up to the device it stores. The three numbers are narrowed to the
\* widths of DeviceInfo's fields.
DecodeIAm(data) ==
    LET tag == DecodeTagNumber(data)
        oid == DecodeObjectIdentifier(Drop(data, tag.header))
        maxAPDU == ReadUnsignedTag(Drop(data, tag.header + 4))
        segmentation == ReadUnsignedTag(maxAPDU.rest)
        vendor == ReadUnsignedTag(segmentation.rest)
    IN  IF ~tag.ok \/ tag.number # TagObjectID \/ tag.length # 4 THEN IAmError
        ELSE IF Len(data) < tag.header + 4 THEN IAmError
        ELSE IF oid.type # ObjectTypeDevice THEN IAmError
        ELSE IF ~maxAPDU.ok \/ ~segmentation.ok \/ ~vendor.ok THEN IAmError
        ELSE [ok |-> TRUE, device |-> oid.instance,
              maxAPDU |-> maxAPDU.value % 65536,
              segmentation |-> segmentation.value % 256,
              vendor |-> vendor.value % 65536]

Dropped == [to |-> "dropped", apdu |-> APDUError, addr |-> <<>>]

\* Which handler of handlePacket a datagram reaches, with the APDU it is given
\* and the address an I-Am is recorded under: the one in the NPDU, else sender,
\* the IP address the datagram came from. Neither the type nor the length in
\* the BVLC header is looked at. A confirmed request reaches no handler.
HandlePacket(data, sender) ==
    LET npduData == Drop(data, IF data[2] = BVLCForwardedNPDU THEN 10 ELSE 4)
        npdu == DecodeNPDU(npduData)
        apdu == DecodeAPDU(Drop(npduData, npdu.offset))
    IN  IF Len(data) < 4 THEN Dropped
        ELSE IF data[2] = BVLCForwardedNPDU /\ Len(data) < 10 THEN Dropped
        ELSE IF ~npdu.ok THEN Dropped
        ELSE IF HasBit(npdu.control, 128) THEN Dropped
        ELSE IF ~apdu.ok THEN Dropped
        ELSE [apdu |-> apdu,
              to |-> CASE apdu.type = ConfirmedRequest -> "none"
                       [] apdu.type # ConfirmedRequest
                          /\ apdu.type # UnconfirmedRequest -> "handleResponse"
                       [] apdu.type = UnconfirmedRequest
                          /\ apdu.service = ServiceIAm -> "handleIAm"
                       [] apdu.type = UnconfirmedRequest /\ apdu.service =
                            ServiceUnconfirmedCOVNotification
                            -> "handleCOVNotification"
                       [] OTHER -> "none",
              addr |-> IF HasBit(npdu.control, 8) THEN npdu.srcAddr ELSE sender]

=============================================================================
