--------------------------- MODULE DeliveryProofs ---------------------------
(***************************************************************************)
(* What handlePacket makes of a datagram, for every PDU and device whose   *)
(* fields fit their bytes, every address a router may record and every     *)
(* byte the datagram may be cut at. Each layer has a lemma on what it      *)
(* makes of the beginning of what was sent, and the invariant says which   *)
(* headers routers can have built.                                         *)
(***************************************************************************)
EXTENDS Delivery, WireProofs

-----------------------------------------------------------------------------
(***************************************************************************)
(* The link: the BVLC header, and the address in a forwarded NPDU.         *)
(***************************************************************************)

\* A BVLC header, with the address that follows it in a forwarded NPDU.
IsLink(h) ==
    /\ h \in Seq(Byte)
    /\ Len(h) = IF h[2] = BVLCForwardedNPDU THEN 10 ELSE 4

\* handlePacket after the link header.
HandleNPDU(npduData, sender) ==
    LET header == DecodeNPDU(npduData)
        apdu == DecodeAPDU(Drop(npduData, header.offset))
    IN  IF ~header.ok THEN Dropped
        ELSE IF HasBit(header.control, 128) THEN Dropped
        ELSE IF ~apdu.ok THEN Dropped
        ELSE [apdu |-> apdu,
              to |-> CASE apdu.type = ConfirmedRequest -> "none"
                       [] apdu.type # ConfirmedRequest
                          /\ apdu.type # UnconfirmedRequest -> "handleResponse"
                       [] apdu.type = UnconfirmedRequest
                          /\ apdu.service = ServiceIAm -> "handleIAm"
                       [] apdu.type = UnconfirmedRequest /\ apdu.service =
                            ServiceUnconfirmedCOVNotification
                            -> "handleCOVNotification"
                       [] OTHER -> "none",
              addr |-> IF HasBit(header.control, 8) THEN header.srcAddr
                       ELSE sender]

\* The branches of handlePacket on the link header.
LEMMA LinkBranches ==
    ASSUME NEW x, NEW s
    PROVE  /\ Len(x) < 4 => HandlePacket(x, s) = Dropped
           /\ ~(Len(x) < 4) /\ x[2] = BVLCForwardedNPDU /\ Len(x) < 10
                => HandlePacket(x, s) = Dropped
           /\ ~(Len(x) < 4) /\ x[2] = BVLCForwardedNPDU /\ ~(Len(x) < 10)
                => HandlePacket(x, s) = HandleNPDU(Drop(x, 10), s)
           /\ ~(Len(x) < 4) /\ ~(x[2] = BVLCForwardedNPDU)
                => HandlePacket(x, s) = HandleNPDU(Drop(x, 4), s)
BY ZenonT(30) DEF HandlePacket, HandleNPDU

\* handlePacket drops a datagram cut inside the link header, and hands the rest
\* of any other to the network layer.
LEMMA LinkRead ==
    ASSUME NEW h, IsLink(h), NEW b \in Seq(Byte), NEW x, Begins(x, h \o b),
           NEW s
    PROVE  /\ Len(x) < Len(h) => HandlePacket(x, s) = Dropped
           /\ Len(x) >= Len(h)
                => HandlePacket(x, s) = HandleNPDU(Drop(x, Len(h)), s)
<1>1. h \in Seq(Byte)
  BY DEF IsLink
<1>2. \/ h[2] = BVLCForwardedNPDU /\ Len(h) = 10
      \/ ~(h[2] = BVLCForwardedNPDU) /\ Len(h) = 4
  BY Zenon DEF IsLink
<1>3. Len(x) \in Nat /\ \A i \in 1..Len(h) : i <= Len(x) => x[i] = h[i]
  BY <1>1, BeginsWith
<1>4. ~(Len(x) < 4) => x[2] = h[2]
  BY <1>2, <1>3, SMT
<1>5. CASE h[2] = BVLCForwardedNPDU /\ Len(h) = 10
  <2>1. Len(x) >= 10 => ~(Len(x) < 4) /\ ~(Len(x) < 10)
    BY <1>3, SMT
  <2>2. QED
    BY <1>4, <1>5, <2>1, LinkBranches, Zenon
<1>6. CASE ~(h[2] = BVLCForwardedNPDU) /\ Len(h) = 4
  <2>1. Len(x) >= 4 => ~(Len(x) < 4)
    BY <1>3, SMT
  <2>2. QED
    BY <1>4, <1>6, <2>1, LinkBranches, Zenon
<1>7. QED
  BY <1>2, <1>5, <1>6

-----------------------------------------------------------------------------
(***************************************************************************)
(* The network header, and how DecodeNPDU reads it.                        *)
(***************************************************************************)

\* h is an NPDU header with control byte c, nd bytes of destination, ns bytes of
\* source, whose address is m, and nm bytes of a network message.
IsHeader(h, c, nd, ns, nm, m) ==
    /\ h \in Seq(Byte) /\ nd \in Nat /\ ns \in Nat /\ nm \in Nat
    /\ Len(h) = 2 + nd + ns + nm
    /\ h[1] = 1 /\ h[2] = c
    /\ IF HasBit(c, 32) THEN nd > 3 /\ nd = 4 + h[5] ELSE nd = 0
    /\ IF HasBit(c, 8)
       THEN /\ ns > 3 /\ ns = 3 + h[2 + nd + 3]
            /\ m = SubSeq(h, 2 + nd + 4, 2 + nd + ns)
       ELSE ns = 0 /\ m = <<>>
    /\ IF HasBit(c, 128)
       THEN \/ nm = 1 /\ h[2 + nd + ns + 1] < 128
            \/ nm = 3 /\ ~(h[2 + nd + ns + 1] < 128)
       ELSE nm = 0

\* The sizes DecodeNPDU finds.
DestSize(x) == IF HasBit(x[2], 32) THEN DestSpecifierSize(x, 2) ELSE 0
SrcSize(x) ==
    IF HasBit(x[2], 8) THEN SrcSpecifierSize(x, 2 + DestSize(x)) ELSE 0
MsgSize(x) ==
    IF HasBit(x[2], 128) THEN MessageSize(x, 2 + DestSize(x) + SrcSize(x))
    ELSE 0

\* The header DecodeNPDU returns.
Header(x, net, addr, offset) ==
    [ok |-> TRUE, control |-> x[2], srcNet |-> net, srcAddr |-> addr,
     offset |-> offset]

\* The branches of DecodeNPDU, by the sizes it finds.
LEMMA NPDUBranches ==
    ASSUME NEW x
    PROVE  /\ Len(x) < 2 => DecodeNPDU(x) = NPDUError
           /\ DestSize(x) < 0 => DecodeNPDU(x) = NPDUError
           /\ SrcSize(x) < 0 => DecodeNPDU(x) = NPDUError
           /\ MsgSize(x) < 0 => DecodeNPDU(x) = NPDUError
           /\ ~(Len(x) < 2) /\ x[1] = 1 /\ ~(DestSize(x) < 0)
                /\ ~(SrcSize(x) < 0) /\ ~(MsgSize(x) < 0) =>
                DecodeNPDU(x) =
                    Header(x,
                           IF SrcSize(x) = 0 THEN 0
                           ELSE Uint16(Drop(x, 2 + DestSize(x))),
                           IF SrcSize(x) = 0 THEN <<>>
                           ELSE SubSeq(x, 2 + DestSize(x) + 4,
                                       2 + DestSize(x) + SrcSize(x)),
                           2 + DestSize(x) + SrcSize(x) + MsgSize(x))
<1>1. ~(Len(x) < 2) /\ x[1] = 1 /\ ~(DestSize(x) < 0)
        /\ ~(SrcSize(x) < 0) /\ ~(MsgSize(x) < 0) =>
        DecodeNPDU(x) =
            Header(x,
                   IF SrcSize(x) = 0 THEN 0
                   ELSE Uint16(Drop(x, 2 + DestSize(x))),
                   IF SrcSize(x) = 0 THEN <<>>
                   ELSE SubSeq(x, 2 + DestSize(x) + 4,
                               2 + DestSize(x) + SrcSize(x)),
                   2 + DestSize(x) + SrcSize(x) + MsgSize(x))
  BY Zenon DEF DecodeNPDU, DestSize, SrcSize, MsgSize, Header
<1>2. MsgSize(x) < 0 => DecodeNPDU(x) = NPDUError
  BY Zenon DEF DecodeNPDU, DestSize, SrcSize, MsgSize
<1>3. SrcSize(x) < 0 => DecodeNPDU(x) = NPDUError
  BY Zenon DEF DecodeNPDU, DestSize, SrcSize
<1>4. DestSize(x) < 0 => DecodeNPDU(x) = NPDUError
  BY Zenon DEF DecodeNPDU, DestSize
<1>5. Len(x) < 2 => DecodeNPDU(x) = NPDUError
  BY Zenon DEF DecodeNPDU
<1>6. QED
  BY <1>1, <1>2, <1>3, <1>4, <1>5, Zenon

\* x has the bytes of h, as far as it goes.
Follows(x, h) ==
    /\ Len(x) \in Nat
    /\ \A i \in 1..Len(h) : i <= Len(x) => x[i] = h[i]

\* A destination that is cut is refused.
LEMMA DestRead ==
    ASSUME NEW h, NEW c, NEW nd, NEW ns, NEW nm, NEW m,
           IsHeader(h, c, nd, ns, nm, m),
           NEW x, Follows(x, h), Len(x) >= 2
    PROVE  DestSize(x) = IF Len(x) < 2 + nd THEN -1 ELSE nd
<1>1. /\ h \in Seq(Byte) /\ nd \in Nat /\ ns \in Nat /\ nm \in Nat
      /\ Len(h) = 2 + nd + ns + nm /\ h[2] = c
      /\ HasBit(c, 32) => nd > 3 /\ nd = 4 + h[5]
      /\ ~HasBit(c, 32) => nd = 0
  BY Zenon DEF IsHeader
<1>2. Len(x) \in Nat /\ \A i \in 1..Len(h) : i <= Len(x) => x[i] = h[i]
  BY DEF Follows
<1>3. x[2] = c
  BY <1>1, <1>2, SMT
<1>4. CASE ~HasBit(c, 32)
  <2>1. nd = 0 /\ ~(Len(x) < 2 + nd)
    BY <1>1, <1>2, <1>4, SMT
  <2>2. QED
    BY <1>3, <1>4, <2>1, Zenon DEF DestSize
<1>5. CASE HasBit(c, 32)
  <2>1. nd > 3 /\ nd = 4 + h[5]
    BY <1>1, <1>5, Zenon
  <2>2. 5 \in 1..Len(h)
    BY <1>1, <2>1, SMTT(20)
  <2>3. h[5] \in Byte /\ (5 <= Len(x) => x[5] = h[5])
    BY <1>1, <1>2, <2>2, SMT
  <2>4. PICK b \in 0..255 : b = h[5]
    BY <2>3, SMTT(20), SMTT(20) DEF Byte
  <2>5. DestSpecifierSize(x, 2) = IF Len(x) < 2 + nd THEN -1 ELSE nd
    <3>1. PICK k \in Nat : k = Len(x)
      BY <1>2
    <3>2. ~(k < 5) => x[2 + 3] = b
      BY <2>3, <2>4, <3>1, SMT
    <3>3. nd = 4 + b
      BY <2>1, <2>4
    <3>4. DestSpecifierSize(x, 2)
            = IF k < 5 THEN -1 ELSE IF k < 5 + b + 1 THEN -1 ELSE 4 + b
      BY <3>1, <3>2, SMT DEF DestSpecifierSize
    <3>5. QED
      BY <3>1, <3>3, <3>4, SMT
  <2>6. QED
    BY <1>3, <1>5, <2>5, Zenon DEF DestSize
<1>6. QED
  BY <1>4, <1>5

\* A source that is cut is refused.
LEMMA SrcRead ==
    ASSUME NEW h, NEW c, NEW nd, NEW ns, NEW nm, NEW m,
           IsHeader(h, c, nd, ns, nm, m),
           NEW x, Follows(x, h), Len(x) >= 2 + nd, DestSize(x) = nd
    PROVE  SrcSize(x) = IF Len(x) < 2 + nd + ns THEN -1 ELSE ns
<1>1. /\ h \in Seq(Byte) /\ nd \in Nat /\ ns \in Nat /\ nm \in Nat
      /\ Len(h) = 2 + nd + ns + nm /\ h[2] = c
      /\ HasBit(c, 8) => ns > 3 /\ ns = 3 + h[2 + nd + 3]
      /\ ~HasBit(c, 8) => ns = 0
  BY Zenon DEF IsHeader
<1>2. Len(x) \in Nat /\ \A i \in 1..Len(h) : i <= Len(x) => x[i] = h[i]
  BY DEF Follows
<1>3. x[2] = c
  BY <1>1, <1>2, SMT
<1>4. CASE ~HasBit(c, 8)
  <2>1. ns = 0 /\ ~(Len(x) < 2 + nd + ns)
    BY <1>1, <1>2, <1>4, SMT
  <2>2. QED
    BY <1>3, <1>4, <2>1, Zenon DEF SrcSize
<1>5. CASE HasBit(c, 8)
  <2>1. ns > 3 /\ ns = 3 + h[2 + nd + 3]
    BY <1>1, <1>5, Zenon
  <2>2. 2 + nd + 3 \in 1..Len(h)
    BY <1>1, <2>1, SMTT(20)
  <2>3. /\ h[2 + nd + 3] \in Byte
        /\ 2 + nd + 3 <= Len(x) => x[2 + nd + 3] = h[2 + nd + 3]
    BY <1>1, <1>2, <2>2, SMT
  <2>4. PICK b \in 0..255 : b = h[2 + nd + 3]
    BY <2>3, SMTT(20) DEF Byte
  <2>5. SrcSpecifierSize(x, 2 + nd)
          = IF Len(x) < 2 + nd + ns THEN -1 ELSE ns
    <3>1. PICK k \in Nat : k = Len(x)
      BY <1>2
    <3>2. ~(k < 2 + nd + 3) => x[2 + nd + 3] = b
      BY <1>1, <2>3, <2>4, <3>1, SMT
    <3>3. ns = 3 + b
      BY <2>1, <2>4
    <3>4. SrcSpecifierSize(x, 2 + nd)
            = IF k < 2 + nd + 3 THEN -1
              ELSE IF k < 2 + nd + 3 + b THEN -1 ELSE 3 + b
      BY <3>1, <3>2, Zenon DEF SrcSpecifierSize
    <3>5. QED
      BY <1>1, <3>1, <3>3, <3>4, SMT
  <2>6. QED
    BY <1>3, <1>5, <2>5, Zenon DEF SrcSize
<1>6. QED
  BY <1>4, <1>5

\* Both addresses were whole.
AddressesRead(x, nd, ns) ==
    Len(x) >= 2 + nd + ns /\ DestSize(x) = nd /\ SrcSize(x) = ns

\* A network message that is cut is refused.
LEMMA MsgRead ==
    ASSUME NEW h, NEW c, NEW nd, NEW ns, NEW nm, NEW m,
           IsHeader(h, c, nd, ns, nm, m),
           NEW x, Follows(x, h), AddressesRead(x, nd, ns)
    PROVE  MsgSize(x) = IF Len(x) < 2 + nd + ns + nm THEN -1 ELSE nm
<1>1. /\ h \in Seq(Byte) /\ nd \in Nat /\ ns \in Nat /\ nm \in Nat
      /\ Len(h) = 2 + nd + ns + nm /\ h[2] = c
      /\ HasBit(c, 128) => \/ nm = 1 /\ h[2 + nd + ns + 1] < 128
                           \/ nm = 3 /\ ~(h[2 + nd + ns + 1] < 128)
      /\ ~HasBit(c, 128) => nm = 0
  BY Zenon DEF IsHeader
<1>2. Len(x) \in Nat /\ \A i \in 1..Len(h) : i <= Len(x) => x[i] = h[i]
  BY DEF Follows
<1>3. Len(x) >= 2 + nd + ns /\ x[2] = c
  BY <1>1, <1>2, SMT DEF AddressesRead
<1>4. CASE ~HasBit(c, 128)
  <2>1. nm = 0 /\ ~(Len(x) < 2 + nd + ns + nm)
    BY <1>1, <1>2, <1>3, <1>4, SMT
  <2>2. QED
    BY <1>3, <1>4, <2>1, Zenon DEF MsgSize
<1>5. CASE HasBit(c, 128)
  <2>1. \/ nm = 1 /\ h[2 + nd + ns + 1] < 128
        \/ nm = 3 /\ ~(h[2 + nd + ns + 1] < 128)
    BY <1>1, <1>5, Zenon
  <2>2. 2 + nd + ns + 1 \in 1..Len(h)
    BY <1>1, <2>1, SMT
  <2>3. /\ h[2 + nd + ns + 1] \in Byte
        /\ 2 + nd + ns + 1 <= Len(x)
             => x[2 + nd + ns + 1] = h[2 + nd + ns + 1]
    BY <1>1, <1>2, <2>2, SMT
  <2>4. PICK b \in 0..255 : b = h[2 + nd + ns + 1]
    BY <2>3 DEF Byte
  <2>5. MessageSize(x, 2 + nd + ns)
          = IF Len(x) < 2 + nd + ns + nm THEN -1 ELSE nm
    BY <1>1, <1>2, <2>1, <2>3, <2>4, SMT DEF MessageSize
  <2>6. QED
    BY <1>3, <1>5, <2>5, Zenon DEF MsgSize, AddressesRead
<1>6. QED
  BY <1>4, <1>5

\* What handlePacket uses of a header it could decode.
HeaderIs(d, control, addr, offset) ==
    d.ok /\ d.control = control /\ d.srcAddr = addr /\ d.offset = offset

\* DecodeNPDU refuses a header cut anywhere, and reads a whole one whatever
\* follows it.
LEMMA HeaderRead ==
    ASSUME NEW h, NEW c, NEW nd, NEW ns, NEW nm, NEW m,
           IsHeader(h, c, nd, ns, nm, m),
           NEW x \in Seq(Byte), Follows(x, h)
    PROVE  /\ Len(x) < Len(h) => DecodeNPDU(x) = NPDUError
           /\ Len(x) >= Len(h) => HeaderIs(DecodeNPDU(x), c, m, Len(h))
<1>1. /\ h \in Seq(Byte) /\ nd \in Nat /\ ns \in Nat /\ nm \in Nat
      /\ Len(h) = 2 + nd + ns + nm /\ h[1] = 1 /\ h[2] = c
      /\ HasBit(c, 8) => ns > 3 /\ m = SubSeq(h, 2 + nd + 4, 2 + nd + ns)
      /\ ~HasBit(c, 8) => ns = 0 /\ m = <<>>
  BY Zenon DEF IsHeader
<1>2. Len(x) \in Nat /\ \A i \in 1..Len(h) : i <= Len(x) => x[i] = h[i]
  BY DEF Follows
<1>3. CASE Len(x) < 2
  <2>1. ~(Len(x) >= Len(h))
    BY <1>1, <1>2, <1>3, SMT
  <2>2. QED
    BY <1>3, <2>1, NPDUBranches, Zenon
<1>4. CASE Len(x) >= 2 /\ Len(x) < 2 + nd
  <2>1. DestSize(x) = -1
    BY <1>4, DestRead, Zenon
  <2>2. DestSize(x) < 0 /\ ~(Len(x) >= Len(h))
    BY <1>1, <1>2, <1>4, <2>1, SMT
  <2>3. QED
    BY <2>2, NPDUBranches, Zenon
<1>5. CASE Len(x) >= 2 + nd
  <2>1. Len(x) >= 2 /\ ~(Len(x) < 2 + nd) /\ ~(Len(x) < 2)
    BY <1>1, <1>2, <1>5, SMT
  <2>2. DestSize(x) = nd
    BY <2>1, DestRead, Zenon
  <2>3. SrcSize(x) = IF Len(x) < 2 + nd + ns THEN -1 ELSE ns
    BY <1>5, <2>2, SrcRead, Zenon
  <2>4. CASE Len(x) < 2 + nd + ns
    <3>1. SrcSize(x) < 0 /\ ~(Len(x) >= Len(h))
      BY <1>1, <1>2, <2>3, <2>4, SMT
    <3>2. QED
      BY <3>1, NPDUBranches, Zenon
  <2>5. CASE Len(x) >= 2 + nd + ns
    <3>1. SrcSize(x) = ns
      BY <1>1, <1>2, <2>3, <2>5, SMT
    <3>2. MsgSize(x) = IF Len(x) < 2 + nd + ns + nm THEN -1 ELSE nm
      <4>1. AddressesRead(x, nd, ns)
        BY <2>2, <2>5, <3>1, Zenon DEF AddressesRead
      <4>2. QED
        BY <4>1, MsgRead, SMT
    <3>3. CASE Len(x) < Len(h)
      <4>1. MsgSize(x) < 0 /\ ~(Len(x) >= Len(h))
        BY <1>1, <1>2, <3>2, <3>3, SMT
      <4>2. QED
        BY <4>1, NPDUBranches, Zenon
    <3>4. CASE ~(Len(x) < Len(h))
      <4>1. /\ MsgSize(x) = nm
            /\ ~(DestSize(x) < 0) /\ ~(SrcSize(x) < 0) /\ ~(MsgSize(x) < 0)
        BY <1>1, <1>2, <2>2, <3>1, <3>2, <3>4, SMT
      <4>2. 1 \in 1..Len(h) /\ 2 \in 1..Len(h) /\ 1 <= Len(x) /\ 2 <= Len(x)
        BY <1>1, <1>2, <3>4, SMT
      <4>3. x[1] = 1 /\ x[2] = c
        BY <1>1, <1>2, <4>2, Zenon
      <4>4. (IF ns = 0 THEN <<>> ELSE SubSeq(x, 2 + nd + 4, 2 + nd + ns)) = m
        <5>1. CASE HasBit(c, 8)
          <6>1. ns > 3 /\ m = SubSeq(h, 2 + nd + 4, 2 + nd + ns)
            BY <1>1, <5>1, Zenon
          <6>2. ~(ns = 0)
            BY <1>1, <6>1, SMT
          <6>3. PICK a \in Nat, b \in Nat : a = 2 + nd + 4 /\ b = 2 + nd + ns
            BY <1>1, SMT
          <6>4. a >= 1 /\ b <= Len(h) /\ Len(h) <= Len(x)
            BY <1>1, <1>2, <3>4, <6>3, SMT
          <6>5. SubSeq(x, a, b) = SubSeq(h, a, b)
            BY <1>1, <1>2, <6>4, SMT
          <6>6. QED
            BY <6>1, <6>2, <6>3, <6>5, Zenon
        <5>2. CASE ~HasBit(c, 8)
          BY <1>1, <5>2, Zenon
        <5>3. QED
          BY <5>1, <5>2
      <4>5. PICK net : DecodeNPDU(x) = Header(x, net, m, 2 + nd + ns + nm)
        <5>1. DecodeNPDU(x) =
                  Header(x, IF ns = 0 THEN 0 ELSE Uint16(Drop(x, 2 + nd)),
                         IF ns = 0 THEN <<>>
                         ELSE SubSeq(x, 2 + nd + 4, 2 + nd + ns),
                         2 + nd + ns + nm)
          BY <2>1, <2>2, <3>1, <4>1, <4>3, NPDUBranches, Zenon
        <5>2. QED
          BY <4>4, <5>1, Zenon
      <4>6. HeaderIs(Header(x, net, m, Len(h)), x[2], m, Len(h))
        BY Zenon DEF HeaderIs, Header
      <4>7. QED
        BY <1>1, <3>4, <4>3, <4>5, <4>6, Zenon
    <3>5. QED
      BY <3>3, <3>4
  <2>6. QED
    BY <1>1, <1>2, <2>4, <2>5, SMT
<1>6. QED
  BY <1>1, <1>2, <1>3, <1>4, <1>5, SMT

-----------------------------------------------------------------------------
(***************************************************************************)
(* The application layer: the fixed header of a PDU, and its handler.      *)
(***************************************************************************)

\* A PDU that devices may send, an I-Am included.
Sendable(p) ==
    /\ p.type \in {16 * k : k \in 0..15}
    /\ p.invokeID \in Byte /\ p.service \in Byte /\ p.data \in Seq(Byte)
    /\ p.type \in {SimpleAck, RejectPDU, AbortPDU} => p.data = <<>>
    /\ p.type = UnconfirmedRequest => p.invokeID = 0

\* The types that decodeAPDU knows.
KnownType(t) ==
    t \in {ConfirmedRequest, UnconfirmedRequest, SimpleAck, ComplexAck,
           ErrorPDU, RejectPDU, AbortPDU}

\* g is the fixed header of p.
IsHead(g, p) ==
    /\ g \in Seq(Byte) /\ Len(g) = HeaderSize(p.type)
    /\ Len(g) \in 2..4
    /\ g[1] = p.type
    /\ g[Len(g)] = p.service
    /\ Len(g) = 2 => p.invokeID = 0
    /\ ~(Len(g) = 2) => g[Len(g) - 1] = p.invokeID

\* Encode writes a fixed header and the data.
LEMMA EncodeHead ==
    ASSUME NEW p, Sendable(p)
    PROVE  \E g : IsHead(g, p) /\ Encode(p) = g \o p.data
<1>1. /\ p.type \in Byte /\ p.invokeID \in Byte /\ p.service \in Byte
      /\ 0 \in Byte /\ 5 \in Byte /\ 16 \in Byte
      /\ p.type = UnconfirmedRequest => p.invokeID = 0
  BY SMT DEF Sendable, Byte
<1>2. CASE p.type = ConfirmedRequest
  <2>1. PICK g : g = <<0, 5, p.invokeID, p.service>>
    BY Zenon
  <2>2. Encode(p) = g \o p.data
    <3>1. ~(p.type = UnconfirmedRequest) /\ 16 * 0 + 5 = 5
      BY <1>2, SMT DEF ConfirmedRequest, UnconfirmedRequest
    <3>2. Encode(p)
            = EncodeConfirmedRequest(p.invokeID, p.service, p.data, 0, 5)
      BY <1>2, <3>1, Zenon DEF Encode
    <3>3. QED
      BY <2>1, <3>1, <3>2, Zenon DEF EncodeConfirmedRequest, ConfirmedRequest
  <2>3. /\ g \in Seq(Byte) /\ Len(g) = 4 /\ g[1] = 0 /\ g[4] = p.service
        /\ g[3] = p.invokeID
    BY <1>1, <2>1, SMT
  <2>4. HeaderSize(p.type) = 4
    BY <1>2, SMT DEF HeaderSize, ConfirmedRequest, UnconfirmedRequest
  <2>5. IsHead(g, p)
    BY <1>2, <2>3, <2>4, SMT DEF IsHead, ConfirmedRequest
  <2>6. QED
    BY <2>2, <2>5
<1>3. CASE p.type = UnconfirmedRequest
  <2>1. PICK g : g = <<16, p.service>>
    BY Zenon
  <2>2. Encode(p) = g \o p.data
    BY <1>3, <2>1, SMT DEF Encode, EncodeUnconfirmedRequest,
       ConfirmedRequest, UnconfirmedRequest
  <2>3. g \in Seq(Byte) /\ Len(g) = 2 /\ g[1] = 16 /\ g[2] = p.service
    BY <1>1, <2>1, SMT
  <2>4. HeaderSize(p.type) = 2
    BY <1>3, SMT DEF HeaderSize, ConfirmedRequest, UnconfirmedRequest
  <2>5. IsHead(g, p)
    BY <1>1, <1>3, <2>3, <2>4, SMT DEF IsHead, UnconfirmedRequest
  <2>6. QED
    BY <2>2, <2>5
<1>4. CASE ~(p.type = ConfirmedRequest) /\ ~(p.type = UnconfirmedRequest)
  <2>1. PICK g : g = <<p.type, p.invokeID, p.service>>
    BY Zenon
  <2>2. Encode(p) = g \o p.data
    BY <1>4, <2>1, Zenon DEF Encode
  <2>3. /\ g \in Seq(Byte) /\ Len(g) = 3 /\ g[1] = p.type
        /\ g[3] = p.service /\ g[2] = p.invokeID
    BY <1>1, <2>1, SMT
  <2>4. HeaderSize(p.type) = 3
    BY <1>4, Zenon DEF HeaderSize
  <2>5. IsHead(g, p)
    BY <2>3, <2>4, SMT DEF IsHead
  <2>6. QED
    BY <2>2, <2>5
<1>5. QED
  BY <1>2, <1>3, <1>4, Zenon

\* The first byte of an unsegmented PDU of type t.
Unsegmented(y, t) == 16 * (y[1] \div 16) = t /\ ~HasBit(y[1], 8)

\* What a handler uses of a PDU that could be decoded.
APDUIs(d, type, id, service, data) ==
    /\ d.ok /\ d.type = type /\ d.invokeID = id /\ d.service = service
    /\ d.data = data

\* The branches of DecodeAPDU for an unsegmented PDU.
LEMMA APDUBranches ==
    ASSUME NEW y, NEW t, Unsegmented(y, t)
    PROVE  /\ Len(y) < 1 => DecodeAPDU(y) = APDUError
           /\ ~KnownType(t) => DecodeAPDU(y) = APDUError
           /\ Len(y) < HeaderSize(t) => DecodeAPDU(y) = APDUError
           /\ ~(Len(y) < 1) /\ KnownType(t) /\ ~(Len(y) < HeaderSize(t)) =>
                APDUIs(DecodeAPDU(y), t,
                       IF HeaderSize(t) = 2 THEN 0 ELSE y[HeaderSize(t) - 1],
                       y[HeaderSize(t)],
                       IF t \in {SimpleAck, RejectPDU, AbortPDU} THEN <<>>
                       ELSE Drop(y, HeaderSize(t)))
<1>1. Len(y) < 1 => DecodeAPDU(y) = APDUError
  BY Zenon DEF DecodeAPDU
<1>2. ~KnownType(t) => DecodeAPDU(y) = APDUError
  BY Zenon DEF DecodeAPDU, KnownType, Unsegmented
<1>3. Len(y) < HeaderSize(t) => DecodeAPDU(y) = APDUError
  BY Zenon DEF DecodeAPDU, Unsegmented
<1>4. ~(Len(y) < 1) /\ KnownType(t) /\ ~(Len(y) < HeaderSize(t)) =>
        \E more :
          DecodeAPDU(y) =
            [ok |-> TRUE, type |-> t, segmented |-> FALSE, more |-> more,
             invokeID |-> IF HeaderSize(t) = 2 THEN 0
                          ELSE y[HeaderSize(t) - 1],
             sequence |-> 0, window |-> 0, service |-> y[HeaderSize(t)],
             data |-> IF t \in {SimpleAck, RejectPDU, AbortPDU} THEN <<>>
                      ELSE Drop(y, HeaderSize(t))]
  BY Zenon DEF DecodeAPDU, KnownType, Unsegmented
<1>5. ASSUME ~(Len(y) < 1) /\ KnownType(t) /\ ~(Len(y) < HeaderSize(t))
      PROVE  APDUIs(DecodeAPDU(y), t,
                    IF HeaderSize(t) = 2 THEN 0 ELSE y[HeaderSize(t) - 1],
                    y[HeaderSize(t)],
                    IF t \in {SimpleAck, RejectPDU, AbortPDU} THEN <<>>
                    ELSE Drop(y, HeaderSize(t)))
  <2>1. PICK id : id = IF HeaderSize(t) = 2 THEN 0 ELSE y[HeaderSize(t) - 1]
    OBVIOUS
  <2>2. PICK data : data = IF t \in {SimpleAck, RejectPDU, AbortPDU} THEN <<>>
                           ELSE Drop(y, HeaderSize(t))
    OBVIOUS
  <2>3. PICK more :
          DecodeAPDU(y) =
            [ok |-> TRUE, type |-> t, segmented |-> FALSE, more |-> more,
             invokeID |-> id, sequence |-> 0, window |-> 0,
             service |-> y[HeaderSize(t)], data |-> data]
    BY <1>4, <1>5, <2>1, <2>2, Zenon
  <2>4. APDUIs(DecodeAPDU(y), t, id, y[HeaderSize(t)], data)
    BY <2>3, SMT DEF APDUIs
  <2>5. QED
    BY <2>1, <2>2, <2>4, Zenon
<1>6. QED
  BY <1>1, <1>2, <1>3, <1>5, Zenon

\* DecodeAPDU refuses a PDU of an unknown type or cut inside its fixed header;
\* of any other it returns the fields and as much of the data as there is.
LEMMA APDURead ==
    ASSUME NEW p, Sendable(p), NEW g, IsHead(g, p),
           NEW y, Begins(y, g \o p.data)
    PROVE  /\ Len(y) < Len(g) \/ ~KnownType(p.type)
                => DecodeAPDU(y) = APDUError
           /\ Len(y) >= Len(g) /\ KnownType(p.type) =>
                \E data : /\ APDUIs(DecodeAPDU(y), p.type, p.invokeID,
                                    p.service, data)
                          /\ Begins(data, p.data)
                          /\ Len(data) = Len(y) - Len(g)
<1>1. /\ p.type \in {16 * k : k \in 0..15} /\ p.data \in Seq(Byte)
      /\ p.type \in {SimpleAck, RejectPDU, AbortPDU} => p.data = <<>>
  BY Zenon DEF Sendable
<1>2. /\ g \in Seq(Byte) /\ Len(g) = HeaderSize(p.type)
      /\ Len(g) \in 2..4 /\ g[1] = p.type /\ g[Len(g)] = p.service
      /\ Len(g) = 2 => p.invokeID = 0
      /\ ~(Len(g) = 2) => g[Len(g) - 1] = p.invokeID
  BY Zenon DEF IsHead
<1>3. /\ y \in Seq(Byte) /\ Len(y) \in Nat
      /\ \A i \in 1..Len(g) : i <= Len(y) => y[i] = g[i]
  BY <1>1, <1>2, BeginsWith
<1>4. CASE Len(y) < 1
  <2>1. ~(Len(y) >= Len(g))
    BY <1>2, <1>3, <1>4, SMT
  <2>2. DecodeAPDU(y) = APDUError
    BY <1>4, Zenon DEF DecodeAPDU
  <2>3. QED
    BY <2>1, <2>2, Zenon
<1>5. CASE ~(Len(y) < 1)
  <2>1. y[1] = p.type
    BY <1>2, <1>3, <1>5, SMT
  <2>2. Unsegmented(y, p.type)
    <3>1. PICK k \in 0..15 : p.type = 16 * k
      BY <1>1
    <3>2. PICK t : t = p.type
      OBVIOUS
    <3>3. 16 * (t \div 16) = t /\ ~((t \div 8) % 2 = 1)
      BY <3>1, <3>2, SMT
    <3>4. QED
      BY <2>1, <3>2, <3>3, Zenon DEF Unsegmented, HasBit
  <2>3. CASE Len(y) < Len(g) \/ ~KnownType(p.type)
    <3>1. DecodeAPDU(y) = APDUError
      BY <1>2, <2>2, <2>3, APDUBranches, Zenon
    <3>2. ~(Len(y) < Len(g) /\ Len(y) >= Len(g))
      BY <1>2, <1>3, SMT
    <3>3. QED
      BY <2>3, <3>1, <3>2, Zenon
  <2>4. CASE ~(Len(y) < Len(g)) /\ KnownType(p.type)
    <3>1. Len(g) \in 1..Len(g) /\ Len(g) <= Len(y) /\ Len(y) >= Len(g)
      BY <1>2, <1>3, <2>4, SMT
    <3>2. y[Len(g)] = p.service
      BY <1>2, <1>3, <3>1, Zenon
    <3>3. (IF Len(g) = 2 THEN 0 ELSE y[Len(g) - 1]) = p.invokeID
      <4>1. Len(g) - 1 \in 1..Len(g) /\ Len(g) - 1 <= Len(y)
        BY <1>2, <1>3, <2>4, SMT
      <4>2. y[Len(g) - 1] = g[Len(g) - 1]
        BY <1>3, <4>1, Zenon
      <4>3. QED
        BY <1>2, <4>2, Zenon
    <3>4. /\ Begins(Drop(y, Len(g)), p.data)
          /\ Len(Drop(y, Len(g))) = Len(y) - Len(g)
      BY <1>1, <1>2, <3>1, BeginsAfter
    <3>5. p.type \in {SimpleAck, RejectPDU, AbortPDU}
            => Drop(y, Len(g)) = <<>>
      <4>1. CASE p.data = <<>>
        <5>1. PICK r : r = Drop(y, Len(g))
          OBVIOUS
        <5>2. r \in Seq(Byte) /\ Len(r) <= Len(p.data)
          BY <3>4, <5>1 DEF Begins
        <5>3. r = <<>>
          BY <4>1, <5>2, SMT
        <5>4. QED
          BY <5>1, <5>3
      <4>2. QED
        BY <1>1, <4>1
    <3>6. APDUIs(DecodeAPDU(y), p.type,
                 IF Len(g) = 2 THEN 0 ELSE y[Len(g) - 1], y[Len(g)],
                 IF p.type \in {SimpleAck, RejectPDU, AbortPDU} THEN <<>>
                 ELSE Drop(y, Len(g)))
      BY <1>2, <1>5, <2>2, <2>4, APDUBranches, Zenon
    <3>7. APDUIs(DecodeAPDU(y), p.type, p.invokeID, p.service,
                 Drop(y, Len(g)))
      BY <3>2, <3>3, <3>5, <3>6, Zenon
    <3>8. QED
      BY <2>4, <3>4, <3>7, Zenon
  <2>5. QED
    BY <2>3, <2>4
<1>6. QED
  BY <1>4, <1>5

\* The handler handlePacket picks for a PDU.
HandlerOf(a) ==
    CASE a.type = ConfirmedRequest -> "none"
      [] a.type # ConfirmedRequest /\ a.type # UnconfirmedRequest ->
           "handleResponse"
      [] a.type = UnconfirmedRequest /\ a.service = ServiceIAm -> "handleIAm"
      [] a.type = UnconfirmedRequest
         /\ a.service = ServiceUnconfirmedCOVNotification ->
           "handleCOVNotification"
      [] OTHER -> "none"

\* The branches of handlePacket after the header is decoded.
LEMMA HandleBranches ==
    ASSUME NEW x, NEW s, NEW c, NEW m, NEW n,
           HeaderIs(DecodeNPDU(x), c, m, n)
    PROVE  /\ HasBit(c, 128) => HandleNPDU(x, s) = Dropped
           /\ ~DecodeAPDU(Drop(x, n)).ok => HandleNPDU(x, s) = Dropped
           /\ ~HasBit(c, 128) /\ DecodeAPDU(Drop(x, n)).ok =>
                HandleNPDU(x, s) =
                    [apdu |-> DecodeAPDU(Drop(x, n)),
                     to |-> HandlerOf(DecodeAPDU(Drop(x, n))),
                     addr |-> IF HasBit(c, 8) THEN m ELSE s]
BY Zenon DEF HandleNPDU, HandlerOf, HeaderIs

\* The handler is the one of the PDU that was sent, and there is one for each
\* type that decodeAPDU knows.
LEMMA HandlerKept ==
    ASSUME NEW p, NEW a, KnownType(p.type),
           a.type = p.type, a.service = p.service
    PROVE  HandlerOf(a) = Handler(p) /\ Handler(p) # "dropped"
<1>1. PICK t, v : t = p.type /\ v = p.service
  OBVIOUS
<1>2. HandlerOf(a) =
        CASE t = 0 -> "none"
          [] t # 0 /\ t # 16 -> "handleResponse"
          [] t = 16 /\ v = 0 -> "handleIAm"
          [] t = 16 /\ v = 2 -> "handleCOVNotification"
          [] OTHER -> "none"
  BY <1>1, Zenon DEF HandlerOf, ConfirmedRequest, UnconfirmedRequest,
     ServiceIAm, ServiceUnconfirmedCOVNotification
<1>3. Handler(p) =
        CASE t \in {32, 48, 80, 96, 112} -> "handleResponse"
          [] t = 16 /\ v = 0 -> "handleIAm"
          [] t = 16 /\ v = 2 -> "handleCOVNotification"
          [] t \notin {0, 16, 32, 48, 80, 96, 112} -> "dropped"
          [] OTHER -> "none"
  BY <1>1, Zenon DEF Handler, ConfirmedRequest, UnconfirmedRequest, SimpleAck,
     ComplexAck, ErrorPDU, RejectPDU, AbortPDU, ServiceIAm,
     ServiceUnconfirmedCOVNotification
<1>4. t \in {0, 16, 32, 48, 80, 96, 112}
  BY <1>1, Zenon DEF KnownType, ConfirmedRequest, UnconfirmedRequest,
     SimpleAck, ComplexAck, ErrorPDU, RejectPDU, AbortPDU
<1>5. QED
  BY <1>2, <1>3, <1>4, SMT

\* r hands over p, with n bytes of its data.
HandsOver(r, p, n, addr) ==
    /\ r.to = Handler(p) /\ r.to # "dropped"
    /\ r.apdu.type = p.type /\ r.apdu.invokeID = p.invokeID
    /\ r.apdu.service = p.service
    /\ Begins(r.apdu.data, p.data) /\ Len(r.apdu.data) = n
    /\ r.addr = addr

\* After the link header, handlePacket drops what is cut inside the headers, a
\* network message and a PDU of an unknown type, and hands over any other.
LEMMA NPDUHandled ==
    ASSUME NEW h, NEW c, NEW nd, NEW ns, NEW nm, NEW m,
           IsHeader(h, c, nd, ns, nm, m),
           NEW p, Sendable(p), NEW g, IsHead(g, p),
           NEW x, Begins(x, h \o (g \o p.data)), NEW s
    PROVE  /\ Len(x) < Len(h) + Len(g) \/ HasBit(c, 128) \/ ~KnownType(p.type)
                => HandleNPDU(x, s) = Dropped
           /\ Len(x) >= Len(h) + Len(g) /\ ~HasBit(c, 128) /\ KnownType(p.type)
                => HandsOver(HandleNPDU(x, s), p, Len(x) - Len(h) - Len(g),
                             IF HasBit(c, 8) THEN m ELSE s)
<1>1. h \in Seq(Byte) /\ g \in Seq(Byte) /\ p.data \in Seq(Byte)
  BY Zenon DEF IsHeader, IsHead, Sendable
<1>2. g \o p.data \in Seq(Byte)
  BY <1>1, Appended
<1>3. /\ x \in Seq(Byte) /\ Len(x) \in Nat
      /\ \A i \in 1..Len(h) : i <= Len(x) => x[i] = h[i]
  <2>1. PICK b : b = g \o p.data
    BY Zenon
  <2>2. b \in Seq(Byte) /\ Begins(x, h \o b)
    BY <1>2, <2>1, Zenon
  <2>3. QED
    BY <1>1, <2>2, BeginsWith
<1>4. Len(h) \in Nat /\ Len(g) \in Nat
  BY <1>1
<1>5. Follows(x, h)
  BY <1>3, Zenon DEF Follows
<1>6. CASE Len(x) < Len(h)
  <2>1. DecodeNPDU(x) = NPDUError
    BY <1>3, <1>5, <1>6, HeaderRead, Zenon
  <2>2. HandleNPDU(x, s) = Dropped
    <3>1. ~DecodeNPDU(x).ok
      BY <2>1, SMT DEF NPDUError
    <3>2. QED
      BY <3>1, Zenon DEF HandleNPDU
  <2>3. ~(Len(x) >= Len(h) + Len(g))
    BY <1>3, <1>4, <1>6, SMT
  <2>4. QED
    BY <2>2, <2>3, SMT
<1>7. CASE Len(x) >= Len(h)
  <2>1. HeaderIs(DecodeNPDU(x), c, m, Len(h))
    BY <1>3, <1>5, <1>7, HeaderRead, Zenon
  <2>2. PICK y : y = Drop(x, Len(h))
    OBVIOUS
  <2>3. Begins(y, g \o p.data) /\ Len(y) = Len(x) - Len(h)
    BY <1>1, <1>2, <1>7, <2>2, BeginsAfter, Zenon
  <2>4. Begins(y, g \o p.data)
    BY <2>3
  <2>5. /\ HasBit(c, 128) => HandleNPDU(x, s) = Dropped
        /\ ~DecodeAPDU(y).ok => HandleNPDU(x, s) = Dropped
        /\ ~HasBit(c, 128) /\ DecodeAPDU(y).ok =>
             HandleNPDU(x, s) = [apdu |-> DecodeAPDU(y),
                                 to |-> HandlerOf(DecodeAPDU(y)),
                                 addr |-> IF HasBit(c, 8) THEN m ELSE s]
    BY <2>1, <2>2, HandleBranches, Zenon
  <2>6. CASE Len(y) < Len(g) \/ ~KnownType(p.type)
    <3>1. DecodeAPDU(y) = APDUError
      BY <2>4, <2>6, APDURead, Zenon
    <3>2. ~DecodeAPDU(y).ok
      BY <3>1, SMT DEF APDUError
    <3>3. ~(Len(x) >= Len(h) + Len(g) /\ KnownType(p.type))
      BY <1>3, <1>4, <2>3, <2>6, SMT
    <3>4. QED
      BY <2>5, <3>2, <3>3, SMT
  <2>7. CASE ~(Len(y) < Len(g)) /\ KnownType(p.type)
    <3>1. Len(y) >= Len(g) /\ ~(Len(x) < Len(h) + Len(g))
      BY <1>3, <1>4, <2>3, <2>7, SMT
    <3>2. PICK data : /\ APDUIs(DecodeAPDU(y), p.type, p.invokeID, p.service,
                                data)
                      /\ Begins(data, p.data) /\ Len(data) = Len(y) - Len(g)
      BY <2>4, <2>7, <3>1, APDURead, Zenon
    <3>3. PICK a : a = DecodeAPDU(y)
      OBVIOUS
    <3>4. /\ a.ok /\ a.type = p.type /\ a.invokeID = p.invokeID
          /\ a.service = p.service /\ a.data = data
      BY <3>2, <3>3, Zenon DEF APDUIs
    <3>5. HandlerOf(a) = Handler(p) /\ Handler(p) # "dropped"
      BY <2>7, <3>4, HandlerKept, Zenon
    <3>6. Len(data) = Len(x) - Len(h) - Len(g)
      BY <1>3, <1>4, <2>3, <3>2, SMT
    <3>7. ASSUME ~HasBit(c, 128)
          PROVE  HandsOver(HandleNPDU(x, s), p, Len(x) - Len(h) - Len(g),
                           IF HasBit(c, 8) THEN m ELSE s)
      <4>1. PICK addr : addr = IF HasBit(c, 8) THEN m ELSE s
        OBVIOUS
      <4>2. PICK r : r = HandleNPDU(x, s)
        OBVIOUS
      <4>3. r = [apdu |-> a, to |-> HandlerOf(a), addr |-> addr]
        BY <2>5, <3>3, <3>4, <3>7, <4>1, <4>2, Zenon
      <4>4. r.apdu = a /\ r.to = HandlerOf(a) /\ r.addr = addr
        BY <4>3, SMT
      <4>5. HandsOver(r, p, Len(x) - Len(h) - Len(g), addr)
        BY <3>2, <3>4, <3>5, <3>6, <4>4, Zenon DEF HandsOver
      <4>6. QED
        BY <4>1, <4>2, <4>5, Zenon
    <3>8. QED
      BY <2>5, <2>7, <3>1, <3>7, SMT
  <2>8. QED
    BY <2>6, <2>7
<1>8. QED
  BY <1>3, <1>4, <1>6, <1>7, SMT

-----------------------------------------------------------------------------
(***************************************************************************)
(* An I-Am, read by handleIAm tag by tag.                                  *)
(***************************************************************************)

\* The three numbers of an I-Am, as handleIAm reads them one after the other.
MaxAPDURead(x, size) == ReadUnsignedTag(Drop(x, size + 4))
SegmentationRead(x, size) == ReadUnsignedTag(MaxAPDURead(x, size).rest)
VendorRead(x, size) == ReadUnsignedTag(SegmentationRead(x, size).rest)

\* x starts with the object identifier of device i, after a tag of size bytes.
StartsWithDevice(x, size, i) ==
    /\ DecodeTagNumber(x) = DecodedTag(TagObjectID, 0, 4, size)
    /\ ~(Len(x) < size + 4)
    /\ DecodeObjectIdentifier(Drop(x, size))
         = [type |-> ObjectTypeDevice, instance |-> i]

\* The branches of handleIAm after the object identifier.
LEMMA IAmBranches ==
    ASSUME NEW x, NEW size, NEW i, StartsWithDevice(x, size, i)
    PROVE  /\ ~MaxAPDURead(x, size).ok => DecodeIAm(x) = IAmError
           /\ ~SegmentationRead(x, size).ok => DecodeIAm(x) = IAmError
           /\ ~VendorRead(x, size).ok => DecodeIAm(x) = IAmError
           /\ MaxAPDURead(x, size).ok /\ SegmentationRead(x, size).ok
                /\ VendorRead(x, size).ok =>
                DecodeIAm(x) =
                   [ok |-> TRUE, device |-> i,
                    maxAPDU |-> MaxAPDURead(x, size).value % 65536,
                    segmentation |-> SegmentationRead(x, size).value % 256,
                    vendor |-> VendorRead(x, size).value % 65536]
<1> DEFINE t == DecodeTagNumber(x)
<1>1. t.ok /\ t.number = TagObjectID /\ t.length = 4 /\ t.header = size
  BY SMT DEF StartsWithDevice, DecodedTag
<1>2. PICK o : o = DecodeObjectIdentifier(Drop(x, size))
  OBVIOUS
<1>3. o.type = ObjectTypeDevice /\ o.instance = i
  BY <1>2, SMT DEF StartsWithDevice
<1>4. ~(Len(x) < size + 4)
  BY Zenon DEF StartsWithDevice
<1>5. DecodeIAm(x) =
        IF \/ ~MaxAPDURead(x, size).ok \/ ~SegmentationRead(x, size).ok
           \/ ~VendorRead(x, size).ok
        THEN IAmError
        ELSE [ok |-> TRUE, device |-> i,
              maxAPDU |-> MaxAPDURead(x, size).value % 65536,
              segmentation |-> SegmentationRead(x, size).value % 256,
              vendor |-> VendorRead(x, size).value % 65536]
  BY <1>1, <1>2, <1>3, <1>4, SMT DEF DecodeIAm, MaxAPDURead,
     SegmentationRead, VendorRead
<1>6. QED
  BY <1>5, SMT

\* The instance of a device object fits its twenty-two bits.
IsInstance(i) == i \in Nat /\ i < 4194304

\* handleIAm decodes the object identifier of the device, or refuses an
\* announcement that is cut inside it.
LEMMA DeviceRead ==
    ASSUME NEW i, IsInstance(i),
           NEW o, o = EncodeObjectIdentifier([type |-> ObjectTypeDevice,
                                              instance |-> i]),
           NEW w, w = EncodeApplicationTag(TagObjectID, o),
           NEW b \in Seq(Byte), NEW x, Begins(x, w \o b)
    PROVE  /\ w \in Seq(Byte)
           /\ Len(x) < Len(w) => DecodeIAm(x) = IAmError
           /\ Len(x) >= Len(w) =>
                \E size \in Nat : /\ size + 4 = Len(w)
                                  /\ StartsWithDevice(x, size, i)
<1>1. /\ o \in Seq(Byte) /\ Len(o) = 4
      /\ DecodeObjectIdentifier(o)
           = [type |-> ObjectTypeDevice, instance |-> i]
  <2>1. /\ 8 \in Int /\ 0 <= 8 /\ 8 < 1024
        /\ i \in Int /\ 0 <= i /\ IsInstance(i)
    BY SMT DEF IsInstance
  <2>2. PICK e : e = EncodeObjectIdentifier([type |-> 8, instance |-> i])
    OBVIOUS
  <2>3. e \in Seq(Byte) /\ Len(e) = 4
    BY <2>1, <2>2, ObjectIdentifierBytes, SMT DEF IsInstance
  <2>4. DecodeObjectIdentifier(e) = [type |-> 8, instance |-> i]
    BY <2>1, <2>2, ObjectIdentifierRoundTrip, SMT DEF IsInstance
  <2>5. o = e
    BY <2>2, Zenon DEF ObjectTypeDevice
  <2>6. QED
    BY <2>3, <2>4, <2>5, Zenon DEF ObjectTypeDevice
<1>2. PICK h : h = EncodeTag(TagObjectID, 0, 4)
  OBVIOUS
<1>3. IsTagged(TagObjectID, 0, 4, o, h, w)
  <2>1. w = h \o o
    BY <1>1, <1>2, Zenon DEF EncodeApplicationTag, TagClassApplication
  <2>2. /\ TagObjectID \in Int /\ 0 <= TagObjectID /\ TagObjectID < 15
        /\ 0 \in Int /\ 0 <= 0 /\ 0 < 2
        /\ 4 \in Int /\ 0 <= 4 /\ 4 < Uint32Values
    BY SMT DEF TagObjectID, Uint32Values
  <2>3. QED
    BY <1>1, <1>2, <2>1, <2>2, Zenon DEF IsTagged
<1>4. w \in Seq(Byte) /\ Len(w) = Len(h) + 4 /\ Len(h) \in Nat
  BY <1>3, TaggedWhole, SMT
<1>5. x \in Seq(Byte) /\ Len(x) \in Nat
  BY <1>4, BeginsWith
<1>6. ASSUME Len(x) < Len(w)
      PROVE  DecodeIAm(x) = IAmError
  <2>1. TagLost(x, TagObjectID, 0, 4, Len(h))
    BY <1>3, <1>6, TagRead, SMT
  <2>2. CASE DecodeTagNumber(x) = TagError
    <3>1. ~DecodeTagNumber(x).ok
      BY <2>2, SMTT(20), SMTT(20) DEF TagError
    <3>2. QED
      BY <3>1, SMT DEF DecodeIAm
  <2>3. CASE /\ DecodeTagNumber(x) = DecodedTag(TagObjectID, 0, 4, Len(h))
             /\ Len(x) < Len(h) + 4
    <3>1. DecodeTagNumber(x).header = Len(h)
      BY <2>3, SMT DEF DecodedTag
    <3>2. QED
      BY <2>3, <3>1, SMT DEF DecodeIAm
  <2>4. QED
    BY <2>1, <2>2, <2>3, Zenon DEF TagLost
<1>7. ASSUME Len(x) >= Len(w)
      PROVE  \E size \in Nat : /\ size + 4 = Len(w)
                               /\ StartsWithDevice(x, size, i)
  <2>1. TagIs(x, TagObjectID, 0, 4, o, Len(h))
    BY <1>3, <1>7, TagRead, SMT
  <2>2. /\ DecodeTagNumber(x) = DecodedTag(TagObjectID, 0, 4, Len(h))
        /\ SubSeq(x, Len(h) + 1, Len(h) + 4) = o
    BY <2>1, Zenon DEF TagIs
  <2>3. PICK k \in Nat : k = Len(h)
    BY <1>4
  <2>4. k + 4 <= Len(x) /\ ~(Len(x) < k + 4) /\ k <= Len(x)
    BY <1>4, <1>5, <1>7, <2>3, SMT
  <2>5. PICK z : z = Drop(x, k)
    OBVIOUS
  <2>6. /\ z \in Seq(Byte) /\ Len(z) = Len(x) - k
        /\ \A j \in 1..Len(x) - k : z[j] = x[k + j]
    <3>1. /\ Drop(x, k) \in Seq(Byte) /\ Len(Drop(x, k)) = Len(x) - k
          /\ \A j \in 1..Len(x) - k : Drop(x, k)[j] = x[k + j]
      BY <1>5, <2>4, DropBytes
    <3>2. QED
      BY <2>5, <3>1, Zenon
  <2>7. \A j \in 1..4 : z[j] = o[j]
    <3>1. \A j \in 1..4 : o[j] = x[k + j]
      <4>1. o = SubSeq(x, k + 1, k + 4)
        BY <2>2, <2>3
      <4>2. QED
        BY <1>5, <2>4, <4>1, SMT
    <3>2. \A j \in 1..4 : j \in 1..Len(x) - k
      BY <1>5, <2>4, SMT
    <3>3. QED
      BY <2>6, <3>1, <3>2, Zenon
  <2>8. Len(z) >= 4
    BY <1>5, <2>4, <2>6, SMT
  <2>9. DecodeObjectIdentifier(z) = DecodeObjectIdentifier(o)
    BY <1>1, <2>6, <2>7, <2>8, FourBytesRead, Zenon
  <2>10. StartsWithDevice(x, k, i)
    BY <1>1, <2>2, <2>3, <2>4, <2>5, <2>9, Zenon DEF StartsWithDevice
  <2>11. QED
    BY <1>4, <2>3, <2>10
<1>8. QED
  BY <1>4, <1>6, <1>7

\* A number of an I-Am fits sixteen bits.
IsNumber(v) == v \in Nat /\ v < 65536

\* Of x, a beginning of the element w and of b, readUnsignedTag read w, which is
\* v, and left a beginning of b.
NumberRead(x, w, b, v) ==
    LET r == ReadUnsignedTag(x)
    IN  r.ok /\ r.value = v /\ Begins(r.rest, b) /\ Len(r.rest) = Len(x) - Len(w)

\* The tagged numbers of an I-Am are byte sequences.
LEMMA NumberBytes ==
    ASSUME NEW n \in 0..14, NEW v, IsNumber(v)
    PROVE  EncodeApplicationTag(n, EncodeUnsigned(v)) \in Seq(Byte)
<1>1. /\ n \in Int /\ 0 <= n /\ n < 15
      /\ v \in Nat /\ v < Uint32Values
  BY SMT DEF IsNumber, Uint32Values
<1>2. PICK w : w = EncodeApplicationTag(n, EncodeUnsigned(v))
  OBVIOUS
<1>3. PICK u : u = EncodeUnsigned(v)
  OBVIOUS
<1>4. u \in Seq(Byte) /\ Len(u) \in Int /\ 0 <= Len(u) /\ Len(u) < Uint32Values
  <2>1. u \in Seq(Byte) /\ Len(u) \in 1..4
    BY <1>1, <1>3, UnsignedBytes, Zenon
  <2>2. PICK len \in 1..4 : len = Len(u)
    BY <2>1
  <2>3. len \in Int /\ 0 <= len /\ len < Uint32Values
    BY SMT DEF Uint32Values
  <2>4. QED
    BY <2>1, <2>2, <2>3, Zenon
<1>5. PICK h : h = EncodeTag(n, 0, Len(u))
  OBVIOUS
<1>6. h \in Seq(Byte)
  BY <1>1, <1>4, <1>5, TagNotEmpty, SMT
<1>7. w = h \o u
  BY <1>2, <1>3, <1>5, Zenon DEF EncodeApplicationTag, TagClassApplication
<1>8. h \o u \in Seq(Byte)
  BY <1>4, <1>6, Appended
<1>9. QED
  BY <1>2, <1>7, <1>8, Zenon

\* readUnsignedTag on a number of an I-Am: an error when it is cut.
LEMMA NumberStep ==
    ASSUME NEW n \in 0..14, NEW v, IsNumber(v),
           NEW w, w = EncodeApplicationTag(n, EncodeUnsigned(v)),
           NEW b \in Seq(Byte), NEW x, Begins(x, w \o b)
    PROVE  \/ Len(x) < Len(w) /\ ~ReadUnsignedTag(x).ok
           \/ Len(x) >= Len(w) /\ NumberRead(x, w, b, v)
<1>1. /\ n \in Int /\ 0 <= n /\ n < 15
      /\ v \in Nat /\ v < Uint32Values
  BY SMT DEF IsNumber, Uint32Values
<1>2. w \in Seq(Byte)
  BY NumberBytes, Zenon
<1>3. Len(x) \in Nat /\ Len(w) \in Nat
  BY <1>2, BeginsWith
<1>4. CASE Len(x) < Len(w)
  BY <1>1, <1>4, UnsignedTagRead, SMT
<1>5. CASE Len(x) >= Len(w)
  <2>1. /\ ReadUnsignedTag(x).ok /\ ReadUnsignedTag(x).value = v
        /\ ReadUnsignedTag(x).rest = Drop(x, Len(w))
    BY <1>1, <1>5, UnsignedTagRead, SMT
  <2>2. Begins(Drop(x, Len(w)), b) /\ Len(Drop(x, Len(w))) = Len(x) - Len(w)
    BY <1>2, <1>5, BeginsAfter
  <2>3. QED
    BY <1>5, <2>1, <2>2, Zenon DEF NumberRead
<1>6. QED
  BY <1>3, <1>4, <1>5, SMT

\* The elements of an I-Am, one in another's rest.
IAmParts(d, a, b, c, e) ==
    /\ a = EncodeApplicationTag(TagObjectID,
               EncodeObjectIdentifier([type |-> ObjectTypeDevice,
                                       instance |-> d.device]))
    /\ b = EncodeApplicationTag(2, EncodeUnsigned(d.maxAPDU))
    /\ c = EncodeApplicationTag(9, EncodeUnsigned(d.segmentation))
    /\ e = EncodeApplicationTag(2, EncodeUnsigned(d.vendor))

\* The fields of a device fit the encodings an I-Am uses.
LEMMA DeviceFields ==
    ASSUME NEW d, IsDevice(d)
    PROVE  /\ IsInstance(d.device) /\ IsNumber(d.maxAPDU)
           /\ IsNumber(d.segmentation) /\ d.segmentation < 256
           /\ IsNumber(d.vendor)
BY SMT DEF IsDevice, IsInstance, IsNumber

\* The object identifier of an I-Am is a byte sequence.
LEMMA DeviceBytes ==
    ASSUME NEW i, IsInstance(i)
    PROVE  EncodeApplicationTag(TagObjectID,
               EncodeObjectIdentifier([type |-> ObjectTypeDevice,
                                       instance |-> i])) \in Seq(Byte)
<1>1. PICK o : o = EncodeObjectIdentifier([type |-> ObjectTypeDevice,
                                           instance |-> i])
  OBVIOUS
<1>2. PICK w : w = EncodeApplicationTag(TagObjectID, o)
  OBVIOUS
<1>3. PICK e : e = EncodeObjectIdentifier([type |-> 8, instance |-> i])
  OBVIOUS
<1>4. /\ 8 \in Int /\ 0 <= 8 /\ 8 < 1024 /\ i \in Int /\ 0 <= i
      /\ IsInstance(i)
  BY SMT DEF IsInstance
<1>5. e \in Seq(Byte) /\ Len(e) = 4
  BY <1>3, <1>4, ObjectIdentifierBytes, SMT DEF IsInstance
<1>6. o = e
  BY <1>1, <1>3, Zenon DEF ObjectTypeDevice
<1>7. PICK h : h = EncodeTag(TagObjectID, 0, 4)
  OBVIOUS
<1>8. /\ TagObjectID \in Int /\ 0 <= TagObjectID /\ TagObjectID < 15
      /\ 0 \in Int /\ 0 <= 0 /\ 0 < 2
      /\ 4 \in Int /\ 0 <= 4 /\ 4 < Uint32Values
  BY SMT DEF TagObjectID, Uint32Values
<1>9. h \in Seq(Byte)
  BY <1>7, <1>8, TagNotEmpty, SMT
<1>10. w = h \o e
  BY <1>2, <1>5, <1>6, <1>7, Zenon DEF EncodeApplicationTag,
     TagClassApplication
<1>11. h \o e \in Seq(Byte)
  BY <1>5, <1>9, Appended
<1>12. QED
  BY <1>1, <1>2, <1>10, <1>11, Zenon

\* An I-Am is its four elements one after the other.
LEMMA EncodeIAmParts ==
    ASSUME NEW d, IsDevice(d), NEW a, NEW b, NEW c, NEW e,
           IAmParts(d, a, b, c, e)
    PROVE  /\ a \in Seq(Byte) /\ b \in Seq(Byte) /\ c \in Seq(Byte)
           /\ e \in Seq(Byte)
           /\ EncodeIAm(d) = a \o (b \o (c \o (e \o <<>>)))
<1>1. a \in Seq(Byte)
  BY DeviceFields, DeviceBytes, Zenon DEF IAmParts
<1>2. 2 \in 0..14 /\ 9 \in 0..14
  BY SMT
<1>3. b \in Seq(Byte) /\ c \in Seq(Byte) /\ e \in Seq(Byte)
  BY <1>2, DeviceFields, NumberBytes, Zenon DEF IAmParts
<1>4. EncodeIAm(d) = ((a \o b) \o c) \o e
  BY Zenon DEF EncodeIAm, IAmParts
<1>5. e \o <<>> = e
  BY <1>3, SMT
<1>6. a \o b \in Seq(Byte) /\ c \o e \in Seq(Byte)
  BY <1>1, <1>3, Appended
<1>7. ((a \o b) \o c) \o e = (a \o b) \o (c \o e)
  <2>1. PICK ab \in Seq(Byte) : ab = a \o b
    BY <1>6, Zenon
  <2>2. (ab \o c) \o e = ab \o (c \o e)
    BY <1>3, <2>1, Associative, SMTT(20), SMTT(20)
  <2>3. QED
    BY <2>1, <2>2, Zenon
<1>8. (a \o b) \o (c \o e) = a \o (b \o (c \o e))
  BY <1>1, <1>3, <1>6, Associative, Zenon
<1>9. QED
  BY <1>1, <1>3, <1>4, <1>5, <1>7, <1>8, Zenon

\* A number that fits its field is not changed by narrowing it.
LEMMA Narrowed ==
    /\ \A v : IsNumber(v) => v % 65536 = v
    /\ \A v : IsNumber(v) /\ v < 256 => v % 256 = v
<1>1. \A v \in Nat : v < 65536 => v % 65536 = v
  BY SMT
<1>2. \A v \in Nat : v < 256 => v % 256 = v
  BY SMT
<1>3. QED
  BY <1>1, <1>2, SMT DEF IsNumber

\* handleIAm stores what the device announced, or refuses an announcement that
\* is cut at whichever byte.
LEMMA IAmRead ==
    ASSUME NEW d, IsDevice(d), NEW x, Begins(x, EncodeIAm(d))
    PROVE  /\ Len(x) < Len(EncodeIAm(d)) => DecodeIAm(x) = IAmError
           /\ ~(Len(x) < Len(EncodeIAm(d))) =>
                DecodeIAm(x) =
                    [ok |-> TRUE, device |-> d.device, maxAPDU |-> d.maxAPDU,
                     segmentation |-> d.segmentation, vendor |-> d.vendor]
<1>1. PICK a, b, c, e : IAmParts(d, a, b, c, e)
  BY Zenon DEF IAmParts
<1>2. /\ a \in Seq(Byte) /\ b \in Seq(Byte) /\ c \in Seq(Byte)
      /\ e \in Seq(Byte)
      /\ EncodeIAm(d) = a \o (b \o (c \o (e \o <<>>)))
  BY <1>1, EncodeIAmParts, SMTT(20), SMTT(20)
<1>3. /\ IsInstance(d.device) /\ IsNumber(d.maxAPDU)
      /\ IsNumber(d.segmentation) /\ d.segmentation < 256
      /\ IsNumber(d.vendor)
  BY DeviceFields, Zenon
<1>4. PICK z \in Seq(Byte) : z = <<>>
  <2>1. <<>> \in Seq(Byte)
    BY SMT
  <2>2. QED
    BY <2>1, Zenon
<1>5. PICK t4 \in Seq(Byte) : t4 = e \o z /\ Len(t4) = Len(e)
  <2>1. e \o z \in Seq(Byte) /\ Len(e \o z) = Len(e)
    BY <1>2, <1>4, SMT
  <2>2. QED
    BY <2>1
<1>6. PICK t3 \in Seq(Byte) : t3 = c \o t4 /\ Len(t3) = Len(c) + Len(t4)
  BY <1>2, Appended, Zenon
<1>7. PICK t2 \in Seq(Byte) : t2 = b \o t3 /\ Len(t2) = Len(b) + Len(t3)
  BY <1>2, Appended, Zenon
<1>8. PICK w \in Seq(Byte) : w = a \o t2 /\ Len(w) = Len(a) + Len(t2)
  BY <1>2, Appended, Zenon
<1>9. EncodeIAm(d) = w
  BY <1>2, <1>4, <1>5, <1>6, <1>7, <1>8, ZenonT(30)
<1>10. Begins(x, a \o t2) /\ Len(x) \in Nat
  <2>1. Begins(x, a \o t2)
    BY <1>8, <1>9, Zenon
  <2>2. QED
    BY <1>2, <2>1, BeginsWith
<1>11. PICK la \in Nat, lb \in Nat, lc \in Nat, le \in Nat :
          /\ la = Len(a) /\ lb = Len(b) /\ lc = Len(c) /\ le = Len(e)
  BY <1>2
<1>12. /\ Len(t4) = le /\ Len(t3) = lc + le /\ Len(t2) = lb + lc + le
       /\ Len(w) = la + lb + lc + le
  BY <1>5, <1>6, <1>7, <1>8, <1>11, SMT
<1>13. Len(x) < la => DecodeIAm(x) = IAmError
  <2>1. Begins(x, a \o t2)
    BY <1>10
  <2>2. QED
    BY <1>1, <1>3, <1>11, <2>1, DeviceRead, Zenon DEF IAmParts
<1>14. ASSUME Len(x) >= la
       PROVE  /\ Len(x) < Len(w) => DecodeIAm(x) = IAmError
              /\ ~(Len(x) < Len(w)) =>
                   DecodeIAm(x) =
                     [ok |-> TRUE, device |-> d.device,
                      maxAPDU |-> d.maxAPDU,
                      segmentation |-> d.segmentation, vendor |-> d.vendor]
  <2>1. PICK size \in Nat : /\ size + 4 = la
                            /\ StartsWithDevice(x, size, d.device)
    <3>1. Begins(x, a \o t2)
      BY <1>10
    <3>2. QED
      BY <1>1, <1>3, <1>11, <1>14, <3>1, DeviceRead, Zenon DEF IAmParts
  <2>2. PICK x2 : x2 = Drop(x, la)
    OBVIOUS
  <2>3. Begins(x2, b \o t3) /\ Len(x2) = Len(x) - la
    BY <1>2, <1>7, <1>10, <1>11, <1>14, <2>2, BeginsAfter, Zenon
  <2>4. MaxAPDURead(x, size) = ReadUnsignedTag(x2)
    BY <2>1, <2>2, Zenon DEF MaxAPDURead
  <2>5. /\ ~MaxAPDURead(x, size).ok => DecodeIAm(x) = IAmError
        /\ ~SegmentationRead(x, size).ok => DecodeIAm(x) = IAmError
        /\ ~VendorRead(x, size).ok => DecodeIAm(x) = IAmError
    BY <2>1, IAmBranches, SMT
  <2>6. 2 \in 0..14 /\ 9 \in 0..14
    BY SMT
  <2>7. \/ Len(x2) < Len(b) /\ ~ReadUnsignedTag(x2).ok
        \/ Len(x2) >= Len(b) /\ NumberRead(x2, b, t3, d.maxAPDU)
    BY <1>1, <1>3, <2>3, <2>6, NumberStep, Zenon DEF IAmParts
  <2>8. CASE Len(x2) < Len(b) /\ ~ReadUnsignedTag(x2).ok
    <3>1. Len(x) < Len(w)
      BY <1>10, <1>11, <1>12, <2>3, <2>8, SMTT(20)
    <3>2. QED
      BY <2>4, <2>5, <2>8, <3>1, Zenon
  <2>9. CASE Len(x2) >= Len(b) /\ NumberRead(x2, b, t3, d.maxAPDU)
    <3>1. PICK x3 : x3 = ReadUnsignedTag(x2).rest
      OBVIOUS
    <3>2. /\ ReadUnsignedTag(x2).ok /\ ReadUnsignedTag(x2).value = d.maxAPDU
          /\ Begins(x3, c \o t4) /\ Len(x3) = Len(x2) - Len(b)
      BY <1>6, <2>9, <3>1, Zenon DEF NumberRead
    <3>3. SegmentationRead(x, size) = ReadUnsignedTag(x3)
      BY <2>4, <3>1, Zenon DEF SegmentationRead
    <3>4. \/ Len(x3) < Len(c) /\ ~ReadUnsignedTag(x3).ok
          \/ Len(x3) >= Len(c) /\ NumberRead(x3, c, t4, d.segmentation)
      BY <1>1, <1>3, <2>6, <3>2, NumberStep, Zenon DEF IAmParts
    <3>5. CASE Len(x3) < Len(c) /\ ~ReadUnsignedTag(x3).ok
      <4>1. Len(x) < Len(w)
        BY <1>10, <1>11, <1>12, <2>3, <3>2, <3>5, SMTT(20)
      <4>2. QED
        BY <2>5, <3>3, <3>5, <4>1, Zenon
    <3>6. CASE Len(x3) >= Len(c) /\ NumberRead(x3, c, t4, d.segmentation)
      <4>1. PICK x4 : x4 = ReadUnsignedTag(x3).rest
        OBVIOUS
      <4>2. /\ ReadUnsignedTag(x3).ok
            /\ ReadUnsignedTag(x3).value = d.segmentation
            /\ Begins(x4, e \o z) /\ Len(x4) = Len(x3) - Len(c)
        BY <1>5, <3>6, <4>1, Zenon DEF NumberRead
      <4>3. VendorRead(x, size) = ReadUnsignedTag(x4)
        BY <3>3, <4>1, Zenon DEF VendorRead
      <4>4. \/ Len(x4) < Len(e) /\ ~ReadUnsignedTag(x4).ok
            \/ Len(x4) >= Len(e) /\ NumberRead(x4, e, z, d.vendor)
        BY <1>1, <1>3, <2>6, <4>2, NumberStep, ZenonT(30) DEF IAmParts
      <4>5. CASE Len(x4) < Len(e) /\ ~ReadUnsignedTag(x4).ok
        <5>1. Len(x) < Len(w)
          BY <1>10, <1>11, <1>12, <2>3, <3>2, <4>2, <4>5, SMTT(20)
        <5>2. QED
          BY <2>5, <4>3, <4>5, <5>1, Zenon
      <4>6. CASE Len(x4) >= Len(e) /\ NumberRead(x4, e, z, d.vendor)
        <5>1. ~(Len(x) < Len(w))
          BY <1>10, <1>11, <1>12, <2>3, <3>2, <4>2, <4>6, SMTT(20)
        <5>2. /\ ReadUnsignedTag(x4).ok
              /\ ReadUnsignedTag(x4).value = d.vendor
          BY <4>6, Zenon DEF NumberRead
        <5>3. /\ d.maxAPDU % 65536 = d.maxAPDU
              /\ d.segmentation % 256 = d.segmentation
              /\ d.vendor % 65536 = d.vendor
          BY <1>3, Narrowed, SMTT(20)
        <5>4. DecodeIAm(x) =
                [ok |-> TRUE, device |-> d.device,
                 maxAPDU |-> MaxAPDURead(x, size).value % 65536,
                 segmentation |-> SegmentationRead(x, size).value % 256,
                 vendor |-> VendorRead(x, size).value % 65536]
          BY <2>1, <2>4, <3>2, <3>3, <4>2, <4>3, <5>2, IAmBranches, SMTT(20)
        <5>5. /\ MaxAPDURead(x, size).value = d.maxAPDU
              /\ SegmentationRead(x, size).value = d.segmentation
              /\ VendorRead(x, size).value = d.vendor
          BY <2>4, <3>2, <3>3, <4>2, <4>3, <5>2, Zenon
        <5>6. DecodeIAm(x) =
                [ok |-> TRUE, device |-> d.device, maxAPDU |-> d.maxAPDU,
                 segmentation |-> d.segmentation, vendor |-> d.vendor]
          <6>1. PICK m, s, v : /\ m = MaxAPDURead(x, size).value % 65536
                               /\ s = SegmentationRead(x, size).value % 256
                               /\ v = VendorRead(x, size).value % 65536
            OBVIOUS
          <6>2. m = d.maxAPDU /\ s = d.segmentation /\ v = d.vendor
            BY <5>3, <5>5, <6>1, SMTT(20)
          <6>3. DecodeIAm(x) =
                  [ok |-> TRUE, device |-> d.device, maxAPDU |-> m,
                   segmentation |-> s, vendor |-> v]
            BY <5>4, <6>1, SMT
          <6>4. QED
            BY <6>2, <6>3, Zenon
        <5>7. QED
          BY <5>1, <5>6, Zenon
      <4>7. QED
        BY <4>4, <4>5, <4>6
    <3>7. QED
      BY <3>4, <3>5, <3>6
  <2>10. QED
    BY <2>7, <2>8, <2>9
<1>15. Len(x) < la \/ Len(x) >= la
  BY <1>10, <1>11, SMT
<1>16. Len(x) < la => Len(x) < Len(w)
  BY <1>10, <1>11, <1>12, SMT
<1>17. QED
  BY <1>9, <1>13, <1>14, <1>15, <1>16, Zenon

-----------------------------------------------------------------------------
(***************************************************************************)
(* The headers that devices and routers build, and the invariant.          *)
(***************************************************************************)

\* The control byte of a header: as it was sent, with
\* the bit that a router sets for a source address and msg, the bit that one
\* sets for a network message.
IsControl(c, m, msg) ==
    \E b \in {0, 32, 39} : c = b + (IF m = <<>> THEN 0 ELSE 8) + msg

\* h is a header that carries the network address m, if any, and a message of
\* the network layer if msg is not zero.
Carries(h, m, msg) ==
    \E c, nd, ns, nm : /\ IsHeader(h, c, nd, ns, nm, m)
                       /\ IsControl(c, m, msg)

\* What devices send.
Sent(p) == p \in PDUs \/ \E d \in Devices : p = IAm(d)

\* The bit of the control byte that marks a message of the network layer.
MessageBit == IF message THEN 128 ELSE 0

\* What the client was given.
Received == SubSeq(Datagram, 1, Len(Datagram) - lost)
Sender == IF forwarded THEN BBMDIP ELSE OriginIP

\* A header with at most one specifier is one that routers build from one that
\* devices send.
Legible == ~BothSpecifiers => Carries(npdu, mac, MessageBit)

\* The inductive invariant: the header is legible unless it has both specifiers,
\* and what was received was handled.
DeliveryInv ==
    /\ message \in BOOLEAN /\ forwarded \in BOOLEAN
    /\ stage = "idle" => mac = <<>> /\ ~message /\ ~forwarded /\ lost = 0
    /\ stage # "idle" => /\ Sent(pdu) /\ Legible
                         /\ lost = 0 \/ lost \in 1..Len(Datagram)
    /\ stage = "received" =>
         /\ handled = HandlePacket(Received, Sender)
         /\ iam = IF handled.to = "handleIAm" THEN DecodeIAm(handled.apdu.data)
                  ELSE IAmError

\* The bits that handlePacket tests of a control byte, and what becomes of it
\* when a router sets one.
LEMMA ControlBits ==
    ASSUME NEW c, NEW m, NEW msg \in {0, 128}, IsControl(c, m, msg)
    PROVE  /\ c \in Byte
           /\ HasBit(c, 8) <=> m # <<>>
           /\ HasBit(c, 128) <=> msg # 0
           /\ m = <<>> => /\ c + 8 \in Byte
                          /\ \A a : a # <<>> => IsControl(c + 8, a, msg)
                          /\ HasBit(c + 8, 32) <=> HasBit(c, 32)
           /\ msg = 0 => /\ c + 128 \in Byte /\ IsControl(c + 128, m, 128)
                         /\ HasBit(c + 128, 32) <=> HasBit(c, 32)
<1>1. PICK k \in {0, 8}, b \in {0, 32, 39} :
        /\ k = IF m = <<>> THEN 0 ELSE 8
        /\ c = b + k + msg
  BY Zenon DEF IsControl
<1>2. c \in Byte
  BY <1>1, SMT DEF Byte
<1>3. HasBit(c, 8) <=> m # <<>>
  BY <1>1, SMT DEF HasBit
<1>4. HasBit(c, 128) <=> msg # 0
  BY <1>1, SMT DEF HasBit
<1>5. ASSUME m = <<>>
      PROVE  /\ c + 8 \in Byte
             /\ \A a : a # <<>> => IsControl(c + 8, a, msg)
             /\ HasBit(c + 8, 32) <=> HasBit(c, 32)
  <2>1. k = 0 /\ c + 8 = b + 8 + msg
    BY <1>1, <1>5, SMT
  <2>2. \A a : a # <<>> => IsControl(c + 8, a, msg)
    BY <1>1, <2>1, Zenon DEF IsControl
  <2>3. c + 8 \in Byte /\ (HasBit(c + 8, 32) <=> HasBit(c, 32))
    BY <1>1, <2>1, SMT DEF Byte, HasBit
  <2>4. QED
    BY <2>2, <2>3
<1>6. ASSUME msg = 0
      PROVE  /\ c + 128 \in Byte /\ IsControl(c + 128, m, 128)
             /\ HasBit(c + 128, 32) <=> HasBit(c, 32)
  <2>1. c + 128 = b + k + 128
    BY <1>1, <1>6, SMT
  <2>2. IsControl(c + 128, m, 128)
    BY <1>1, <2>1, ZenonT(30) DEF IsControl
  <2>3. c + 128 \in Byte /\ (HasBit(c + 128, 32) <=> HasBit(c, 32))
    BY <1>1, <1>6, <2>1, SMT DEF Byte, HasBit
  <2>4. QED
    BY <2>2, <2>3
<1>7. QED
  BY <1>2, <1>3, <1>4, <1>5, <1>6, SMTT(20)

\* A header without addresses, as encodeNPDU writes it.
LEMMA PlainHeader == Carries(EncodeNPDU(FALSE, 0), <<>>, 0)
<1>1. PICK h : h = <<1, 0>>
  BY Zenon
<1>2. EncodeNPDU(FALSE, 0) = h
  BY <1>1, SMT DEF EncodeNPDU
<1>3. h \in Seq(Byte) /\ Len(h) = 2 /\ h[1] = 1 /\ h[2] = 0
  BY <1>1, SMT DEF Byte
<1>4. ~HasBit(0, 32) /\ ~HasBit(0, 8) /\ ~HasBit(0, 128)
  BY SMT DEF HasBit
<1>5. 0 \in Nat /\ 2 = 2 + 0 + 0 + 0
  BY SMT
<1>6. IsHeader(h, 0, 0, 0, 0, <<>>)
  BY <1>3, <1>4, <1>5, Zenon DEF IsHeader
<1>7. IsControl(0, <<>>, 0)
  BY SMT DEF IsControl
<1>8. Carries(h, <<>>, 0)
  BY <1>6, <1>7, Zenon DEF Carries
<1>9. QED
  BY <1>2, <1>8, Zenon

\* What encodeNPDUWithDest writes.
HasDest(h, c, net, a) ==
    h = <<1, c>> \o PutUint16(net) \o <<Len(a) % 256>> \o a \o <<255>>

\* A header with a destination, as encodeNPDUWithDest writes it.
LEMMA DestHeader ==
    ASSUME NEW c \in Byte, NEW net \in Int, NEW a \in Seq(Byte),
           Len(a) \in 0..255, IsControl(c, <<>>, 0), HasBit(c, 32),
           NEW h, HasDest(h, c, net, a)
    PROVE  Carries(h, <<>>, 0)
<1>1. PICK la \in 0..255 : la = Len(a)
  BY SMTT(20), SMTT(20)
<1>2. la \in Nat
  <2>1. la \in 0..255
    BY <1>1, Zenon
  <2>2. QED
    BY <2>1, SMT
<1>3. PICK p : p = <<1, c>>
  BY ZenonT(30)
<1>4. p \in Seq(Byte) /\ Len(p) = 2 /\ p[1] = 1 /\ p[2] = c
  BY <1>3, SMTT(20), SMTT(20) DEF Byte
<1>5. PICK q : q = PutUint16(net)
  OBVIOUS
<1>6. q \in Seq(Byte) /\ Len(q) = 2
  BY <1>5, PutBytes, Zenon
<1>7. PICK r : r = <<Len(a) % 256>>
  BY ZenonT(30)
<1>8. r \in Seq(Byte) /\ Len(r) = 1 /\ r[1] = la
  <2>1. Len(a) % 256 = la /\ la \in Byte
    <3>1. \A l \in 0..255 : l % 256 = l /\ l \in Byte
      BY SMTT(20) DEF Byte
    <3>2. QED
      BY <1>1, <3>1, ZenonT(30)
  <2>2. QED
    BY <1>7, <2>1, SMT
<1>9. PICK s : s = <<255>>
  BY ZenonT(30)
<1>10. s \in Seq(Byte) /\ Len(s) = 1
  BY <1>9, SMT DEF Byte
<1>11. PICK u \in Seq(Byte) : /\ u = p \o q /\ Len(u) = 4
                              /\ u[1] = 1 /\ u[2] = c
  <2>1. /\ p \o q \in Seq(Byte) /\ Len(p \o q) = Len(p) + Len(q)
        /\ \A i \in 1..Len(p) : (p \o q)[i] = p[i]
    BY <1>4, <1>6, Appended, ZenonT(30)
  <2>2. Len(p) + Len(q) = 4 /\ 1 \in 1..Len(p) /\ 2 \in 1..Len(p)
    BY <1>4, <1>6, SMT
  <2>3. QED
    BY <1>4, <2>1, <2>2, Zenon
<1>12. PICK v \in Seq(Byte) : /\ v = u \o r /\ Len(v) = 5
                              /\ v[1] = 1 /\ v[2] = c /\ v[5] = la
  <2>1. /\ u \o r \in Seq(Byte) /\ Len(u \o r) = Len(u) + Len(r)
        /\ \A i \in 1..Len(u) : (u \o r)[i] = u[i]
        /\ \A i \in 1..Len(r) : (u \o r)[Len(u) + i] = r[i]
    BY <1>8, <1>11, Appended, ZenonT(30)
  <2>2. /\ Len(u) + Len(r) = 5 /\ 1 \in 1..Len(u) /\ 2 \in 1..Len(u)
        /\ 1 \in 1..Len(r) /\ Len(u) + 1 = 5
    <3>1. 4 + 1 = 5 /\ 1 \in 1..4 /\ 2 \in 1..4 /\ 1 \in 1..1
      BY SMT
    <3>2. Len(u) = 4 /\ Len(r) = 1
      BY <1>8, <1>11, Zenon
    <3>3. QED
      BY <3>1, <3>2, ZenonT(30)
  <2>3. (u \o r)[5] = la
    BY <1>8, <2>1, <2>2, Zenon
  <2>4. QED
    BY <1>11, <2>1, <2>2, <2>3, Zenon
<1>13. PICK w \in Seq(Byte) : /\ w = v \o a /\ Len(w) = 5 + la
                              /\ w[1] = 1 /\ w[2] = c /\ w[5] = la
  <2>1. /\ v \o a \in Seq(Byte) /\ Len(v \o a) = Len(v) + Len(a)
        /\ \A i \in 1..Len(v) : (v \o a)[i] = v[i]
    BY <1>12, Appended, ZenonT(30)
  <2>2. 1 \in 1..Len(v) /\ 2 \in 1..Len(v) /\ 5 \in 1..Len(v)
    <3>1. 1 \in 1..5 /\ 2 \in 1..5 /\ 5 \in 1..5
      BY SMT
    <3>2. QED
      BY <1>12, <3>1, ZenonT(30)
  <2>3. QED
    BY <1>1, <1>12, <2>1, <2>2, Zenon
<1>14. PICK z \in Seq(Byte) : /\ z = w \o s /\ Len(z) = 5 + la + 1
                              /\ z[1] = 1 /\ z[2] = c /\ z[5] = la
  <2>1. /\ w \o s \in Seq(Byte) /\ Len(w \o s) = Len(w) + Len(s)
        /\ \A i \in 1..Len(w) : (w \o s)[i] = w[i]
    BY <1>10, <1>13, Appended, ZenonT(30)
  <2>2. 1 \in 1..Len(w) /\ 2 \in 1..Len(w) /\ 5 \in 1..Len(w)
    <3>1. 1 \in 1..5 + la /\ 2 \in 1..5 + la /\ 5 \in 1..5 + la
      BY SMT
    <3>2. QED
      BY <1>13, <3>1, ZenonT(30)
  <2>3. QED
    BY <1>10, <1>13, <2>1, <2>2, Zenon
<1>15. h = z
  BY <1>3, <1>5, <1>7, <1>9, <1>11, <1>12, <1>13, <1>14,
     ZenonT(30) DEF HasDest
<1>16. ~HasBit(c, 8) /\ ~HasBit(c, 128)
  BY ControlBits, SMTT(20), SMTT(20)
<1>17. /\ 4 + la \in Nat /\ 0 \in Nat /\ 4 + la > 3
       /\ 5 + la + 1 = 2 + (4 + la) + 0 + 0
  BY <1>2, SMT
<1>18. IsHeader(z, c, 4 + la, 0, 0, <<>>)
  BY <1>14, <1>16, <1>17, ZenonT(30) DEF IsHeader
<1>19. QED
  BY <1>15, <1>18, ZenonT(30) DEF Carries

\* g is h with another control byte.
Rewritten(h, c, g) ==
    /\ g \in Seq(Byte) /\ Len(g) = Len(h)
    /\ g[1] = 1 /\ g[2] = c
    /\ \A i \in 3..Len(h) : g[i] = h[i]

\* A router keeps what follows the control byte.
LEMMA Rehead ==
    ASSUME NEW h \in Seq(Byte), Len(h) >= 2, NEW c \in Byte
    PROVE  Rewritten(h, c, <<1, c>> \o Drop(h, 2))
<1>1. PICK p : p = <<1, c>>
  BY Zenon
<1>2. p \in Seq(Byte) /\ Len(p) = 2 /\ p[1] = 1 /\ p[2] = c
  BY <1>1, SMT DEF Byte
<1>3. PICK q : q = Drop(h, 2)
  OBVIOUS
<1>4. /\ q \in Seq(Byte) /\ Len(q) = Len(h) - 2
      /\ \A i \in 1..Len(h) - 2 : q[i] = h[2 + i]
  <2>1. 2 \in Nat /\ 2 <= Len(h)
    BY SMT
  <2>2. /\ Drop(h, 2) \in Seq(Byte) /\ Len(Drop(h, 2)) = Len(h) - 2
        /\ \A i \in 1..Len(h) - 2 : Drop(h, 2)[i] = h[2 + i]
    BY <2>1, DropBytes
  <2>3. QED
    BY <1>3, <2>2, Zenon
<1>5. PICK g : g = p \o q
  BY Zenon
<1>6. /\ g \in Seq(Byte) /\ Len(g) = Len(p) + Len(q)
      /\ \A i \in 1..Len(p) : g[i] = p[i]
      /\ \A i \in 1..Len(q) : g[Len(p) + i] = q[i]
  BY <1>2, <1>4, <1>5, Appended, Zenon
<1>7. Len(h) \in Nat
  OBVIOUS
<1>8. Len(g) = Len(h) /\ 1 \in 1..Len(p) /\ 2 \in 1..Len(p)
  BY <1>2, <1>4, <1>6, <1>7, SMT
<1>9. ASSUME NEW i \in 3..Len(h)
      PROVE  g[i] = h[i]
  <2>1. PICK j \in Int : j = i - 2
    BY SMT
  <2>2. j \in 1..Len(h) - 2 /\ 2 + j = i
    BY <1>7, <2>1, SMT
  <2>3. QED
    BY <1>2, <1>4, <1>6, <2>2, Zenon
<1>10. Rewritten(h, c, g)
  BY <1>2, <1>6, <1>8, <1>9, Zenon DEF Rewritten
<1>11. QED
  BY <1>1, <1>3, <1>5, <1>10, Zenon

\* Where the length of a source address stands after n bytes of a destination.
LEMMA Offsets ==
    ASSUME NEW n \in Nat
    PROVE  /\ (4 + n) + 1 = 5 + n /\ 1 \in 1..1 /\ 5 + n \in 1..5 + n
           /\ \A i \in 1..2 + n : i \in 1..4 + n
           /\ \A i \in 1..2 + n : i \in 1..5 + n
BY SMT

\* The last l elements of w, which follow the first k.
LEMMA RestBytes ==
    ASSUME NEW w \in Seq(Byte), NEW k \in Nat, NEW l \in Nat, Len(w) = k + l
    PROVE  /\ SubSeq(w, k + 1, k + l) \in Seq(Byte)
           /\ Len(SubSeq(w, k + 1, k + l)) = l
           /\ \A i \in 1..l : SubSeq(w, k + 1, k + l)[i] = w[k + i]
<1>1. SubSeq(w, k + 1, k + l) \in Seq(Byte)
  BY SMT
<1>2. Len(SubSeq(w, k + 1, k + l)) = l
  BY SMT
<1>3. \A i \in 1..l : SubSeq(w, k + 1, k + l)[i] = w[k + i]
  BY SMT
<1>4. QED
  BY <1>1, <1>2, <1>3, Zenon

\* The header after a router added a source address.
LEMMA RoutedHeader ==
    ASSUME NEW h, Carries(h, <<>>, 0),
           NEW m \in Seq(Byte), Len(m) \in 1..255
    PROVE  Carries(<<1, h[2] + 8>> \o Drop(h, 2) \o PutUint16(5) \o <<Len(m)>>
                       \o m, m, 0)
<1>1. PICK c, nd, ns, nm : /\ IsHeader(h, c, nd, ns, nm, <<>>)
                           /\ IsControl(c, <<>>, 0)
  BY Zenon DEF Carries
<1>2. m # <<>>
  <2>1. 0 \notin 1..255 /\ Len(<<>>) = 0
    BY SMTT(20), SMTT(20)
  <2>2. QED
    BY <2>1, Zenon
<1>3. /\ ~HasBit(c, 8) /\ ~HasBit(c, 128) /\ c + 8 \in Byte
      /\ IsControl(c + 8, m, 0) /\ (HasBit(c + 8, 32) <=> HasBit(c, 32))
  <2>1. PICK n : n = <<>>
    OBVIOUS
  <2>2. IsControl(c, n, 0) /\ 0 \in {0, 128}
    BY <1>1, <2>1, Zenon
  <2>3. /\ HasBit(c, 8) <=> n # <<>>
        /\ HasBit(c, 128) <=> 0 # 0
        /\ n = <<>> => /\ c + 8 \in Byte
                       /\ \A a : a # <<>> => IsControl(c + 8, a, 0)
                       /\ HasBit(c + 8, 32) <=> HasBit(c, 32)
    BY <2>2, ControlBits, ZenonT(30)
  <2>4. ~HasBit(c, 8) /\ ~HasBit(c, 128)
    BY <2>1, <2>3, SMTT(20), SMTT(20)
  <2>5. c + 8 \in Byte /\ IsControl(c + 8, m, 0)
    BY <1>2, <2>1, <2>3, SMTT(20), SMTT(20)
  <2>6. HasBit(c + 8, 32) <=> HasBit(c, 32)
    BY <2>1, <2>3
  <2>7. QED
    BY <2>4, <2>5, <2>6, SMTT(20), SMTT(20)
<1>4. HasBit(c + 8, 8) /\ ~HasBit(c + 8, 128)
  BY <1>2, <1>3, ControlBits, ZenonT(30)
<1>5. /\ h \in Seq(Byte) /\ nd \in Nat /\ Len(h) = 2 + nd + ns + nm
      /\ h[2] = c /\ ns = 0 /\ nm = 0
      /\ IF HasBit(c, 32) THEN nd > 3 /\ nd = 4 + h[5] ELSE nd = 0
  BY <1>1, <1>3, Zenon DEF IsHeader
<1>6. Len(h) = 2 + nd /\ Len(h) >= 2 /\ Len(h) \in Nat
  BY <1>5, SMT
<1>7. PICK g : g = <<1, c + 8>> \o Drop(h, 2)
  BY Zenon
<1>8. Rewritten(h, c + 8, g)
  BY <1>3, <1>5, <1>6, <1>7, Rehead, ZenonT(30)
<1>9. PICK lm \in 1..255 : lm = Len(m)
  BY SMTT(20), SMTT(20)
<1>10. lm \in Nat /\ lm \in Byte /\ lm >= 1
  <2>1. lm \in 1..255
    BY <1>9, Zenon
  <2>2. QED
    BY <2>1, SMT DEF Byte
<1>11. PICK p : p = PutUint16(5)
  BY SMTT(20), SMTT(20)
<1>12. p \in Seq(Byte) /\ Len(p) = 2
  BY <1>11, PutBytes, SMT
<1>13. PICK q : q = <<Len(m)>>
  BY Zenon
<1>14. q \in Seq(Byte) /\ Len(q) = 1 /\ q[1] = lm
  <2>1. q = <<lm>>
    BY <1>9, <1>13, Zenon
  <2>2. QED
    BY <1>10, <2>1, SMT
<1>15. /\ g \in Seq(Byte) /\ Len(g) = 2 + nd /\ g[1] = 1 /\ g[2] = c + 8
       /\ \A i \in 3..2 + nd : g[i] = h[i]
  BY <1>6, <1>8, Zenon DEF Rewritten
<1>16. PICK u \in Seq(Byte) : /\ u = g \o p /\ Len(u) = 4 + nd
                              /\ \A i \in 1..2 + nd : u[i] = g[i]
  <2>1. /\ g \o p \in Seq(Byte) /\ Len(g \o p) = Len(g) + Len(p)
        /\ \A i \in 1..Len(g) : (g \o p)[i] = g[i]
    BY <1>12, <1>15, Appended, ZenonT(30)
  <2>2. Len(g) + Len(p) = 4 + nd
    BY <1>5, <1>12, <1>15, SMT
  <2>3. QED
    BY <1>15, <2>1, <2>2, Zenon
<1>17. PICK v \in Seq(Byte) : /\ v = u \o q /\ Len(v) = 5 + nd
                              /\ \A i \in 1..2 + nd : v[i] = g[i]
                              /\ v[5 + nd] = lm
  <2>1. /\ u \o q \in Seq(Byte) /\ Len(u \o q) = Len(u) + Len(q)
        /\ \A i \in 1..Len(u) : (u \o q)[i] = u[i]
        /\ \A i \in 1..Len(q) : (u \o q)[Len(u) + i] = q[i]
    BY <1>14, <1>16, Appended, Zenon
  <2>2. /\ Len(u) + Len(q) = 5 + nd /\ 1 \in 1..Len(q)
        /\ Len(u) + 1 = 5 + nd
        /\ \A i \in 1..2 + nd : i \in 1..Len(u)
    <3>1. /\ (4 + nd) + 1 = 5 + nd /\ 1 \in 1..1
          /\ \A i \in 1..2 + nd : i \in 1..4 + nd
      BY <1>5, Offsets, Zenon
    <3>2. QED
      BY <1>14, <1>16, <3>1, Zenon
  <2>3. (u \o q)[5 + nd] = lm
    BY <1>14, <2>1, <2>2, Zenon
  <2>4. \A i \in 1..2 + nd : (u \o q)[i] = g[i]
    BY <1>16, <2>1, <2>2, Zenon
  <2>5. QED
    BY <2>1, <2>2, <2>3, <2>4, Zenon
<1>18. PICK w \in Seq(Byte) : /\ w = v \o m /\ Len(w) = 5 + nd + lm
                              /\ \A i \in 1..2 + nd : w[i] = g[i]
                              /\ w[5 + nd] = lm
                              /\ \A i \in 1..lm : w[5 + nd + i] = m[i]
  <2>1. /\ v \o m \in Seq(Byte) /\ Len(v \o m) = Len(v) + Len(m)
        /\ \A i \in 1..Len(v) : (v \o m)[i] = v[i]
        /\ \A i \in 1..Len(m) : (v \o m)[Len(v) + i] = m[i]
    BY <1>17, Appended, Zenon
  <2>2. 5 + nd \in 1..Len(v) /\ \A i \in 1..2 + nd : i \in 1..Len(v)
    <3>1. 5 + nd \in 1..5 + nd /\ \A i \in 1..2 + nd : i \in 1..5 + nd
      BY <1>5, Offsets, Zenon
    <3>2. QED
      BY <1>17, <3>1, Zenon
  <2>3. \A i \in 1..2 + nd : (v \o m)[i] = g[i]
    BY <1>17, <2>1, <2>2, Zenon
  <2>4. (v \o m)[5 + nd] = lm
    BY <1>17, <2>1, <2>2, Zenon
  <2>5. /\ Len(v \o m) = 5 + nd + lm
        /\ \A i \in 1..lm : (v \o m)[5 + nd + i] = m[i]
    BY <1>9, <1>17, <2>1, Zenon
  <2>6. QED
    BY <2>1, <2>3, <2>4, <2>5, Zenon
<1>19. SubSeq(w, 2 + nd + 4, 2 + nd + (3 + lm)) = m
  <2>1. PICK k \in Nat : k = 5 + nd
    BY <1>5, SMT
  <2>2. /\ w \in Seq(Byte) /\ Len(w) = k + lm
        /\ \A i \in 1..lm : w[k + i] = m[i]
    BY <1>18, <2>1, ZenonT(30)
  <2>3. 2 + nd + 4 = k + 1 /\ 2 + nd + (3 + lm) = k + lm
    BY <1>5, <1>10, <2>1, SMT
  <2>4. PICK r : r = SubSeq(w, k + 1, k + lm)
    BY Zenon
  <2>5. SubSeq(w, k + 1, k + lm) \in Seq(Byte)
    BY <1>10, <2>1, <2>2, RestBytes, Zenon
  <2>6. Len(SubSeq(w, k + 1, k + lm)) = lm
    BY <1>10, <2>1, <2>2, RestBytes, ZenonT(30)
  <2>7. \A i \in 1..lm : SubSeq(w, k + 1, k + lm)[i] = w[k + i]
    BY <1>10, <2>1, <2>2, RestBytes, Zenon
  <2>8. r = m
    <3>1. /\ r \in Seq(Byte) /\ Len(r) = lm
          /\ \A i \in 1..lm : r[i] = m[i]
      BY <2>2, <2>4, <2>5, <2>6, <2>7, ZenonT(30)
    <3>2. QED
      BY <1>9, <3>1, SameElements, Zenon
  <2>9. QED
    BY <2>3, <2>4, <2>8, ZenonT(30)
<1>20. 1 \in 1..2 + nd /\ 2 \in 1..2 + nd
  BY <1>5, SMT
<1>21. w[1] = 1 /\ w[2] = c + 8
  BY <1>15, <1>18, <1>20, ZenonT(30)
<1>22. IF HasBit(c + 8, 32) THEN nd > 3 /\ nd = 4 + w[5] ELSE nd = 0
  <2>1. CASE HasBit(c, 32)
    <3>1. nd > 3 /\ nd = 4 + h[5]
      BY <1>5, <2>1, ZenonT(30)
    <3>2. 5 \in 3..2 + nd /\ 5 \in 1..2 + nd
      BY <1>5, <3>1, SMT
    <3>3. w[5] = h[5]
      BY <1>15, <1>18, <3>2, Zenon
    <3>4. QED
      BY <1>3, <2>1, <3>1, <3>3, Zenon
  <2>2. CASE ~HasBit(c, 32)
    BY <1>3, <1>5, <2>2, ZenonT(30)
  <2>3. QED
    BY <2>1, <2>2
<1>23. /\ 3 + lm \in Nat /\ 0 \in Nat /\ 3 + lm > 3
       /\ 5 + nd + lm = 2 + nd + (3 + lm) + 0
       /\ 2 + nd + 3 = 5 + nd
  BY <1>5, <1>10, SMT
<1>24. IsHeader(w, c + 8, nd, 3 + lm, 0, m)
  BY <1>4, <1>5, <1>18, <1>19, <1>21, <1>22, <1>23, Zenon DEF IsHeader
<1>25. Carries(w, m, 0)
  BY <1>3, <1>24, Zenon DEF Carries
<1>26. QED
  BY <1>5, <1>7, <1>11, <1>13, <1>16, <1>17, <1>18, <1>25, Zenon

\* The message types that a router sends, the last with a vendor identifier.
IsMessageType(t) == t \in {<<1>>, <<127>>, <<128, 0, 7>>}

\* The header after a router made it one of its own messages.
LEMMA MessageHeader ==
    ASSUME NEW h, NEW m, Carries(h, m, 0),
           NEW type, IsMessageType(type)
    PROVE  Carries(<<1, h[2] + 128>> \o Drop(h, 2) \o type, m, 128)
<1>1. PICK c, nd, ns, nm : IsHeader(h, c, nd, ns, nm, m) /\ IsControl(c, m, 0)
  BY Zenon DEF Carries
<1>2. /\ ~HasBit(c, 128) /\ c + 128 \in Byte /\ IsControl(c + 128, m, 128)
      /\ (HasBit(c + 128, 32) <=> HasBit(c, 32))
      /\ (HasBit(c, 8) <=> m # <<>>)
  <2>1. 0 \in {0, 128}
    BY Zenon
  <2>2. /\ HasBit(c, 8) <=> m # <<>>
        /\ HasBit(c, 128) <=> 0 # 0
        /\ 0 = 0 => /\ c + 128 \in Byte /\ IsControl(c + 128, m, 128)
                    /\ HasBit(c + 128, 32) <=> HasBit(c, 32)
    BY <1>1, <2>1, ControlBits, Zenon
  <2>3. QED
    BY <2>2, SMT
<1>3. HasBit(c + 128, 128) /\ (HasBit(c + 128, 8) <=> m # <<>>)
  <2>1. 128 \in {0, 128} /\ 128 # 0
    BY SMT
  <2>2. PICK e, l : e = c + 128 /\ l = 128
    OBVIOUS
  <2>3. IsControl(e, m, l) /\ l \in {0, 128} /\ l # 0
    BY <1>2, <2>1, <2>2, Zenon
  <2>4. (HasBit(e, 8) <=> m # <<>>) /\ HasBit(e, 128)
    <3>1. PICK k \in {0, 8}, b \in {0, 32, 39} :
            k = (IF m = <<>> THEN 0 ELSE 8) /\ e = b + k + l
      BY <2>3, Zenon DEF IsControl
    <3>2. QED
      BY <2>3, <3>1, SMT DEF HasBit
  <2>5. QED
    BY <2>2, <2>4, Zenon
<1>4. /\ h \in Seq(Byte) /\ nd \in Nat /\ ns \in Nat
      /\ Len(h) = 2 + nd + ns + nm /\ h[2] = c /\ nm = 0
      /\ HasBit(c, 32) => nd > 3 /\ nd = 4 + h[5]
      /\ ~HasBit(c, 32) => nd = 0
      /\ HasBit(c, 8) => /\ ns > 3 /\ ns = 3 + h[2 + nd + 3]
                         /\ m = SubSeq(h, 2 + nd + 4, 2 + nd + ns)
      /\ ~HasBit(c, 8) => ns = 0 /\ m = <<>>
  <2>1. ~HasBit(c, 128)
    BY <1>2, Zenon
  <2>2. IsHeader(h, c, nd, ns, nm, m)
    BY <1>1, Zenon
  <2>3. QED
    BY <2>1, <2>2, Zenon DEF IsHeader
<1>5. Len(h) = 2 + nd + ns /\ Len(h) >= 2 /\ Len(h) \in Nat
  BY <1>4, SMT
<1>6. PICK g : g = <<1, c + 128>> \o Drop(h, 2)
  BY Zenon
<1>7. Rewritten(h, c + 128, g)
  BY <1>2, <1>4, <1>5, <1>6, Rehead, Zenon
<1>8. /\ g \in Seq(Byte) /\ Len(g) = Len(h) /\ g[1] = 1 /\ g[2] = c + 128
      /\ \A i \in 3..Len(h) : g[i] = h[i]
  BY <1>7, Zenon DEF Rewritten
<1>9. /\ type \in Seq(Byte)
      /\ \/ Len(type) = 1 /\ type[1] < 128
         \/ Len(type) = 3 /\ ~(type[1] < 128)
  <2>1. CASE type = <<1>>
    BY <2>1, SMT DEF Byte
  <2>2. CASE type = <<127>>
    BY <2>2, SMT DEF Byte
  <2>3. CASE type = <<128, 0, 7>>
    BY <2>3, SMT DEF Byte
  <2>4. QED
    BY <2>1, <2>2, <2>3, Zenon DEF IsMessageType
<1>10. PICK lt \in {1, 3} : lt = Len(type)
  BY <1>9
<1>11. PICK w \in Seq(Byte) : /\ w = g \o type /\ Len(w) = Len(h) + lt
                              /\ w[1] = 1 /\ w[2] = c + 128
                              /\ \A i \in 3..Len(h) : w[i] = h[i]
                              /\ w[Len(h) + 1] = type[1]
  <2>1. /\ g \o type \in Seq(Byte) /\ Len(g \o type) = Len(g) + Len(type)
        /\ \A i \in 1..Len(g) : (g \o type)[i] = g[i]
        /\ \A i \in 1..Len(type) : (g \o type)[Len(g) + i] = type[i]
    BY <1>8, <1>9, Appended, Zenon
  <2>2. 1 \in 1..Len(h) /\ 2 \in 1..Len(h) /\ \A i \in 3..Len(h) : i \in 1..Len(h)
    BY <1>5, SMT
  <2>3. 1 \in 1..Len(type)
    BY <1>9, SMT
  <2>4. (g \o type)[Len(h) + 1] = type[1]
    BY <1>8, <2>1, <2>3, Zenon
  <2>5. \A i \in 3..Len(h) : (g \o type)[i] = h[i]
    BY <1>8, <2>1, <2>2, Zenon
  <2>6. QED
    BY <1>8, <1>10, <2>1, <2>2, <2>4, <2>5, Zenon
<1>12. HasBit(c, 32) => nd > 3 /\ nd = 4 + w[5]
  <2>1. SUFFICES ASSUME HasBit(c, 32)
                 PROVE  nd > 3 /\ nd = 4 + w[5]
    OBVIOUS
  <2>2. nd > 3 /\ nd = 4 + h[5]
    BY <1>4, <2>1, Zenon
  <2>3. 5 \in 3..Len(h)
    BY <1>4, <1>5, <2>2, SMT
  <2>4. QED
    BY <1>11, <2>2, <2>3, Zenon
<1>13. HasBit(c, 8) => /\ ns > 3 /\ ns = 3 + w[2 + nd + 3]
                       /\ m = SubSeq(w, 2 + nd + 4, 2 + nd + ns)
  <2>1. SUFFICES ASSUME HasBit(c, 8)
                 PROVE  /\ ns > 3 /\ ns = 3 + w[2 + nd + 3]
                        /\ m = SubSeq(w, 2 + nd + 4, 2 + nd + ns)
    OBVIOUS
  <2>2. /\ ns > 3 /\ ns = 3 + h[2 + nd + 3]
        /\ m = SubSeq(h, 2 + nd + 4, 2 + nd + ns)
    BY <1>4, <2>1, Zenon
  <2>3. 2 + nd + 3 \in 3..Len(h)
    BY <1>4, <1>5, <2>2, SMTT(20)
  <2>4. PICK k \in Nat, l \in Nat : k = 2 + nd + 4 /\ l = 2 + nd + ns
    BY <1>4, SMT
  <2>5. k >= 3 /\ l <= Len(h) /\ l <= Len(w)
    <3>1. l = Len(h) /\ Len(w) = Len(h) + lt /\ lt \in {1, 3}
      BY <1>5, <1>11, <2>4, Zenon
    <3>2. QED
      BY <1>4, <1>5, <2>4, <3>1, SMT
  <2>6. SubSeq(w, k, l) = SubSeq(h, k, l)
    <3>1. h \in Seq(Byte) /\ \A i \in 3..Len(h) : w[i] = h[i]
      BY <1>4, <1>11, Zenon
    <3>2. QED
      BY <2>5, <3>1, SMT
  <2>7. QED
    BY <1>11, <2>2, <2>3, <2>4, <2>6, Zenon
<1>14. \/ lt = 1 /\ w[2 + nd + ns + 1] < 128
       \/ lt = 3 /\ ~(w[2 + nd + ns + 1] < 128)
  BY <1>5, <1>9, <1>10, <1>11, Zenon
<1>15. lt \in Nat /\ Len(w) = 2 + nd + ns + lt
  <2>1. 1 \in Nat /\ 3 \in Nat
    BY SMT
  <2>2. QED
    BY <1>5, <1>10, <1>11, <2>1, Zenon
<1>16. IsHeader(w, c + 128, nd, ns, lt, m)
  <2>1. PICK e : e = c + 128
    OBVIOUS
  <2>2. /\ w \in Seq(Byte) /\ nd \in Nat /\ ns \in Nat /\ lt \in Nat
        /\ Len(w) = 2 + nd + ns + lt /\ w[1] = 1 /\ w[2] = e
    BY <1>4, <1>11, <1>15, <2>1, Zenon
  <2>3. IF HasBit(e, 32) THEN nd > 3 /\ nd = 4 + w[5] ELSE nd = 0
    BY <1>2, <1>4, <1>12, <2>1, Zenon
  <2>4. IF HasBit(e, 8)
        THEN /\ ns > 3 /\ ns = 3 + w[2 + nd + 3]
             /\ m = SubSeq(w, 2 + nd + 4, 2 + nd + ns)
        ELSE ns = 0 /\ m = <<>>
    <3>1. HasBit(e, 8) <=> HasBit(c, 8)
      BY <1>2, <1>3, <2>1, Zenon
    <3>2. ~HasBit(c, 8) => ns = 0 /\ m = <<>>
      BY <1>4, Zenon
    <3>3. QED
      BY <1>13, <3>1, <3>2, Zenon
  <2>5. IF HasBit(e, 128)
        THEN \/ lt = 1 /\ w[2 + nd + ns + 1] < 128
             \/ lt = 3 /\ ~(w[2 + nd + ns + 1] < 128)
        ELSE lt = 0
    BY <1>3, <1>14, <2>1, Zenon
  <2>6. IsHeader(w, e, nd, ns, lt, m)
    BY <2>2, <2>3, <2>4, <2>5, Zenon DEF IsHeader
  <2>7. QED
    BY <2>1, <2>6, Zenon
<1>17. Carries(w, m, 128)
  BY <1>2, <1>16, Zenon DEF Carries
<1>18. QED
  BY <1>4, <1>6, <1>11, <1>17, Zenon

\* The parameters of an I-Am are a byte sequence.
LEMMA EncodeIAmBytes ==
    ASSUME NEW d, IsDevice(d)
    PROVE  EncodeIAm(d) \in Seq(Byte)
<1>1. PICK a, b, c, e : IAmParts(d, a, b, c, e)
  BY Zenon DEF IAmParts
<1>2. /\ a \in Seq(Byte) /\ b \in Seq(Byte) /\ c \in Seq(Byte)
      /\ e \in Seq(Byte)
  BY <1>1, EncodeIAmParts, SMT
<1>3. EncodeIAm(d) = ((a \o b) \o c) \o e
  BY <1>1, Zenon DEF EncodeIAm, IAmParts
<1>4. PICK u \in Seq(Byte) : u = a \o b
  BY <1>2, Appended, Zenon
<1>5. PICK v \in Seq(Byte) : v = u \o c
  BY <1>2, Appended, Zenon
<1>6. v \o e \in Seq(Byte)
  BY <1>2, Appended
<1>7. QED
  BY <1>3, <1>4, <1>5, <1>6, Zenon

\* What devices send, an I-Am included, fits its bytes.
LEMMA SentIsSendable ==
    ASSUME NEW p, Sent(p)
    PROVE  /\ Sendable(p)
           /\ \/ p \in PDUs /\ IsPDU(p)
              \/ \E d \in Devices : IsDevice(d) /\ p = IAm(d)
<1>1. CASE p \in PDUs
  <2>1. IsPDU(p)
    BY <1>1, DeliveryAssumption, Zenon
  <2>2. Sendable(p)
    BY <2>1, Zenon DEF IsPDU, Sendable, Byte
  <2>3. QED
    BY <1>1, <2>1, <2>2
<1>2. ASSUME NEW d \in Devices, p = IAm(d)
      PROVE  Sendable(p) /\ IsDevice(d)
  <2>1. IsDevice(d)
    BY DeliveryAssumption, Zenon
  <2>2. EncodeIAm(d) \in Seq(Byte)
    BY <2>1, EncodeIAmBytes, Zenon
  <2>3. /\ p.type = UnconfirmedRequest /\ p.invokeID = 0
        /\ p.service = ServiceIAm /\ p.data = EncodeIAm(d)
    BY <1>2, SMT DEF IAm
  <2>4. /\ UnconfirmedRequest \in {16 * k : k \in 0..15} /\ 0 \in Byte
        /\ ServiceIAm \in Byte
        /\ UnconfirmedRequest \notin {SimpleAck, RejectPDU, AbortPDU}
    BY SMT DEF UnconfirmedRequest, ServiceIAm, Byte, SimpleAck, RejectPDU,
       AbortPDU
  <2>5. Sendable(p)
    BY <2>2, <2>3, <2>4, Zenon DEF Sendable
  <2>6. QED
    BY <2>1, <2>5
<1>3. QED
  BY <1>1, <1>2, Zenon DEF Sent

\* encodeBVLC writes four bytes, the second of which is the function.
LEMMA BVLCBytes ==
    ASSUME NEW f \in Byte, NEW n \in Int, NEW e, e = EncodeBVLC(f, n)
    PROVE  e \in Seq(Byte) /\ Len(e) = 4 /\ e[2] = f
<1>1. PICK p, q : p = <<129, f>> /\ q = PutUint16(4 + n)
  BY Zenon
<1>2. p \in Seq(Byte) /\ Len(p) = 2 /\ p[2] = f
  BY <1>1, SMT DEF Byte
<1>3. q \in Seq(Byte) /\ Len(q) = 2
  <2>1. 4 + n \in Int
    BY SMT
  <2>2. QED
    BY <1>1, <2>1, PutBytes, Zenon
<1>4. /\ p \o q \in Seq(Byte) /\ Len(p \o q) = Len(p) + Len(q)
      /\ \A i \in 1..Len(p) : (p \o q)[i] = p[i]
  BY <1>2, <1>3, Appended, Zenon
<1>5. 2 \in 1..Len(p) /\ Len(p) + Len(q) = 4
  BY <1>2, <1>3, SMT
<1>6. e = p \o q
  BY <1>1, Zenon DEF EncodeBVLC
<1>7. (p \o q)[2] = f
  BY <1>2, <1>4, <1>5, Zenon
<1>8. QED
  BY <1>4, <1>5, <1>6, <1>7, Zenon

\* A datagram is a link header and what routers and the device wrote.
LEMMA DatagramParts ==
    ASSUME npdu \o Encode(pdu) \in Seq(Byte), forwarded \in BOOLEAN
    PROVE  \E h : IsLink(h) /\ Datagram = h \o (npdu \o Encode(pdu))
<1>1. PICK body \in Seq(Byte) : body = npdu \o Encode(pdu)
  BY Zenon
<1>2. CASE ~forwarded
  <2>1. PICK e : e = EncodeBVLC(BVLCOriginalUnicastNPDU, Len(body))
    OBVIOUS
  <2>2. /\ BVLCOriginalUnicastNPDU \in Byte /\ Len(body) \in Int
        /\ ~(BVLCOriginalUnicastNPDU = BVLCForwardedNPDU)
    BY SMT DEF BVLCOriginalUnicastNPDU, BVLCForwardedNPDU, Byte
  <2>3. e \in Seq(Byte) /\ Len(e) = 4 /\ e[2] = BVLCOriginalUnicastNPDU
    BY <2>1, <2>2, BVLCBytes
  <2>4. IsLink(e)
    BY <2>2, <2>3, Zenon DEF IsLink
  <2>5. Datagram = e \o body
    BY <1>1, <1>2, <2>1, SMTT(20), SMTT(20) DEF Datagram
  <2>6. QED
    BY <1>1, <2>4, <2>5, Zenon
<1>3. CASE forwarded
  <2>1. PICK n \in Int : n = 6 + Len(body)
    BY SMT
  <2>2. PICK e : e = EncodeBVLC(BVLCForwardedNPDU, n)
    OBVIOUS
  <2>3. BVLCForwardedNPDU \in Byte
    BY SMT DEF BVLCForwardedNPDU, Byte
  <2>4. e \in Seq(Byte) /\ Len(e) = 4 /\ e[2] = BVLCForwardedNPDU
    BY <2>2, <2>3, BVLCBytes
  <2>5. PICK q : q = PutUint16(47808)
    BY SMT
  <2>6. q \in Seq(Byte) /\ Len(q) = 2
    BY <2>5, PutBytes, SMT
  <2>7. OriginIP \in Seq(Byte) /\ Len(OriginIP) = 4
    BY DeliveryAssumption, Zenon DEF Byte
  <2>8. PICK u \in Seq(Byte) : /\ u = e \o OriginIP /\ Len(u) = 8
                               /\ u[2] = BVLCForwardedNPDU
    <3>1. /\ e \o OriginIP \in Seq(Byte)
          /\ Len(e \o OriginIP) = Len(e) + Len(OriginIP)
          /\ \A i \in 1..Len(e) : (e \o OriginIP)[i] = e[i]
      BY <2>4, <2>7, Appended, Zenon
    <3>2. 2 \in 1..Len(e) /\ Len(e) + Len(OriginIP) = 8
      BY <2>4, <2>7, SMT
    <3>3. QED
      BY <2>4, <3>1, <3>2, Zenon
  <2>9. PICK h \in Seq(Byte) : /\ h = u \o q /\ Len(h) = 10
                               /\ h[2] = BVLCForwardedNPDU
    <3>1. /\ u \o q \in Seq(Byte) /\ Len(u \o q) = Len(u) + Len(q)
          /\ \A i \in 1..Len(u) : (u \o q)[i] = u[i]
      BY <2>6, <2>8, Appended, ZenonT(30)
    <3>2. 2 \in 1..Len(u) /\ Len(u) + Len(q) = 10
      BY <2>6, <2>8, SMT
    <3>3. QED
      BY <2>8, <3>1, <3>2, Zenon
  <2>10. IsLink(h)
    BY <2>9, Zenon DEF IsLink
  <2>11. Datagram = EncodeBVLC(BVLCForwardedNPDU, n) \o OriginIP
                        \o PutUint16(47808) \o body
    BY <1>1, <1>3, <2>1, SMTT(20), SMTT(20) DEF Datagram
  <2>12. Datagram = h \o body
    BY <2>2, <2>5, <2>8, <2>9, <2>11, SMT
  <2>13. QED
    BY <1>1, <2>10, <2>12, Zenon
<1>4. QED
  BY <1>2, <1>3, Zenon

\* What handlePacket made of a received datagram whose header has at most one
\* specifier: it dropped a cut one, a network message or a PDU of an unknown type,
\* or handed over the PDU that was sent, with its data up to the cut.
LEMMA Delivered ==
    ASSUME DeliveryInv, stage = "received", ~BothSpecifiers
    PROVE  \/ /\ handled = Dropped
              /\ lost # 0 \/ message \/ ~KnownType(pdu.type)
           \/ /\ ~message /\ lost \in Nat
              /\ HandsOver(handled, pdu, Len(pdu.data) - lost,
                           IF mac # <<>> THEN mac ELSE Sender)
<1>1. /\ message \in BOOLEAN /\ forwarded \in BOOLEAN
      /\ Sent(pdu) /\ Carries(npdu, mac, MessageBit)
      /\ lost = 0 \/ lost \in 1..Len(Datagram)
      /\ handled = HandlePacket(Received, Sender)
  BY Zenon DEF DeliveryInv, Legible
<1>2. PICK c, nd, ns, nm : /\ IsHeader(npdu, c, nd, ns, nm, mac)
                           /\ IsControl(c, mac, MessageBit)
  BY <1>1, Zenon DEF Carries
<1>3. (HasBit(c, 8) <=> mac # <<>>) /\ (HasBit(c, 128) <=> message)
  <2>1. MessageBit \in {0, 128} /\ (MessageBit # 0 <=> message)
    BY <1>1, SMT DEF MessageBit
  <2>2. PICK l, m : l = MessageBit /\ m = mac
    OBVIOUS
  <2>3. l \in {0, 128} /\ IsControl(c, m, l)
    BY <1>2, <2>1, <2>2, Zenon
  <2>4. (HasBit(c, 8) <=> m # <<>>) /\ (HasBit(c, 128) <=> l # 0)
    <3>1. PICK k \in {0, 8}, b \in {0, 32, 39} :
            k = (IF m = <<>> THEN 0 ELSE 8) /\ c = b + k + l
      BY <2>3, Zenon DEF IsControl
    <3>2. QED
      BY <2>3, <3>1, SMTT(20) DEF HasBit
  <2>5. QED
    BY <2>1, <2>2, <2>4, Zenon
<1>4. Sendable(pdu)
  BY <1>1, SentIsSendable, Zenon
<1>5. PICK g : IsHead(g, pdu) /\ Encode(pdu) = g \o pdu.data
  BY <1>4, EncodeHead, Zenon
<1>6. g \in Seq(Byte) /\ pdu.data \in Seq(Byte) /\ npdu \in Seq(Byte)
  BY <1>2, <1>4, <1>5, Zenon DEF IsHead, Sendable, IsHeader
<1>7. PICK a \in Seq(Byte) : /\ a = g \o pdu.data
                             /\ Len(a) = Len(g) + Len(pdu.data)
  BY <1>6, Appended, Zenon
<1>8. PICK b \in Seq(Byte) : b = npdu \o a /\ Len(b) = Len(npdu) + Len(a)
  BY <1>6, Appended, Zenon
<1>9. PICK h : IsLink(h) /\ Datagram = h \o b
  BY <1>1, <1>5, <1>7, <1>8, DatagramParts, Zenon
<1>10. h \in Seq(Byte)
  BY <1>9, Zenon DEF IsLink
<1>11. PICK w \in Seq(Byte) : w = h \o b /\ Len(w) = Len(h) + Len(b)
  BY <1>10, Appended, Zenon
<1>12. PICK lh \in Nat, ln \in Nat, lg \in Nat, ld \in Nat :
         /\ lh = Len(h) /\ ln = Len(npdu) /\ lg = Len(g)
         /\ ld = Len(pdu.data)
  BY <1>6, <1>10
<1>13. Len(w) = lh + ln + lg + ld
  <2>1. Len(w) = lh + (ln + (lg + ld))
    BY <1>7, <1>8, <1>11, <1>12, Zenon
  <2>2. lh + (ln + (lg + ld)) = lh + ln + lg + ld
    BY SMT
  <2>3. QED
    BY <2>1, <2>2, Zenon
<1>14. PICK k \in 0..Len(w) : k = Len(Datagram) - lost
  <2>1. Len(Datagram) = Len(w) /\ Len(w) \in Nat
    BY <1>9, <1>11
  <2>2. Len(Datagram) - lost \in 0..Len(w)
    BY <1>1, <2>1, SMTT(20)
  <2>3. QED
    BY <2>2
<1>15. lost \in Nat /\ k = lh + ln + lg + ld - lost
  <2>1. Len(Datagram) = Len(w) /\ Len(w) \in Nat
    BY <1>9, <1>11
  <2>2. lost \in Nat
    BY <1>1, <2>1, SMT
  <2>3. QED
    BY <1>13, <1>14, <2>1, <2>2, SMTT(20)
<1>16. PICK x : x = SubSeq(w, 1, k)
  BY Zenon
<1>17. Begins(x, w) /\ Len(x) = k
  BY <1>16, CutBegins
<1>18. Received = x
  BY <1>9, <1>11, <1>14, <1>16, Zenon DEF Received
<1>19. /\ Len(x) < Len(h) => handled = Dropped
       /\ Len(x) >= Len(h) => handled = HandleNPDU(Drop(x, Len(h)), Sender)
  <2>1. Begins(x, h \o b)
    BY <1>11, <1>17, Zenon
  <2>2. /\ Len(x) < Len(h) => HandlePacket(x, Sender) = Dropped
        /\ Len(x) >= Len(h)
             => HandlePacket(x, Sender) = HandleNPDU(Drop(x, Len(h)), Sender)
    BY <1>9, <2>1, LinkRead, ZenonT(30)
  <2>3. QED
    BY <1>1, <1>18, <2>2, Zenon
<1>20. CASE Len(x) < Len(h)
  <2>1. k < lh /\ k = lh + ln + lg + ld - lost
    BY <1>12, <1>15, <1>17, <1>20, Zenon
  <2>2. lost # 0
    BY <1>15, <2>1, SMTT(20)
  <2>3. QED
    BY <1>19, <1>20, <2>2, Zenon
<1>21. CASE Len(x) >= Len(h)
  <2>1. PICK y : y = Drop(x, Len(h))
    OBVIOUS
  <2>2. Begins(y, b) /\ Len(y) = Len(x) - Len(h)
    <3>1. Begins(x, h \o b)
      BY <1>11, <1>17, Zenon
    <3>2. QED
      BY <1>10, <1>21, <2>1, <3>1, BeginsAfter, Zenon
  <2>3. Begins(y, npdu \o (g \o pdu.data))
    BY <1>7, <1>8, <2>2, Zenon
  <2>4. /\ Len(y) < Len(npdu) + Len(g) \/ HasBit(c, 128)
             \/ ~KnownType(pdu.type)
             => HandleNPDU(y, Sender) = Dropped
        /\ Len(y) >= Len(npdu) + Len(g) /\ ~HasBit(c, 128)
             /\ KnownType(pdu.type)
             => HandsOver(HandleNPDU(y, Sender), pdu,
                          Len(y) - Len(npdu) - Len(g),
                          IF HasBit(c, 8) THEN mac ELSE Sender)
    BY <1>2, <1>4, <1>5, <2>3, NPDUHandled, Zenon
  <2>5. handled = HandleNPDU(y, Sender)
    BY <1>19, <1>21, <2>1, Zenon
  <2>6. PICK j \in Int : j = Len(y) /\ j = ln + lg + ld - lost
    <3>1. Len(y) = k - lh /\ k = lh + ln + lg + ld - lost
      BY <1>12, <1>15, <1>17, <2>2, Zenon
    <3>2. lost \in Nat
      BY <1>15
    <3>3. k - lh = ln + lg + ld - lost /\ k - lh \in Int
      BY <3>1, <3>2, SMT
    <3>4. QED
      BY <3>1, <3>3, Zenon
  <2>7. CASE \/ Len(y) < Len(npdu) + Len(g) \/ HasBit(c, 128)
             \/ ~KnownType(pdu.type)
    <3>1. Len(y) < Len(npdu) + Len(g) => lost # 0
      <4>1. j < ln + lg => lost # 0
        BY <1>15, <2>6, SMT
      <4>2. QED
        BY <1>12, <2>6, <4>1, Zenon
    <3>2. QED
      BY <1>3, <2>4, <2>5, <2>7, <3>1, Zenon
  <2>8. CASE ~(\/ Len(y) < Len(npdu) + Len(g) \/ HasBit(c, 128)
               \/ ~KnownType(pdu.type))
    <3>1. Len(y) >= Len(npdu) + Len(g)
      <4>1. ~(j < ln + lg)
        BY <1>12, <2>6, <2>8, Zenon
      <4>2. j >= ln + lg
        BY <2>6, <4>1, SMT
      <4>3. QED
        BY <1>12, <2>6, <4>2, Zenon
    <3>2. Len(y) - Len(npdu) - Len(g) = Len(pdu.data) - lost
      <4>1. j - ln - lg = ld - lost
        BY <1>15, <2>6, SMT
      <4>2. QED
        BY <1>12, <2>6, <4>1, Zenon
    <3>3. HandsOver(handled, pdu, Len(pdu.data) - lost,
                    IF mac # <<>> THEN mac ELSE Sender)
      BY <1>3, <2>4, <2>5, <2>8, <3>1, <3>2, Zenon
    <3>4. QED
      BY <1>3, <1>15, <2>8, <3>3, Zenon
  <2>9. QED
    BY <2>7, <2>8
<1>22. QED
  BY <1>12, <1>17, <1>20, <1>21, SMTT(20)

-----------------------------------------------------------------------------
(***************************************************************************)
(* The invariant is inductive, and what follows from it.                   *)
(***************************************************************************)

\* The invariant while the datagram is on its way, when nothing is received yet.
LEMMA OnTheWire ==
    ASSUME stage' = "wire", message' \in BOOLEAN, forwarded' \in BOOLEAN,
           Sent(pdu'), BothSpecifiers' \/ Carries(npdu', mac', MessageBit'),
           lost' = 0 \/ lost' \in 1..Len(Datagram')
    PROVE  DeliveryInv'
<1>1. Sent(pdu)' /\ Legible'
  <2>1. Sent(pdu)'
    BY Zenon DEF Sent
  <2>2. Legible'
    <3>1. CASE BothSpecifiers'
      BY <3>1, Zenon DEF Legible
    <3>2. CASE Carries(npdu', mac', MessageBit')
      BY <3>2, Zenon DEF Legible, Carries, IsHeader, IsControl
    <3>3. QED
      BY <3>1, <3>2
  <2>3. QED
    BY <2>1, <2>2
<1>2. (lost = 0 \/ lost \in 1..Len(Datagram))'
  OBVIOUS
<1>3. (stage # "idle")' /\ (stage # "received")' /\ (message \in BOOLEAN)'
      /\ (forwarded \in BOOLEAN)'
  OBVIOUS
<1>4. QED
  BY <1>1, <1>2, <1>3, Zenon DEF DeliveryInv

\* What a device sends out, with a header that names no address yet.
LEMMA EmitKept ==
    ASSUME DeliveryInv, NEW p, NEW h, NEW d, Sent(p), Carries(h, <<>>, 0),
           Emit(p, h, d)
    PROVE  DeliveryInv'
<1>1. /\ stage = "idle" /\ stage' = "wire" /\ pdu' = p /\ npdu' = h
      /\ mac' = mac /\ message' = message /\ forwarded' = forwarded
      /\ lost' = lost
  BY Zenon DEF Emit
<1>2. mac' = <<>> /\ message' = FALSE /\ forwarded' = FALSE /\ lost' = 0
  BY <1>1, Zenon DEF DeliveryInv
<1>3. MessageBit' = 0
  BY <1>2, Zenon DEF MessageBit
<1>4. Carries(npdu', mac', MessageBit') /\ Sent(pdu')
  BY <1>1, <1>2, <1>3, Zenon
<1>5. QED
  BY <1>1, <1>2, <1>4, OnTheWire, Zenon

\* A header with at most one specifier is what routers made of one that a device
\* sent, and what was received was handled by handlePacket: the invariant of
\* Delivery is inductive.
LEMMA DeliveryInductive ==
    ASSUME DeliveryInv, [DeliveryNext]_deliveryVars
    PROVE  DeliveryInv'
<1>1. CASE Unicast
  <2>1. PICK p \in PDUs : Emit(p, EncodeNPDU(FALSE, 0), FALSE)
    BY <1>1, Zenon DEF Unicast
  <2>2. Sent(p)
    BY Zenon DEF Sent
  <2>3. QED
    BY <2>1, <2>2, PlainHeader, EmitKept, Zenon
<1>2. CASE Broadcast
  <2>1. PICK net \in Int : net = 65535
    BY SMT
  <2>2. Broadcast <=> \E d \in Devices :
          Emit(IAm(d), EncodeNPDUWithDest(net, <<>>, 255, FALSE, 0), TRUE)
    BY <2>1, SMT DEF Broadcast, Emit
  <2>3. PICK d \in Devices :
          Emit(IAm(d), EncodeNPDUWithDest(net, <<>>, 255, FALSE, 0), TRUE)
    BY <1>2, <2>2, Zenon
  <2>4. PICK h : h = EncodeNPDUWithDest(net, <<>>, 255, FALSE, 0)
    BY Zenon
  <2>5. PICK a \in Seq(Byte) : a = <<>> /\ Len(a) \in 0..255
    <3>1. <<>> \in Seq(Byte) /\ Len(<<>>) \in 0..255
      BY SMT
    <3>2. QED
      BY <3>1, Zenon
  <2>6. HasDest(h, 32, net, a)
    BY <2>4, <2>5, SMT DEF EncodeNPDUWithDest, HasDest
  <2>7. 32 \in Byte /\ HasBit(32, 32) /\ IsControl(32, <<>>, 0)
    BY SMT DEF Byte, HasBit, IsControl
  <2>8. Carries(h, <<>>, 0)
    BY <2>5, <2>6, <2>7, DestHeader, Zenon
  <2>9. Sent(IAm(d))
    BY Zenon DEF Sent
  <2>10. QED
    BY <2>3, <2>4, <2>8, <2>9, EmitKept, Zenon
<1>3. CASE ToStation
  <2>1. PICK p \in PDUs, m \in MACs :
          Emit(p, EncodeNPDUWithDest(7, m, 255, TRUE, 3), TRUE)
    BY <1>3, Zenon DEF ToStation
  <2>2. PICK h : h = EncodeNPDUWithDest(7, m, 255, TRUE, 3)
    BY ZenonT(30)
  <2>3. m \in Seq(Byte) /\ Len(m) \in 0..255
    BY DeliveryAssumption, SMT DEF Byte
  <2>4. HasDest(h, 39, 7, m)
    BY <2>2, SMT DEF EncodeNPDUWithDest, HasDest
  <2>5. 39 \in Byte /\ 7 \in Int /\ HasBit(39, 32) /\ IsControl(39, <<>>, 0)
    BY SMT DEF Byte, HasBit, IsControl
  <2>6. Carries(h, <<>>, 0)
    BY <2>3, <2>4, <2>5, DestHeader, Zenon
  <2>7. Sent(p)
    BY Zenon DEF Sent
  <2>8. QED
    BY <2>1, <2>2, <2>6, <2>7, EmitKept, Zenon
<1>4. CASE Route
  <2>1. PICK m \in MACs :
          /\ mac' = m
          /\ ~dest => npdu' = <<1, npdu[2] + 8>> \o Drop(npdu, 2)
                                  \o PutUint16(5) \o <<Len(m)>> \o m
    BY <1>4, Zenon DEF Route
  <2>2. /\ stage = "wire" /\ mac = <<>> /\ ~message /\ lost = 0
        /\ stage' = stage /\ pdu' = pdu /\ dest' = dest /\ message' = message
        /\ forwarded' = forwarded /\ lost' = lost
    BY <1>4, Zenon DEF Route
  <2>3. /\ Sent(pdu) /\ Carries(npdu, mac, MessageBit)
        /\ message \in BOOLEAN /\ forwarded \in BOOLEAN
    BY <2>2, Zenon DEF DeliveryInv, Legible, BothSpecifiers
  <2>4. MessageBit = 0 /\ MessageBit' = 0
    BY <2>2, <2>3, ZenonT(30) DEF MessageBit
  <2>5. m \in Seq(Byte) /\ Len(m) \in 1..255
    BY DeliveryAssumption, SMT DEF Byte
  <2>6. Carries(npdu, <<>>, 0)
    BY <2>2, <2>3, <2>4, Zenon
  <2>7. CASE dest
    <3>1. mac' # <<>>
      <4>1. 0 \notin 1..255 /\ Len(<<>>) = 0
        BY SMTT(20)
      <4>2. QED
        BY <2>1, <2>5, <4>1, Zenon
    <3>2. BothSpecifiers'
      BY <2>2, <2>7, <3>1, Zenon DEF BothSpecifiers
    <3>3. QED
      BY <2>2, <2>3, <3>2, OnTheWire, Zenon
  <2>8. CASE ~dest
    <3>1. Carries(npdu', m, 0)
      BY <2>1, <2>5, <2>6, <2>8, RoutedHeader, Zenon
    <3>2. Carries(npdu', mac', MessageBit') /\ Sent(pdu')
      BY <2>1, <2>2, <2>3, <2>4, <3>1, Zenon
    <3>3. QED
      BY <2>2, <2>3, <3>2, OnTheWire, Zenon
  <2>9. QED
    BY <2>7, <2>8
<1>5. CASE NetworkMessage
  <2>1. PICK type \in {<<1>>, <<127>>, <<128, 0, 7>>} :
          npdu' = <<1, npdu[2] + 128>> \o Drop(npdu, 2) \o type
    BY <1>5, Zenon DEF NetworkMessage
  <2>2. /\ stage = "wire" /\ ~message /\ lost = 0 /\ stage' = stage /\ mac' = mac
        /\ pdu' = pdu /\ dest' = dest /\ message' = TRUE /\ forwarded' = forwarded
        /\ lost' = lost
    BY <1>5, Zenon DEF NetworkMessage
  <2>3. /\ Sent(pdu) /\ Legible
        /\ message \in BOOLEAN /\ forwarded \in BOOLEAN
    BY <2>2, Zenon DEF DeliveryInv
  <2>4. MessageBit = 0 /\ MessageBit' = 128
    BY <2>2, <2>3, Zenon DEF MessageBit
  <2>5. CASE BothSpecifiers
    <3>1. BothSpecifiers'
      BY <2>2, <2>5, Zenon DEF BothSpecifiers
    <3>2. QED
      BY <2>2, <2>3, <3>1, OnTheWire, Zenon
  <2>6. CASE ~BothSpecifiers
    <3>1. Carries(npdu, mac, 0)
      BY <2>3, <2>4, <2>6, Zenon DEF Legible
    <3>2. IsMessageType(type)
      BY Zenon DEF IsMessageType
    <3>3. PICK t : t = type /\ IsMessageType(t)
      BY <3>2
    <3>4. Carries(<<1, npdu[2] + 128>> \o Drop(npdu, 2) \o t, mac, 128)
      BY <3>1, <3>3, MessageHeader, Zenon
    <3>5. Carries(npdu', mac', MessageBit')
      BY <2>1, <2>2, <2>4, <3>3, <3>4, Zenon
    <3>6. QED
      BY <2>2, <2>3, <3>5, OnTheWire, Zenon
  <2>7. QED
    BY <2>5, <2>6
<1>6. CASE Forward
  <2>1. /\ stage = "wire" /\ lost = 0 /\ stage' = stage /\ mac' = mac
        /\ pdu' = pdu /\ dest' = dest /\ npdu' = npdu /\ message' = message
        /\ forwarded' = TRUE /\ lost' = lost
    BY <1>6, Zenon DEF Forward
  <2>2. /\ Sent(pdu) /\ Legible /\ message \in BOOLEAN
    BY <2>1, Zenon DEF DeliveryInv
  <2>3. MessageBit' = MessageBit
    BY <2>1, Zenon DEF MessageBit
  <2>4. (BothSpecifiers' \/ Carries(npdu', mac', MessageBit')) /\ Sent(pdu')
    BY <2>1, <2>2, <2>3, Zenon DEF Legible, BothSpecifiers
  <2>5. QED
    BY <2>1, <2>2, <2>4, OnTheWire, Zenon
<1>7. CASE CutDatagram
  <2>1. /\ stage = "wire" /\ lost' \in 1..Len(Datagram) /\ stage' = stage
        /\ mac' = mac /\ pdu' = pdu /\ dest' = dest /\ npdu' = npdu /\ message' = message
        /\ forwarded' = forwarded
    BY <1>7, Zenon DEF CutDatagram
  <2>2. /\ Sent(pdu) /\ Legible
        /\ message \in BOOLEAN /\ forwarded \in BOOLEAN
    BY <2>1, Zenon DEF DeliveryInv
  <2>3. MessageBit' = MessageBit
    BY <2>1, Zenon DEF MessageBit
  <2>4. Datagram' = Datagram
    BY <2>1, SMT DEF Datagram, Encode
  <2>5. (BothSpecifiers' \/ Carries(npdu', mac', MessageBit')) /\ Sent(pdu')
        /\ lost' \in 1..Len(Datagram')
    BY <2>1, <2>2, <2>3, <2>4, Zenon DEF Legible, BothSpecifiers
  <2>6. QED
    BY <2>1, <2>2, <2>5, OnTheWire, Zenon
<1>8. CASE ReceiveDatagram
  <2>1. /\ stage = "wire" /\ stage' = "received" /\ lost' = lost
        /\ mac' = mac /\ pdu' = pdu /\ npdu' = npdu /\ dest' = dest /\ message' = message
        /\ forwarded' = forwarded
        /\ handled' = HandlePacket(Received, Sender)
        /\ iam' = IF handled'.to = "handleIAm" THEN DecodeIAm(handled'.apdu.data)
                  ELSE IAmError
    BY <1>8, Zenon DEF ReceiveDatagram, Received, Sender
  <2>2. /\ Sent(pdu) /\ Legible
        /\ message \in BOOLEAN /\ forwarded \in BOOLEAN
        /\ lost = 0 \/ lost \in 1..Len(Datagram)
    BY <2>1, Zenon DEF DeliveryInv
  <2>3. MessageBit' = MessageBit /\ Sender' = Sender
        /\ BothSpecifiers' = BothSpecifiers
    BY <2>1, Zenon DEF MessageBit, Sender, BothSpecifiers
  <2>4. Datagram' = Datagram
    BY <2>1, SMT DEF Datagram, Encode
  <2>5. Received' = Received
    BY <2>1, <2>4, Zenon DEF Received
  <2>6. QED
    BY <2>1, <2>2, <2>3, <2>4, <2>5, ZenonT(30) DEF DeliveryInv, Legible
<1>9. CASE UNCHANGED deliveryVars
  <2>1. /\ stage' = stage /\ lost' = lost /\ mac' = mac /\ pdu' = pdu
        /\ npdu' = npdu /\ dest' = dest /\ message' = message /\ forwarded' = forwarded
        /\ handled' = handled /\ iam' = iam
    BY <1>9, Zenon DEF deliveryVars
  <2>2. MessageBit' = MessageBit /\ Sender' = Sender
        /\ BothSpecifiers' = BothSpecifiers
    BY <2>1, Zenon DEF MessageBit, Sender, BothSpecifiers
  <2>3. Datagram' = Datagram
    BY <2>1, SMT DEF Datagram, Encode
  <2>4. Received' = Received
    BY <2>1, <2>3, Zenon DEF Received
  <2>5. QED
    BY <2>1, <2>2, <2>3, <2>4, ZenonT(30) DEF DeliveryInv, Legible
<1>10. QED
  BY <1>1, <1>2, <1>3, <1>4, <1>5, <1>6, <1>7, <1>8, <1>9, Zenon DEF DeliveryNext

\* Every datagram of every behaviour has a header with both specifiers or one that
\* DecodeNPDU reads as it was built, and what was received is what handlePacket
\* makes of it.
THEOREM DeliveryInvariant == DeliverySpec => []DeliveryInv
<1>1. DeliveryInit => DeliveryInv
  BY Zenon DEF DeliveryInit, DeliveryInv
<1>2. DeliveryInv /\ [DeliveryNext]_deliveryVars => DeliveryInv'
  BY DeliveryInductive
<1>3. QED
  BY <1>1, <1>2, PTL DEF DeliverySpec

\* The handler of a PDU: handlePacket drops exactly the types it does not know.
LEMMA HandlerKnown ==
    ASSUME NEW p
    PROVE  Handler(p) = "dropped" <=> ~KnownType(p.type)
PROOF BY Zenon DEF Handler, KnownType

\* A whole datagram reaches the handler of its PDU with the invoke ID and the
\* service that the device wrote, when its header has at most one of the two
\* specifiers, forwarded by a BBMD or not, and a network message reaches none:
\* handlePacket, for every PDU, device and address.
THEOREM HandlerReachedCorrect == DeliverySpec => []HandlerReached
<1>1. ASSUME DeliveryInv PROVE HandlerReached
  <2>1. SUFFICES ASSUME stage = "received", lost = 0, ~BothSpecifiers
                 PROVE  IF message THEN handled.to = "dropped"
                        ELSE /\ handled.to = Handler(pdu)
                             /\ handled.to # "dropped" =>
                                    /\ handled.apdu.type = pdu.type
                                    /\ handled.apdu.invokeID = pdu.invokeID
                                    /\ handled.apdu.service = pdu.service
    BY Zenon DEF HandlerReached
  <2>2. CASE handled = Dropped /\ (message \/ ~KnownType(pdu.type))
    <3>1. handled.to = "dropped"
      BY <2>2, SMT DEF Dropped
    <3>2. QED
      BY <2>2, <3>1, HandlerKnown, Zenon
  <2>3. CASE /\ ~message
             /\ HandsOver(handled, pdu, Len(pdu.data) - lost,
                          IF mac # <<>> THEN mac ELSE Sender)
    BY <2>3, Zenon DEF HandsOver
  <2>4. QED
    BY <1>1, <2>1, <2>2, <2>3, Delivered, Zenon
<1>2. QED
  BY <1>1, DeliveryInvariant, PTL

\* Behind a header with at most one specifier, a handler gets the data that the
\* device wrote, or the beginning of it when the end was lost: no header byte is
\* taken for data, nor data for a header.
THEOREM DataIsPrefixCorrect == DeliverySpec => []DataIsPrefix
<1>1. ASSUME DeliveryInv PROVE DataIsPrefix
  <2>1. SUFFICES ASSUME stage = "received", handled.to # "dropped",
                        ~BothSpecifiers
                 PROVE  /\ ~message
                        /\ handled.apdu.service = pdu.service
                        /\ \E n \in 0..Len(pdu.data) :
                              handled.apdu.data = SubSeq(pdu.data, 1, n)
                        /\ lost = 0 => handled.apdu.data = pdu.data
    BY Zenon DEF DataIsPrefix
  <2>2. handled # Dropped
    BY <2>1, SMT DEF Dropped
  <2>3. /\ ~message /\ lost \in Nat
        /\ HandsOver(handled, pdu, Len(pdu.data) - lost,
                     IF mac # <<>> THEN mac ELSE Sender)
    BY <1>1, <2>1, <2>2, Delivered, Zenon
  <2>4. /\ handled.apdu.service = pdu.service /\ Begins(handled.apdu.data, pdu.data)
        /\ Len(handled.apdu.data) = Len(pdu.data) - lost
    BY <2>3, Zenon DEF HandsOver
  <2>5. /\ handled.apdu.data = SubSeq(pdu.data, 1, Len(handled.apdu.data))
        /\ Len(handled.apdu.data) \in 0..Len(pdu.data)
        /\ Len(handled.apdu.data) = Len(pdu.data) => handled.apdu.data = pdu.data
    BY <2>4, BeginsIsCut, Zenon
  <2>6. Len(pdu.data) \in Nat
    <3>1. pdu.data \in Seq(Byte)
      BY <2>4, Zenon DEF Begins
    <3>2. QED
      BY <3>1
  <2>7. lost = 0 => Len(handled.apdu.data) = Len(pdu.data)
    BY <2>4, <2>6, SMTT(20)
  <2>8. QED
    BY <2>3, <2>4, <2>5, <2>7, Zenon
<1>2. QED
  BY <1>1, DeliveryInvariant, PTL

\* handleIAm reaches only announcements: what reaches it was one of a device.
LEMMA OnlyDevicesAnnounce ==
    ASSUME NEW p, Sent(p), Handler(p) = "handleIAm"
    PROVE  \E d \in Devices : IsDevice(d) /\ p = IAm(d)
<1>1. p.type = UnconfirmedRequest /\ p.service = ServiceIAm
  BY Zenon DEF Handler
<1>2. ~IsPDU(p)
  BY <1>1, Zenon DEF IsPDU
<1>3. QED
  BY <1>2, SentIsSendable, Zenon

\* The announcement of what handleIAm stored is that of the device, since it is
\* encoded from the four fields.
LEMMA SameAnnouncement ==
    ASSUME NEW d, NEW r,
           r = [ok |-> TRUE, device |-> d.device, maxAPDU |-> d.maxAPDU,
                segmentation |-> d.segmentation, vendor |-> d.vendor]
    PROVE  IAm([x \in DOMAIN r \ {"ok"} |-> r[x]]) = IAm(d)
<1>1. PICK e : e = [x \in DOMAIN r \ {"ok"} |-> r[x]]
  BY Zenon
<1>2. /\ e.device = d.device /\ e.maxAPDU = d.maxAPDU
      /\ e.segmentation = d.segmentation /\ e.vendor = d.vendor
  BY <1>1, SMT
<1>3. EncodeIAm(e) = EncodeIAm(d)
  BY <1>2, Zenon DEF EncodeIAm
<1>4. QED
  BY <1>1, <1>3, Zenon DEF IAm

\* Of an announcement whose header has at most one specifier, handleIAm stores
\* exactly what the device announced, under the address that a router recorded or
\* else that of the sender, and nothing if it was cut, at whichever byte.
THEOREM IAmExactCorrect == DeliverySpec => []IAmExact
<1>1. ASSUME DeliveryInv PROVE IAmExact
  <2>1. SUFFICES ASSUME stage = "received", handled.to = "handleIAm",
                        ~BothSpecifiers
                 PROVE  IF lost = 0
                        THEN /\ pdu = IAm([x \in DOMAIN iam \ {"ok"} |-> iam[x]])
                             /\ handled.addr = IF mac # <<>> THEN mac
                                           ELSE IF forwarded THEN BBMDIP
                                                ELSE OriginIP
                        ELSE iam = IAmError
    BY Zenon DEF IAmExact
  <2>2. handled # Dropped
    BY <2>1, SMT DEF Dropped
  <2>3. /\ lost \in Nat
        /\ HandsOver(handled, pdu, Len(pdu.data) - lost,
                     IF mac # <<>> THEN mac ELSE Sender)
    BY <1>1, <2>1, <2>2, Delivered, Zenon
  <2>4. Sent(pdu) /\ iam = DecodeIAm(handled.apdu.data)
    BY <1>1, <2>1, Zenon DEF DeliveryInv
  <2>5. /\ Handler(pdu) = "handleIAm" /\ Begins(handled.apdu.data, pdu.data)
        /\ Len(handled.apdu.data) = Len(pdu.data) - lost
        /\ handled.addr = IF mac # <<>> THEN mac ELSE Sender
    BY <2>1, <2>3, Zenon DEF HandsOver
  <2>6. PICK d \in Devices : IsDevice(d) /\ pdu = IAm(d)
    BY <2>4, <2>5, OnlyDevicesAnnounce, ZenonT(30)
  <2>7. pdu.data = EncodeIAm(d)
    BY <2>6, SMT DEF IAm
  <2>8. Begins(handled.apdu.data, EncodeIAm(d))
    BY <2>5, <2>7, Zenon
  <2>9. Len(pdu.data) \in Nat
    <3>1. pdu.data \in Seq(Byte)
      BY <2>5, Zenon DEF Begins
    <3>2. QED
      BY <3>1
  <2>10. CASE lost = 0
    <3>1. ~(Len(handled.apdu.data) < Len(EncodeIAm(d)))
      BY <2>5, <2>7, <2>9, <2>10, SMTT(20)
    <3>2. iam = [ok |-> TRUE, device |-> d.device, maxAPDU |-> d.maxAPDU,
                 segmentation |-> d.segmentation, vendor |-> d.vendor]
      BY <2>4, <2>6, <2>8, <3>1, IAmRead, Zenon
    <3>3. pdu = IAm([x \in DOMAIN iam \ {"ok"} |-> iam[x]])
      BY <2>6, <3>2, SameAnnouncement, ZenonT(30)
    <3>4. QED
      BY <2>5, <2>10, <3>3, ZenonT(30) DEF Sender
  <2>11. CASE lost # 0
    <3>1. Len(handled.apdu.data) < Len(EncodeIAm(d))
      BY <2>3, <2>5, <2>7, <2>9, <2>11, SMT
    <3>2. iam = IAmError
      BY <2>4, <2>6, <2>8, <3>1, IAmRead, Zenon
    <3>3. QED
      BY <2>11, <3>2, Zenon
  <2>12. QED
    BY <2>10, <2>11, Zenon
<1>2. QED
  BY <1>1, DeliveryInvariant, PTL

=============================================================================
