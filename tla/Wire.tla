-------------------------------- MODULE Wire --------------------------------
(***************************************************************************)
(* Tags, integers and object identifiers on the wire, as pure operators    *)
(* (protocol.go, types.go), and the steps that client.go's decoders share. *)
(*                                                                         *)
(* A []byte is a sequence over 0..255. A decoder returns a record whose    *)
(* field ok is FALSE where the code returns an error.                      *)
(***************************************************************************)
EXTENDS Integers, Sequences

\* data[n:]
Drop(data, n) == SubSeq(data, n + 1, Len(data))

\* binary.BigEndian, and byte(v >> 8), byte(v) of the encoders.
PutUint16(v) == <<(v \div 256) % 256, v % 256>>
PutUint32(v) ==
    <<(v \div 16777216) % 256, (v \div 65536) % 256,
      (v \div 256) % 256, v % 256>>
Uint16(data) == 256 * data[1] + data[2]
Uint32(data) ==
    16777216 * data[1] + 65536 * data[2] + 256 * data[3] + data[4]

-----------------------------------------------------------------------------
(***************************************************************************)
(* Tags.                                                                   *)
(***************************************************************************)

TagClassApplication == 0
TagClassContext == 1
TagObjectID == 12

\* Lengths that stand for an opening and a closing tag.
Opening == -1
Closing == -2

\* The first byte: number, class, and length or a marker.
TagByte(number, class, low) == 16 * number + 8 * class + low

\* Mutant: one byte of length also where 254 and 255 announce more.
ExtendedLengthNarrow(length) ==
    IF length < 5 THEN <<>>
    ELSE IF length <= 255 THEN <<length>>
    ELSE IF length < 65536 THEN <<254>> \o PutUint16(length)
    ELSE <<255>> \o PutUint32(length)

ExtendedLength(length) ==
    IF length < 5 THEN <<>>
    ELSE IF length < 254 THEN <<length>>
    ELSE IF length < 65536 THEN <<254>> \o PutUint16(length)
    ELSE <<255>> \o PutUint32(length)

\* With an extended tag number the low bits of the first byte stay zero,
\* whatever the length.
EncodeTag(number, class, length) ==
    IF number >= 15
    THEN <<TagByte(15, class, 0), number>> \o ExtendedLength(length)
    ELSE IF length < 5 THEN <<TagByte(number, class, length)>>
    ELSE <<TagByte(number, class, 5)>> \o ExtendedLength(length)

EncodeContextTag(number, data) ==
    EncodeTag(number, TagClassContext, Len(data)) \o data
EncodeApplicationTag(number, data) ==
    EncodeTag(number, TagClassApplication, Len(data)) \o data

EncodeOpeningTag(number) ==
    IF number < 15 THEN <<TagByte(number, 1, 6)>> ELSE <<254, number>>
EncodeClosingTag(number) ==
    IF number < 15 THEN <<TagByte(number, 1, 7)>> ELSE <<255, number>>

TagError ==
    [ok |-> FALSE, number |-> 0, class |-> 0, length |-> 0, header |-> 0]

LengthError == [ok |-> FALSE, length |-> 0, size |-> 0]

\* Mutant: the bytes that 254 and 255 announce are not asked for.
DecodeExtendedLengthUnchecked(data) ==
    LET length(n, size) == [ok |-> TRUE, length |-> n, size |-> size]
    IN  IF Len(data) < 1 THEN LengthError
        ELSE IF data[1] < 254 THEN length(data[1], 1)
        ELSE IF Len(data) < 3 THEN length(0, 1)
        ELSE IF data[1] = 254 \/ Len(data) < 5
             THEN length(Uint16(Tail(data)), 3)
        ELSE length(Uint32(Tail(data)), 5)

\* What follows the marker 5: one byte, or 254 and two, or 255 and four.
DecodeExtendedLength(data) ==
    LET length(n, size) == [ok |-> TRUE, length |-> n, size |-> size]
    IN  IF Len(data) < 1 THEN LengthError
        ELSE IF data[1] < 254 THEN length(data[1], 1)
        ELSE IF data[1] = 254
             THEN IF Len(data) < 3 THEN LengthError
                  ELSE length(Uint16(Tail(data)), 3)
        ELSE IF Len(data) < 5 THEN LengthError
        ELSE length(Uint32(Tail(data)), 5)

DecodeTagNumber(data) ==
    LET low == data[1] % 8
        class == (data[1] \div 8) % 2
        base == IF data[1] \div 16 = 15 THEN 2 ELSE 1
        ext == DecodeExtendedLength(Drop(data, base))
        tag(length, header) ==
            [ok |-> TRUE, class |-> class, length |-> length,
             header |-> header,
             number |-> IF base = 2 THEN data[2] ELSE data[1] \div 16]
    IN  IF Len(data) < 1 THEN TagError
        ELSE IF Len(data) < base THEN TagError
        ELSE IF class = TagClassContext /\ low = 6 THEN tag(Opening, base)
        ELSE IF class = TagClassContext /\ low = 7 THEN tag(Closing, base)
        ELSE IF low # 5 THEN tag(low, base)
        ELSE IF ext.ok THEN tag(ext.length, base + ext.size)
        ELSE TagError

-----------------------------------------------------------------------------
(***************************************************************************)
(* Integers, in as few bytes as hold them.                                 *)
(***************************************************************************)

\* Mutant: 256 taken for a value of one byte.
EncodeUnsignedOff(v) ==
    IF v <= 256 THEN <<v>>
    ELSE IF v < 65536 THEN PutUint16(v)
    ELSE IF v < 16777216 THEN Tail(PutUint32(v))
    ELSE PutUint32(v)

EncodeUnsigned(v) ==
    IF v < 256 THEN <<v>>
    ELSE IF v < 65536 THEN PutUint16(v)
    ELSE IF v < 16777216 THEN Tail(PutUint32(v))
    ELSE PutUint32(v)

\* Any other length decodes to zero, without an error.
DecodeUnsigned(data) ==
    IF Len(data) = 1 THEN data[1]
    ELSE IF Len(data) = 2 THEN Uint16(data)
    ELSE IF Len(data) = 3 THEN 65536 * data[1] + Uint16(Tail(data))
    ELSE IF Len(data) = 4 THEN Uint32(data)
    ELSE 0

EncodeSigned(v) ==
    IF v >= -128 /\ v <= 127 THEN <<v % 256>>
    ELSE IF v >= -32768 /\ v <= 32767 THEN PutUint16(v)
    ELSE IF v >= -8388608 /\ v <= 8388607 THEN Tail(PutUint32(v))
    ELSE PutUint32(v)

\* Mutant: the sign extension is off by one.
SignByteOff(b) == IF b > 127 THEN b - 255 ELSE b

\* int8(data[0]), int16(...), and the sign extension of three bytes: the
\* first byte carries the sign.
SignByte(b) == IF b > 127 THEN b - 256 ELSE b

DecodeSigned(data) ==
    LET high == SignByte(data[1])
    IN  IF Len(data) = 1 THEN high
        ELSE IF Len(data) = 2 THEN 256 * high + data[2]
        ELSE IF Len(data) = 3 THEN 65536 * high + Uint16(Tail(data))
        ELSE IF Len(data) = 4
             THEN 16777216 * high + 65536 * data[2] + Uint16(Drop(data, 2))
        ELSE 0

EncodeContextUnsigned(number, v) == EncodeContextTag(number, EncodeUnsigned(v))

\* readUnsignedTag on data[offset:]; rest is what follows the value.
ReadUnsignedTag(data) ==
    LET tag == DecodeTagNumber(data)
        end == tag.header + tag.length
    IN  IF ~tag.ok \/ tag.length < 0 \/ end > Len(data)
        THEN [ok |-> FALSE, value |-> 0, rest |-> <<>>]
        ELSE [ok |-> TRUE, rest |-> Drop(data, end),
              value |-> DecodeUnsigned(SubSeq(data, tag.header + 1, end))]

\* Ten bits of type, twenty-two of instance; wider values are cut.
EncodeObjectIdentifier(oid) ==
    LET type == oid.type % 1024
        inst == oid.instance % 4194304
    IN  <<type \div 4, 64 * (type % 4) + inst \div 65536>> \o PutUint16(inst)

\* Mutant: the instance loses the six bits it shares a byte with the type.
DecodeObjectIdentifierShort(data) ==
    [type |-> 4 * data[1] + data[2] \div 64, instance |-> Uint16(Drop(data, 2))]

DecodeObjectIdentifier(data) ==
    [type |-> 4 * data[1] + data[2] \div 64,
     instance |-> 65536 * (data[2] % 64) + Uint16(Drop(data, 2))]

EncodeContextObjectIdentifier(number, oid) ==
    EncodeContextTag(number, EncodeObjectIdentifier(oid))

\* The element at the head of data when it is context tag number, with its
\* length checked against data, as each response decoder does.
Element(data, number) ==
    LET tag == DecodeTagNumber(data)
        end == tag.header + tag.length
        there == /\ tag.ok /\ tag.number = number
                 /\ tag.class = TagClassContext
                 /\ tag.length >= 0 /\ end <= Len(data)
    IN  [there |-> there,
         payload |-> IF there THEN SubSeq(data, tag.header + 1, end) ELSE <<>>,
         rest |-> IF there THEN Drop(data, end) ELSE data]

\* data starts with the opening, or the closing, tag number.
OpensWith(data, number) ==
    LET tag == DecodeTagNumber(data)
    IN  tag.ok /\ tag.number = number /\ tag.length = Opening
ClosesWith(data, number) ==
    LET tag == DecodeTagNumber(data)
    IN  tag.ok /\ tag.number = number /\ tag.length = Closing

=============================================================================
