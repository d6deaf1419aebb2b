------------------------------ MODULE Scalars -------------------------------
(***************************************************************************)
(* Property values on the wire: character strings (protocol.go), bit       *)
(* strings (bitstring.go), dates and times (datetime.go), and the decoder  *)
(* and the encoder of one tagged value (decodePropertyValue and            *)
(* encodePropertyValue in client.go).                                      *)
(*                                                                         *)
(* A Go string is the sequence of its bytes. A value of type interface{}   *)
(* is [t |-> its Go type, v |-> a sequence of integers]: the number of an  *)
(* integer, the bytes of a float, the bytes of a string, the fields of a   *)
(* struct.                                                                 *)
(***************************************************************************)
EXTENDS Wire

Value(type, v) == [t |-> type, v |-> v]
Nil == Value("nil", <<>>)

\* (value, nil) and (nil, err).
Decoded(value) == [ok |-> TRUE, value |-> value]
DecodeFails == [ok |-> FALSE, value |-> Nil]

-----------------------------------------------------------------------------
(***************************************************************************)
(* Character strings.                                                      *)
(***************************************************************************)

CharSetUTF8 == 0
CharSetUCS4 == 3
CharSetUCS2 == 4
CharSetISO88591 == 5

\* Go's conversion of a rune to a string: UTF-8, and U+FFFD for a number that
\* is no character.
UTF8(r) ==
    LET c == IF (r >= 55296 /\ r <= 57343) \/ r < 0 \/ r > 1114111
             THEN 65533 ELSE r
    IN  IF c < 128 THEN <<c>>
        ELSE IF c < 2048 THEN <<192 + c \div 64, 128 + (c % 64)>>
        ELSE IF c < 65536
             THEN <<224 + c \div 4096, 128 + ((c \div 64) % 64), 128 + (c % 64)>>
        ELSE <<240 + c \div 262144, 128 + ((c \div 4096) % 64),
               128 + ((c \div 64) % 64), 128 + (c % 64)>>

\* The parts, one after the other.
Concat(parts) ==
    LET upTo[i \in 0..Len(parts)] ==
            IF i = 0 THEN <<>> ELSE upTo[i - 1] \o parts[i]
    IN  upTo[Len(parts)]

String(runes) == Concat([i \in DOMAIN runes |-> UTF8(runes[i])])

\* utf16.Decode: a surrogate pair is one rune, a lone surrogate U+FFFD.
HighSurrogate(x) == x \in 55296..56319
LowSurrogate(x) == x \in 56320..57343
PairRune(high, low) == 65536 + 1024 * (high - 55296) + low - 56320
LoneRune(x) == IF x \in 55296..57343 THEN 65533 ELSE x

UTF16Decode(u) ==
    LET pair(i) == i < Len(u) /\ HighSurrogate(u[i]) /\ LowSurrogate(u[i + 1])
        from[i \in 1..Len(u) + 1] ==
            IF i > Len(u) THEN <<>>
            ELSE IF pair(i) THEN <<PairRune(u[i], u[i + 1])>> \o from[i + 2]
            ELSE <<LoneRune(u[i])>> \o from[i + 1]
    IN  from[1]

\* The payload as big-endian numbers of width bytes; a trailing part is
\* dropped.
Groups(payload, width) ==
    [i \in 1..Len(payload) \div width |->
        DecodeUnsigned(SubSeq(payload, width * (i - 1) + 1, width * i))]

EncodeCharacterString(s) == <<CharSetUTF8>> \o s

\* Mutant: UCS-2 without its surrogate pairs.
DecodeCharacterStringNoPairs(data) ==
    LET payload == Tail(data)
    IN  IF Len(data) < 1 THEN <<>>
        ELSE CASE data[1] = CharSetUCS2 -> String(Groups(payload, 2))
               [] data[1] = CharSetUCS4 -> String(Groups(payload, 4))
               [] data[1] = CharSetISO88591 -> String(payload)
               [] OTHER -> payload

\* UTF-8 and the sets the code does not convert are taken as they are.
DecodeCharacterString(data) ==
    LET payload == Tail(data)
    IN  IF Len(data) < 1 THEN <<>>
        ELSE CASE data[1] = CharSetUCS2 ->
                    String(UTF16Decode(Groups(payload, 2)))
               [] data[1] = CharSetUCS4 -> String(Groups(payload, 4))
               [] data[1] = CharSetISO88591 -> String(payload)
               [] OTHER -> payload

-----------------------------------------------------------------------------
(***************************************************************************)
(* Bit strings. The value is <<UnusedBits>> \o Bytes.                      *)
(***************************************************************************)

BitLen(b) == IF Len(b) = 1 THEN 0 ELSE 8 * (Len(b) - 1) - b[1]

\* 0x80 >> (j - 1).
Weight == <<128, 64, 32, 16, 8, 4, 2, 1>>

\* Bit i, counted from the high bit of the first byte; FALSE out of range.
Bit(b, i) ==
    i \in 0..BitLen(b) - 1 /\ (b[i \div 8 + 2] \div Weight[(i % 8) + 1]) % 2 = 1

\* Byte k of the packed bits; the bits after the last one stay clear.
PackedByte(bits, k) ==
    LET part(j) == IF 8 * (k - 1) + j \in DOMAIN bits /\ bits[8 * (k - 1) + j]
                   THEN Weight[j] ELSE 0
    IN  part(1) + part(2) + part(3) + part(4)
            + part(5) + part(6) + part(7) + part(8)

\* Mutant: eight unused bits, and a last byte with none, for a full byte.
NewBitStringFromBitsPadded(bits) ==
    LET n == Len(bits) \div 8 + 1
    IN  <<8 * n - Len(bits)>> \o [k \in 1..n |-> PackedByte(bits, k)]

NewBitStringFromBits(bits) ==
    LET n == (Len(bits) + 7) \div 8
    IN  <<8 * n - Len(bits)>> \o [k \in 1..n |-> PackedByte(bits, k)]

DecodeBitString(payload) ==
    IF Len(payload) = 0 THEN DecodeFails
    ELSE IF payload[1] > 7 THEN DecodeFails
    ELSE IF Len(payload) = 1 /\ payload[1] # 0 THEN DecodeFails
    ELSE Decoded(Value("BitString", payload))

-----------------------------------------------------------------------------
(***************************************************************************)
(* Dates and times. A date is <<year, month, day, day of week>>.           *)
(***************************************************************************)

DateWildcardYear == 65535

DecodeDate(payload) ==
    <<IF payload[1] = 255 THEN DateWildcardYear ELSE payload[1] + 1900>>
        \o Tail(payload)

\* uint8(d.Year - 1900) keeps eight bits of the difference.
EncodeDate(d) ==
    <<IF d[1] = DateWildcardYear THEN 255 ELSE (d[1] - 1900) % 256>> \o Tail(d)

-----------------------------------------------------------------------------
(***************************************************************************)
(* One tagged value.                                                       *)
(***************************************************************************)

TagNull == 0
TagBoolean == 1
TagUnsignedInt == 2
TagSignedInt == 3
TagReal == 4
TagDouble == 5
TagOctetString == 6
TagCharacterString == 7
TagBitString == 8
TagEnumerated == 9
TagDate == 10
TagTime == 11

OID(v) == [type |-> v[1], instance |-> v[2]]

\* Values of these tags have one length; any other is an error.
FixedLength ==
    [n \in {TagReal, TagDouble, TagDate, TagTime, TagObjectID} |->
        IF n = TagDouble THEN 8 ELSE 4]

DecodePayload(number, data) ==
    LET oid == DecodeObjectIdentifier(data)
    IN  IF number \in DOMAIN FixedLength /\ Len(data) # FixedLength[number]
        THEN DecodeFails
        ELSE CASE number \in {TagUnsignedInt, TagEnumerated} ->
                    Decoded(Value("uint32", <<DecodeUnsigned(data)>>))
               [] number = TagSignedInt ->
                    Decoded(Value("int32", <<DecodeSigned(data)>>))
               [] number = TagReal -> Decoded(Value("float32", data))
               [] number = TagDouble -> Decoded(Value("float64", data))
               [] number = TagCharacterString ->
                    Decoded(Value("string", DecodeCharacterString(data)))
               [] number = TagBitString -> DecodeBitString(data)
               [] number = TagDate -> Decoded(Value("Date", DecodeDate(data)))
               [] number = TagTime -> Decoded(Value("Time", data))
               [] number = TagObjectID ->
                    Decoded(Value("ObjectIdentifier",
                                  <<oid.type, oid.instance>>))
               [] OTHER -> Decoded(Value("[]byte", data))

\* Only the first value is decoded. Null and Boolean have no payload: a
\* Boolean's value is its length field.
DecodePropertyValue(data) ==
    LET tag == DecodeTagNumber(data)
        payload == SubSeq(data, tag.header + 1, tag.header + tag.length)
    IN  IF ~tag.ok THEN DecodeFails
        ELSE IF tag.length = Closing THEN Decoded(Nil)
        ELSE IF tag.class = TagClassApplication /\ tag.number = TagNull
             THEN Decoded(Nil)
        ELSE IF tag.class = TagClassApplication /\ tag.number = TagBoolean
             THEN Decoded(Value("bool", <<IF tag.length = 1 THEN 1 ELSE 0>>))
        ELSE IF tag.length < 0 \/ Len(data) < tag.header + tag.length
             THEN DecodeFails
        ELSE IF tag.class = TagClassApplication
             THEN DecodePayload(tag.number, payload)
        ELSE Decoded(Value("[]byte", payload))

\* The Go types WriteProperty takes.
Writable == {"nil", "bool", "int", "int32", "uint32", "float32", "float64",
             "string", "ObjectIdentifier"}

\* What these types hold: a number fits 32 bits, an identifier ten and
\* twenty-two, and a string is shorter than 2^31. (Halves of 16 bits, as TLC's
\* integers have 32.)
Uint32Number(n) == n \in Nat /\ n \div 65536 < 65536
Int32Number(n) ==
    n \in Int /\ n \div 65536 >= -32768 /\ n \div 65536 < 32768
Bytes(v) == v \in Seq(0..255) /\ Len(v) < 2147483647
IsIdentifier(v) ==
    /\ v = <<v[1], v[2]>>
    /\ v[1] \in Nat /\ v[1] < 1024 /\ v[2] \in Nat /\ v[2] < 4194304

IsWritable(value) ==
    \E v \in {value.v} :
        /\ value = Value(value.t, v)
        /\ \/ value.t = "nil" /\ v = <<>>
           \/ value.t = "bool" /\ v \in {<<0>>, <<1>>}
           \/ value.t = "uint32" /\ v = <<v[1]>> /\ Uint32Number(v[1])
           \/ value.t = "int32" /\ v = <<v[1]>> /\ Int32Number(v[1])
           \/ /\ value.t = "int" /\ v = <<v[1]>>
              /\ Uint32Number(v[1]) \/ Int32Number(v[1])
           \/ value.t = "float32" /\ Bytes(v) /\ Len(v) = 4
           \/ value.t = "float64" /\ Bytes(v) /\ Len(v) = 8
           \/ value.t = "string" /\ Bytes(v)
           \/ value.t = "ObjectIdentifier" /\ IsIdentifier(v)


\* Mutant: every int and int32 is written as a signed integer.
EncodeIntSigned(n) == EncodeApplicationTag(TagSignedInt, EncodeSigned(n))

\* An int or int32 that is not negative is written as an unsigned integer.
EncodeInt(n) ==
    IF n >= 0 THEN EncodeApplicationTag(TagUnsignedInt, EncodeUnsigned(n))
    ELSE EncodeApplicationTag(TagSignedInt, EncodeSigned(n))

\* Defined on Writable types; the code returns an error on the others.
EncodePropertyValue(value) ==
    LET v == value.v
    IN  CASE value.t = "nil" -> <<0>>
          [] value.t = "bool" -> <<TagByte(TagBoolean, 0, v[1])>>
          [] value.t \in {"int", "int32"} -> EncodeInt(v[1])
          [] value.t = "uint32" ->
               EncodeApplicationTag(TagUnsignedInt, EncodeUnsigned(v[1]))
          [] value.t = "float32" -> EncodeApplicationTag(TagReal, v)
          [] value.t = "float64" -> EncodeApplicationTag(TagDouble, v)
          [] value.t = "string" -> EncodeApplicationTag(TagCharacterString,
                                       EncodeCharacterString(v))
          [] value.t = "ObjectIdentifier" -> EncodeApplicationTag(TagObjectID,
                                       EncodeObjectIdentifier(OID(v)))

\* The Go value that stands for value when it is read back: an int or int32 in
\* the type of the tag it was written with.
Returned(value) ==
    IF value.t \in {"int", "int32"}
    THEN Value(IF value.v[1] >= 0 THEN "uint32" ELSE "int32", value.v)
    ELSE value

=============================================================================
