------------------------------- MODULE Codec --------------------------------
(***************************************************************************)
(* Tags and property values between a peer and the client. The peer        *)
(* encodes an item, the network may deliver only its beginning (the        *)
(* receive buffer of udp.go cuts a datagram, and nothing compares the      *)
(* length in the BVLC header with it), and the client decodes it.          *)
(***************************************************************************)
EXTENDS Scalars

CONSTANTS TagNumbers,   \* tag numbers in use
          Lengths,      \* lengths of a tagged value
          Items,        \* property values
          Texts         \* texts, as sequences of characters

\* A date's year has sixteen bits.
IsDate(v) ==
    /\ v = <<v[1], v[2], v[3], v[4]>>
    /\ v[1] \in Nat /\ v[1] < 65536 /\ {v[2], v[3], v[4]} \subseteq 0..255

IsPropertyValue(value) ==
    \/ IsWritable(value)
    \/ \E v \in {value.v} :
        /\ value = Value(value.t, v)
        /\ \/ value.t = "enum" /\ v = <<v[1]>> /\ Uint32Number(v[1])
           \/ value.t = "signed" /\ v = <<v[1]>> /\ Int32Number(v[1])
           \/ value.t = "Time" /\ Bytes(v) /\ Len(v) = 4
           \/ value.t = "BitString" /\ Bytes(v) /\ v \in Seq({0, 1})
           \/ value.t = "Date" /\ IsDate(v)

\* A sequence of Unicode characters: the surrogates are none.
IsText(text) ==
    /\ text \in Seq(Nat) /\ Len(text) < 536870911
    /\ \A i \in DOMAIN text :
           text[i] < 55296 \/ (text[i] > 57343 /\ text[i] < 1114112)

ASSUME CodecAssumption ==
    /\ TagNumbers \subseteq 0..254
    /\ Lengths \subseteq Nat
    /\ \A value \in Items : IsPropertyValue(value)
    /\ \A text \in Texts : IsText(text)

VARIABLES pc,     \* "idle", "wire", "received"
          kind,   \* "tag", "value" or "text"
          item,   \* what the peer encoded
          cut,    \* TRUE when the end was lost
          wire,   \* the bytes
          got     \* what the client made of them

vars == <<pc, kind, item, cut, wire, got>>

-----------------------------------------------------------------------------
\* The encoder of each type that protocol.go, bitstring.go and datetime.go
\* have, whether or not WriteProperty calls it.
EncodeTagged(value) ==
    LET v == value.v
    IN  CASE value.t = "enum" ->
               EncodeApplicationTag(TagEnumerated, EncodeUnsigned(v[1]))
          [] value.t = "signed" ->
               EncodeApplicationTag(TagSignedInt, EncodeSigned(v[1]))
          [] value.t = "BitString" ->
               EncodeApplicationTag(TagBitString,
                   NewBitStringFromBits([i \in DOMAIN v |-> v[i] = 1]))
          [] value.t = "Date" -> EncodeApplicationTag(TagDate, EncodeDate(v))
          [] value.t = "Time" -> EncodeApplicationTag(TagTime, v)
          [] OTHER -> EncodePropertyValue(value)

\* Another implementation's encoding of a text in each character set.
UTF16(c) ==
    IF c < 65536 THEN PutUint16(c)
    ELSE PutUint16(55296 + (c - 65536) \div 1024)
             \o PutUint16(56320 + ((c - 65536) % 1024))

EncodeText(text, set) ==
    LET each(enc(_)) == Concat([i \in DOMAIN text |-> enc(text[i])])
    IN  EncodeApplicationTag(TagCharacterString,
            <<set>> \o CASE set = CharSetUTF8 -> each(UTF8)
                         [] set = CharSetUCS2 -> each(UTF16)
                         [] set = CharSetUCS4 -> each(PutUint32)
                         [] set = CharSetISO88591 -> text)

-----------------------------------------------------------------------------
NotYet == [ok |-> FALSE]

Init ==
    /\ pc = "idle"
    /\ kind = "tag"
    /\ item = <<>>
    /\ cut = FALSE
    /\ wire = <<>>
    /\ got = NotYet

Send(k, i, bytes) ==
    /\ pc = "idle"
    /\ pc' = "wire"
    /\ kind' = k
    /\ item' = i
    /\ wire' = bytes
    /\ UNCHANGED <<cut, got>>

SendTag ==
    \E n \in TagNumbers, c \in {TagClassApplication, TagClassContext},
       len \in Lengths :
        Send("tag", [number |-> n, class |-> c, length |-> len],
             EncodeTag(n, c, len))

SendOpeningTag ==
    \E n \in TagNumbers :
        Send("tag", [number |-> n, class |-> TagClassContext,
                     length |-> Opening], EncodeOpeningTag(n))

SendClosingTag ==
    \E n \in TagNumbers :
        Send("tag", [number |-> n, class |-> TagClassContext,
                     length |-> Closing], EncodeClosingTag(n))

SendValue == \E v \in Items : Send("value", v, EncodeTagged(v))

SendText ==
    \E text \in Texts,
       set \in {CharSetUTF8, CharSetUCS2, CharSetUCS4, CharSetISO88591} :
        /\ set = CharSetISO88591 => \A i \in DOMAIN text : text[i] < 256
        /\ Send("text", text, EncodeText(text, set))

\* Only the first bytes arrive.
Cut ==
    /\ pc = "wire"
    /\ ~cut
    /\ \E n \in 0..Len(wire) - 1 : wire' = SubSeq(wire, 1, n)
    /\ cut' = TRUE
    /\ UNCHANGED <<pc, kind, item, got>>

Receive ==
    /\ pc = "wire"
    /\ pc' = "received"
    /\ got' = IF kind = "tag" THEN DecodeTagNumber(wire)
              ELSE DecodePropertyValue(wire)
    /\ UNCHANGED <<kind, item, cut, wire>>

Next ==
    \/ SendTag
    \/ SendOpeningTag
    \/ SendClosingTag
    \/ SendValue
    \/ SendText
    \/ Cut
    \/ Receive

Spec == Init /\ [][Next]_vars

-----------------------------------------------------------------------------
\* Every byte an encoder emits is a byte: no shift or sum overflows the octet
\* it is stored in, at any boundary of the tag, integer and text encoders.
TypeOK ==
    /\ pc \in {"idle", "wire", "received"}
    /\ kind \in {"tag", "value", "text"}
    /\ cut \in BOOLEAN
    /\ \A i \in DOMAIN wire : wire[i] \in 0..255

\* DecodeTagNumber inverts EncodeTag, EncodeOpeningTag and EncodeClosingTag:
\* number, class and length come back, and the header is as long as it was
\* written, at each of the boundaries 5, 254 and 65536 of the length's forms.
TagRoundTrip ==
    pc = "received" /\ kind = "tag" /\ ~cut =>
        /\ got.ok
        /\ got.number = item.number
        /\ got.class = item.class
        /\ got.length = item.length
        /\ got.header = Len(wire)

\* A year sent as the low eight bits of its distance from 1900: the years from
\* 1900 to 2154 come back, another is one of them or the wildcard.
YearReadAs(y) ==
    LET low == (y - 1900) % 256
    IN  IF y \in 1900..2154 THEN y
        ELSE IF y = DateWildcardYear \/ low = 255 THEN DateWildcardYear
        ELSE 1900 + low

\* What ReadProperty makes of an encoded value of type t: an enumerated value
\* is a uint32 and a non-negative int32 or int a uint32.
ReadAs(value) ==
    CASE value.t = "enum" -> Value("uint32", value.v)
      [] value.t = "signed" -> Value("int32", value.v)
      [] value.t \in {"int", "int32"} ->
           Value(IF value.v[1] >= 0 THEN "uint32" ELSE "int32", value.v)
      [] value.t = "BitString" ->
           Value("BitString",
                 NewBitStringFromBits([i \in DOMAIN value.v |->
                                          value.v[i] = 1]))
      [] value.t = "Date" ->
           Value("Date", <<YearReadAs(value.v[1])>> \o Tail(value.v))
      [] OTHER -> value

\* decodePropertyValue inverts the encoders of every type: each integer at the
\* ends of each width, and dates with wildcards, come back as they were.
ValueRoundTrip ==
    pc = "received" /\ kind = "value" /\ ~cut => got = Decoded(ReadAs(item))

\* The bits of a bit string come back one by one, and no bit beyond them is
\* set, whatever the number of unused bits in the last byte.
BitsRoundTrip ==
    pc = "received" /\ kind = "value" /\ ~cut /\ item.t = "BitString" =>
        /\ got.ok
        /\ BitLen(got.value.v) = Len(item.v)
        /\ \A i \in 0..Len(item.v) + 8 :
               Bit(got.value.v, i) <=> i < Len(item.v) /\ item.v[i + 1] = 1

\* A text is the same Go string in whichever character set the device sent it.
TextIndependentOfSet ==
    pc = "received" /\ kind = "text" /\ ~cut =>
        got = Decoded(Value("string", String(item)))

\* The beginning of a tag or of a value is never taken for a whole one: the
\* bounds checks of DecodeTagNumber and decodePropertyValue refuse it.
CutRejected ==
    pc = "received" /\ cut => ~got.ok

=============================================================================
