----------------------------- MODULE WireProofs -----------------------------
(***************************************************************************)
(* Lemmas about the wire format, for every value of each type: TLC's       *)
(* integers end at 2^31 - 1, the code's unsigned values at 2^32 - 1.       *)
(*                                                                         *)
(* A leaf with large literals names SMT: the other prover writes them in   *)
(* unary. The lemmas on DecodeExtendedLength and DecodeTagNumber only      *)
(* select a branch, and are left to Zenon.                                 *)
(***************************************************************************)
EXTENDS Scalars, TLAPS

Byte == 0..255

\* The number of values of a uint32.
Uint32Values == 4294967296

\* binary.BigEndian reads two bytes back as they were put.
LEMMA Uint16Inverse ==
    ASSUME NEW v \in Int, 0 <= v, v < 65536
    PROVE  Uint16(PutUint16(v)) = v
BY SMT DEF Uint16, PutUint16

\* binary.BigEndian reads four bytes back as they were put.
LEMMA Uint32Inverse ==
    ASSUME NEW v \in Int, 0 <= v, v < Uint32Values
    PROVE  Uint32(PutUint32(v)) = v
BY SMT DEF Uint32, PutUint32, Uint32Values

\* DecodeUnsigned inverts EncodeUnsigned for every uint32, whichever of the
\* four widths the encoder picks.
THEOREM UnsignedRoundTrip ==
    ASSUME NEW v \in Int, 0 <= v, v < Uint32Values
    PROVE  DecodeUnsigned(EncodeUnsigned(v)) = v
<1>1. CASE v < 256
  <2>1. EncodeUnsigned(v) = <<v>>
    BY <1>1, SMT DEF EncodeUnsigned
  <2> QED
    BY <2>1, SMT DEF DecodeUnsigned
<1>2. CASE v >= 256 /\ v < 65536
  <2>1. EncodeUnsigned(v) = PutUint16(v)
    BY <1>2, SMT DEF EncodeUnsigned
  <2>2. Len(PutUint16(v)) = 2
    BY SMT DEF PutUint16
  <2> QED
    BY <1>2, <2>1, <2>2, Uint16Inverse, SMT DEF DecodeUnsigned
<1>3. CASE v >= 65536 /\ v < 16777216
  <2>1. EncodeUnsigned(v) = Tail(PutUint32(v))
    BY <1>3, SMT DEF EncodeUnsigned
  <2> DEFINE d == Tail(PutUint32(v))
  <2>2. /\ Len(d) = 3
        /\ d[1] = (v \div 65536) % 256
        /\ Uint16(Tail(d)) = 256 * ((v \div 256) % 256) + (v % 256)
    BY SMT DEF PutUint32, Uint16
  <2>3. 65536 * ((v \div 65536) % 256)
          + (256 * ((v \div 256) % 256) + (v % 256)) = v
    BY <1>3, SMT
  <2> HIDE DEF d
  <2>4. DecodeUnsigned(d) = v
    BY <2>2, <2>3, SMT DEF DecodeUnsigned
  <2> QED
    BY <2>1, <2>4, SMT DEF d
<1>4. CASE v >= 16777216
  <2>1. EncodeUnsigned(v) = PutUint32(v)
    BY <1>4, SMT DEF EncodeUnsigned
  <2>2. Len(PutUint32(v)) = 4
    BY SMT DEF PutUint32
  <2> QED
    BY <2>1, <2>2, Uint32Inverse, SMT DEF DecodeUnsigned
<1> QED
  BY <1>1, <1>2, <1>3, <1>4, SMT

\* DecodeSigned inverts EncodeSigned for every int32: the sign survives each
\* of the four widths, the three-byte one included.
THEOREM SignedRoundTrip ==
    ASSUME NEW v \in Int, -2147483648 <= v, v < 2147483648
    PROVE  DecodeSigned(EncodeSigned(v)) = v
<1>1. CASE v >= -128 /\ v <= 127
  <2>1. EncodeSigned(v) = <<v % 256>>
    BY <1>1, SMT DEF EncodeSigned
  <2>2. SignByte(v % 256) = v
    BY <1>1, SMT DEF SignByte
  <2> QED
    BY <2>1, <2>2, SMT DEF DecodeSigned
<1>2. CASE ~(v >= -128 /\ v <= 127) /\ v >= -32768 /\ v <= 32767
  <2>1. EncodeSigned(v) = PutUint16(v)
    BY <1>2, SMT DEF EncodeSigned
  <2>2. /\ Len(PutUint16(v)) = 2
        /\ PutUint16(v)[1] = (v \div 256) % 256
        /\ PutUint16(v)[2] = v % 256
    BY SMT DEF PutUint16
  <2>3. 256 * SignByte((v \div 256) % 256) + (v % 256) = v
    BY <1>2, SMT DEF SignByte
  <2> QED
    BY <2>1, <2>2, <2>3, SMT DEF DecodeSigned
<1>3. CASE ~(v >= -32768 /\ v <= 32767) /\ v >= -8388608 /\ v <= 8388607
  <2>1. EncodeSigned(v) = Tail(PutUint32(v))
    BY <1>3, SMT DEF EncodeSigned
  <2>2. 65536 * SignByte((v \div 65536) % 256)
          + (256 * ((v \div 256) % 256) + (v % 256)) = v
    BY <1>3, SMT DEF SignByte
  <2> DEFINE d == Tail(PutUint32(v))
  <2>3. /\ Len(d) = 3
        /\ d[1] = (v \div 65536) % 256
        /\ Uint16(Tail(d)) = 256 * ((v \div 256) % 256) + (v % 256)
    BY SMT DEF PutUint32, Uint16
  <2> HIDE DEF d
  <2>4. DecodeSigned(d) = v
    BY <2>2, <2>3, SMT DEF DecodeSigned
  <2> QED
    BY <2>1, <2>4, SMT DEF d
<1>4. CASE ~(v >= -8388608 /\ v <= 8388607)
  <2>1. EncodeSigned(v) = PutUint32(v)
    BY <1>4, SMT DEF EncodeSigned
  <2>2. 16777216 * SignByte((v \div 16777216) % 256)
          + 65536 * ((v \div 65536) % 256)
          + (256 * ((v \div 256) % 256) + (v % 256)) = v
    BY <1>4, SMT DEF SignByte
  <2> DEFINE d == PutUint32(v)
  <2>3. /\ Len(d) = 4
        /\ d[1] = (v \div 16777216) % 256
        /\ d[2] = (v \div 65536) % 256
        /\ Uint16(Drop(d, 2)) = 256 * ((v \div 256) % 256) + (v % 256)
    BY SMT DEF PutUint32, Uint16, Drop
  <2> HIDE DEF d
  <2>4. DecodeSigned(d) = v
    BY <2>2, <2>3, SMT DEF DecodeSigned
  <2> QED
    BY <2>1, <2>4, SMT DEF d
<1> QED
  BY <1>1, <1>2, <1>3, <1>4, SMT

\* DecodeObjectIdentifierFromBytes inverts ObjectIdentifier.Encode for every
\* type of ten bits and instance of twenty-two, which share a byte.
THEOREM ObjectIdentifierRoundTrip ==
    ASSUME NEW t \in Int, 0 <= t, t < 1024,
           NEW n \in Int, 0 <= n, n < 4194304
    PROVE  DecodeObjectIdentifier(
               EncodeObjectIdentifier([type |-> t, instance |-> n]))
             = [type |-> t, instance |-> n]
<1> DEFINE oid == [type |-> t, instance |-> n]
           e == EncodeObjectIdentifier(oid)
           b == 64 * (t % 4) + n \div 65536
<1>1. oid.type % 1024 = t /\ oid.instance % 4194304 = n
  BY SMT
<1>2. e = <<t \div 4, b>> \o PutUint16(n)
  BY <1>1, SMT DEF EncodeObjectIdentifier
<1>3. /\ e[1] = t \div 4
      /\ e[2] = b
      /\ Uint16(Drop(e, 2)) = 256 * ((n \div 256) % 256) + (n % 256)
  <2> HIDE DEF e, b
  <2>1. b \in Int
    BY SMT DEF b
  <2> QED
    BY <1>2, <2>1, SMT DEF PutUint16, Drop, Uint16
<1>4. b \div 64 = t % 4 /\ b % 64 = n \div 65536
  BY SMT
<1>5. 4 * (t \div 4) + (t % 4) = t
  BY SMT
<1>6. 65536 * (n \div 65536) + (256 * ((n \div 256) % 256) + (n % 256)) = n
  BY SMT
<1> HIDE DEF e, b
<1>7. DecodeObjectIdentifier(e) = [type |-> t, instance |-> n]
  BY <1>3, <1>4, <1>5, <1>6, SMT DEF DecodeObjectIdentifier
<1> QED
  BY <1>7, SMT DEF e

-----------------------------------------------------------------------------
(***************************************************************************)
(* Branches of the tag decoder.                                            *)
(***************************************************************************)

\* DecodeTagNumber's extended length of one byte.
LEMMA OneByteLength ==
    ASSUME NEW d, ~(Len(d) < 1), d[1] < 254
    PROVE  DecodeExtendedLength(d)
             = [ok |-> TRUE, length |-> d[1], size |-> 1]
BY Zenon DEF DecodeExtendedLength

\* DecodeTagNumber's extended length of two bytes, after 254.
LEMMA TwoByteLength ==
    ASSUME NEW d, ~(Len(d) < 1), d[1] = 254, ~(Len(d) < 3)
    PROVE  DecodeExtendedLength(d)
             = [ok |-> TRUE, length |-> Uint16(Tail(d)), size |-> 3]
<1>1. ~(d[1] < 254)
  BY SMT
<1> QED
  BY <1>1, Zenon DEF DecodeExtendedLength

\* DecodeTagNumber's extended length of four bytes, after 255.
LEMMA FourByteLength ==
    ASSUME NEW d, ~(Len(d) < 1), ~(d[1] < 254), ~(d[1] = 254), ~(Len(d) < 5)
    PROVE  DecodeExtendedLength(d)
             = [ok |-> TRUE, length |-> Uint32(Tail(d)), size |-> 5]
BY Zenon DEF DecodeExtendedLength

\* A tag that was decoded.
DecodedTag(n, c, len, size) ==
    [ok |-> TRUE, class |-> c, length |-> len, header |-> size, number |-> n]

\* What DecodeTagNumber returns, in each of its branches for a number below
\* 15 and a length in the first byte, or a marker instead of one.
LEMMA TagBranches ==
    ASSUME NEW d, ~(Len(d) < 1), NEW n, n = d[1] \div 16, ~(n = 15),
           NEW c, c = (d[1] \div 8) % 2, NEW low, low = d[1] % 8, ~(1 = 2)
    PROVE  /\ c = TagClassContext /\ low = 6
                => DecodeTagNumber(d) = DecodedTag(n, c, Opening, 1)
           /\ c = TagClassContext /\ ~(low = 6) /\ low = 7
                => DecodeTagNumber(d) = DecodedTag(n, c, Closing, 1)
           /\ ~(low = 6) /\ ~(low = 7) /\ ~(low = 5)
                => DecodeTagNumber(d) = DecodedTag(n, c, low, 1)
BY Zenon DEF DecodeTagNumber, DecodedTag

\* What DecodeTagNumber returns for a number below 15 and a longer length.
LEMMA LongTag ==
    ASSUME NEW d, ~(Len(d) < 1), NEW n, n = d[1] \div 16, ~(n = 15),
           NEW c, c = (d[1] \div 8) % 2,
           ~(d[1] % 8 = 6), ~(d[1] % 8 = 7), d[1] % 8 = 5, ~(1 = 2),
           NEW len, NEW size,
           DecodeExtendedLength(Drop(d, 1))
             = [ok |-> TRUE, length |-> len, size |-> size]
    PROVE  DecodeTagNumber(d) = DecodedTag(n, c, len, 1 + size)
<1> DEFINE ext == DecodeExtendedLength(Drop(d, 1))
<1>1. ext.ok /\ ext.length = len /\ ext.size = size
  BY SMT
<1> QED
  BY <1>1, Zenon DEF DecodeTagNumber, DecodedTag

\* The three fields of a tag's first byte come apart again.
LEMMA TagByteFields ==
    ASSUME NEW n \in Int, 0 <= n, n < 15, NEW c \in Int, 0 <= c, c < 2,
           NEW low \in Int, 0 <= low, low < 8
    PROVE  /\ TagByte(n, c, low) \in Int
           /\ TagByte(n, c, low) \div 16 = n
           /\ (TagByte(n, c, low) \div 8) % 2 = c
           /\ TagByte(n, c, low) % 8 = low
BY SMT DEF TagByte

\* The fields of a tag, read from its first byte.
LEMMA FirstByteFields ==
    ASSUME NEW n \in Int, 0 <= n, n < 15, NEW c \in Int, 0 <= c, c < 2,
           NEW low \in Int, 0 <= low, low < 6,
           NEW d, d[1] = TagByte(n, c, low)
    PROVE  /\ n = d[1] \div 16 /\ c = (d[1] \div 8) % 2 /\ low = d[1] % 8
           /\ ~(d[1] \div 16 = 15) /\ ~(n = 15) /\ ~(1 = 2)
           /\ ~(d[1] % 8 = 6) /\ ~(d[1] % 8 = 7) /\ ~(low = 6) /\ ~(low = 7)
<1>1. PICK b : b = TagByte(n, c, low)
  OBVIOUS
<1>2. b \in Int /\ b \div 16 = n /\ (b \div 8) % 2 = c /\ b % 8 = low
  BY <1>1, TagByteFields, SMT
<1>3. /\ n = b \div 16 /\ c = (b \div 8) % 2 /\ low = b % 8
      /\ ~(b \div 16 = 15) /\ ~(n = 15) /\ ~(1 = 2)
      /\ ~(b % 8 = 6) /\ ~(b % 8 = 7) /\ ~(low = 6) /\ ~(low = 7)
  BY <1>2, SMT
<1>4. d[1] = b
  BY <1>1
<1>5. QED
  BY <1>3, <1>4, Zenon

\* binary.BigEndian.Uint32 of four bytes.
LEMMA Uint32Of ==
    ASSUME NEW x, NEW a \in Int, NEW b \in Int, NEW c \in Int, NEW d \in Int,
           x[1] = a, x[2] = b, x[3] = c, x[4] = d
    PROVE  Uint32(x) = 16777216 * a + 65536 * b + 256 * c + d
BY SMT DEF Uint32

\* byte(x) is a byte, whatever x.
LEMMA ByteOf == \A x \in Int : x % 256 \in Byte
BY SMT DEF Byte

\* Sequences with the same elements are equal.
LEMMA SameElements ==
    ASSUME NEW S, NEW s \in Seq(S), NEW t \in Seq(S),
           Len(s) = Len(t), \A i \in 1..Len(s) : s[i] = t[i]
    PROVE  s = t
BY SMT

\* The bytes of an extended length, in each of its three forms.
LEMMA ExtendedLengthBytes ==
    ASSUME NEW len \in Int, 5 <= len, len < Uint32Values,
           NEW e, e = ExtendedLength(len)
    PROVE  /\ e \in Seq(Byte)
           /\ len < 254 => Len(e) = 1 /\ e[1] = len
           /\ len >= 254 /\ len < 65536 =>
                /\ Len(e) = 3 /\ e[1] = 254
                /\ e[2] = (len \div 256) % 256 /\ e[3] = len % 256
           /\ len >= 65536 =>
                /\ Len(e) = 5 /\ e[1] = 255
                /\ e[2] = (len \div 16777216) % 256
                /\ e[3] = (len \div 65536) % 256
                /\ e[4] = (len \div 256) % 256 /\ e[5] = len % 256
<1>1. CASE len < 254
  <2>1. e = <<len>> /\ len \in Byte
    BY <1>1, SMT DEF ExtendedLength, Byte
  <2>2. QED
    BY <1>1, <2>1, SMT
<1>2. CASE len >= 254 /\ len < 65536
  <2>a. (len \div 256) % 256 \in Byte /\ len % 256 \in Byte
    BY ByteOf, SMT
  <2>1. PICK a \in Byte, b \in Byte : a = (len \div 256) % 256 /\ b = len % 256
    BY <2>a
  <2>2. e = <<254>> \o <<a, b>> /\ 254 \in Byte
    BY <1>2, <2>1, SMT DEF ExtendedLength, PutUint16, Byte
  <2>3. QED
    BY <1>2, <2>1, <2>2, SMT
<1>3. CASE len >= 65536
  <2>1. PICK a \in Byte, b \in Byte, c \in Byte, d \in Byte :
          /\ a = (len \div 16777216) % 256 /\ b = (len \div 65536) % 256
          /\ c = (len \div 256) % 256 /\ d = len % 256
    <3>1. /\ len \div 16777216 \in Int /\ len \div 65536 \in Int
          /\ len \div 256 \in Int
      BY SMT
    <3>2. /\ (len \div 16777216) % 256 \in Byte
          /\ (len \div 65536) % 256 \in Byte
          /\ (len \div 256) % 256 \in Byte /\ len % 256 \in Byte
      BY <3>1, ByteOf, SMTT(20)
    <3>3. QED
      BY <3>2, SMT
  <2>2. e = <<255>> \o <<a, b, c, d>> /\ 255 \in Byte
    BY <1>3, <2>1, SMT DEF ExtendedLength, PutUint32, Byte
  <2>3. QED
    BY <1>3, <2>1, <2>2, SMT
<1>4. QED
  BY <1>1, <1>2, <1>3, SMT

\* The bytes of a tag whose number is below 15: the first one, and the
\* extended length if it has one.
LEMMA EncodeTagBytes ==
    ASSUME NEW n \in Int, 0 <= n, n < 15, NEW c \in Int, 0 <= c, c < 2,
           NEW len \in Int, 0 <= len, len < Uint32Values,
           NEW h, h = EncodeTag(n, c, len), NEW e, e = ExtendedLength(len)
    PROVE  /\ h \in Seq(Byte)
           /\ len < 5 => Len(h) = 1 /\ h[1] = TagByte(n, c, len)
           /\ len >= 5 =>
                /\ e \in Seq(Byte) /\ Len(h) = 1 + Len(e)
                /\ h[1] = TagByte(n, c, 5)
                /\ \A i \in 1..Len(e) : h[1 + i] = e[i]
<1>1. CASE len < 5
  <2>1. PICK b \in Byte : b = TagByte(n, c, len)
    BY <1>1, SMT DEF TagByte, Byte
  <2>2. h = <<b>>
    BY <1>1, <2>1, SMT DEF EncodeTag
  <2>3. QED
    BY <1>1, <2>1, <2>2, SMT
<1>2. CASE len >= 5
  <2>1. PICK b \in Byte : b = TagByte(n, c, 5)
    BY SMT DEF TagByte, Byte
  <2>2. h = <<b>> \o e
    BY <1>2, <2>1, SMT DEF EncodeTag
  <2>3. e \in Seq(Byte)
    BY <1>2, ExtendedLengthBytes
  <2>4. QED
    BY <1>2, <2>1, <2>2, <2>3, SMT
<1>3. QED
  BY <1>1, <1>2, SMT

\* What is left of bytes after the first n.
LEMMA DropBytes ==
    ASSUME NEW S, NEW d \in Seq(S), NEW n \in Nat, n <= Len(d)
    PROVE  /\ Drop(d, n) \in Seq(S)
           /\ Len(Drop(d, n)) = Len(d) - n
           /\ \A i \in 1..Len(d) - n : Drop(d, n)[i] = d[n + i]
BY SMT DEF Drop

\* d begins as h does, as far as it goes.
BeginsAs(d, h) ==
    /\ d \in Seq(Byte)
    /\ \A i \in 1..Len(d) : i <= Len(h) => d[i] = h[i]

\* DecodeExtendedLength reads what ExtendedLength wrote, whatever follows.
LEMMA ExtendedLengthInverse ==
    ASSUME NEW len \in Int, 5 <= len, len < Uint32Values,
           NEW e, e = ExtendedLength(len),
           NEW x, BeginsAs(x, e), Len(x) >= Len(e)
    PROVE  DecodeExtendedLength(x)
             = [ok |-> TRUE, length |-> len, size |-> Len(e)]
<1>1. x \in Seq(Byte) /\ Len(e) \in Nat /\ \A i \in 1..Len(e) : x[i] = e[i]
  BY ExtendedLengthBytes, SMT DEF BeginsAs
<1>2. CASE len < 254
  <2>1. Len(e) = 1 /\ ~(Len(x) < 1) /\ x[1] < 254 /\ x[1] = len
    BY <1>1, <1>2, ExtendedLengthBytes, SMT
  <2>2. QED
    BY <2>1, OneByteLength, Zenon
<1>3. CASE len >= 254 /\ len < 65536
  <2>1. /\ Len(e) = 3 /\ ~(Len(x) < 1) /\ ~(Len(x) < 3) /\ x[1] = 254
        /\ x[2] = (len \div 256) % 256 /\ x[3] = len % 256
    BY <1>1, <1>3, ExtendedLengthBytes, SMTT(20)
  <2>2. Tail(x)[1] = x[2] /\ Tail(x)[2] = x[3]
    BY <1>1, <2>1, SMT
  <2>3. 256 * ((len \div 256) % 256) + (len % 256) = len
    BY <1>3, SMT
  <2>4. Uint16(Tail(x)) = len
    BY <2>1, <2>2, <2>3, SMT DEF Uint16
  <2>5. DecodeExtendedLength(x)
          = [ok |-> TRUE, length |-> Uint16(Tail(x)), size |-> 3]
    BY <2>1, TwoByteLength, SMT
  <2>6. Len(e) = 3
    BY <2>1
  <2>7. QED
    BY <2>4, <2>5, <2>6, Zenon
<1>4. CASE len >= 65536
  <2>a. /\ Len(e) = 5 /\ ~(Len(x) < 1) /\ ~(Len(x) < 5)
        /\ ~(x[1] < 254) /\ ~(x[1] = 254)
    BY <1>1, <1>4, ExtendedLengthBytes, SMTT(20)
  <2>1. /\ x[2] = (len \div 16777216) % 256 /\ x[3] = (len \div 65536) % 256
        /\ x[4] = (len \div 256) % 256 /\ x[5] = len % 256
    <3>1. /\ e[2] = (len \div 16777216) % 256 /\ e[3] = (len \div 65536) % 256
          /\ e[4] = (len \div 256) % 256 /\ e[5] = len % 256
      BY <1>4, ExtendedLengthBytes, SMT
    <3>2. x[2] = e[2] /\ x[3] = e[3] /\ x[4] = e[4] /\ x[5] = e[5]
      BY <1>1, <2>a, SMT
    <3>3. QED
      BY <3>1, <3>2
  <2>2. /\ Tail(x)[1] = x[2] /\ Tail(x)[2] = x[3]
        /\ Tail(x)[3] = x[4] /\ Tail(x)[4] = x[5]
    BY <1>1, <2>a, SMT
  <2>3. 16777216 * ((len \div 16777216) % 256) + 65536 * ((len \div 65536) % 256)
          + 256 * ((len \div 256) % 256) + (len % 256) = len
    BY <1>4, SMT DEF Uint32Values
  <2>4. Uint32(Tail(x)) = len
    <3>1. PICK a \in Int, b \in Int, c \in Int, d \in Int :
            a = x[2] /\ b = x[3] /\ c = x[4] /\ d = x[5]
      BY <2>1, SMT
    <3>a. PICK t : t = Tail(x)
      OBVIOUS
    <3>b. t[1] = a /\ t[2] = b /\ t[3] = c /\ t[4] = d
      BY <1>1, <2>a, <3>1, <3>a, SMT
    <3>2. Uint32(t) = 16777216 * a + 65536 * b + 256 * c + d
      BY <3>b, Uint32Of, SMTT(20)
    <3>3. QED
      BY <2>1, <2>3, <3>1, <3>2, <3>a, SMT
  <2>5. QED
    BY <2>a, <2>4, FourByteLength, ZenonT(30)
<1>5. QED
  BY <1>2, <1>3, <1>4, SMT

\* DecodeExtendedLength refuses the beginning of what ExtendedLength wrote.
LEMMA ExtendedLengthCut ==
    ASSUME NEW len \in Int, 5 <= len, len < Uint32Values,
           NEW e, e = ExtendedLength(len),
           NEW x, BeginsAs(x, e), Len(x) < Len(e)
    PROVE  DecodeExtendedLength(x) = LengthError
<1>1. x \in Seq(Byte) /\ \A i \in 1..Len(x) : x[i] = e[i]
  BY ExtendedLengthBytes, SMT DEF BeginsAs
<1>2. CASE Len(x) < 1
  BY <1>2, Zenon DEF DecodeExtendedLength
<1>3. CASE ~(Len(x) < 1)
  <2>1. \/ x[1] = 254 /\ ~(x[1] < 254) /\ Len(x) < 3
        \/ ~(x[1] = 254) /\ ~(x[1] < 254) /\ Len(x) < 5
    <3>1. x[1] = e[1] /\ Len(x) \in Nat
      BY <1>1, <1>3, SMT
    <3>2. CASE len < 254
      <4>1. Len(e) = 1
        BY <3>2, ExtendedLengthBytes
      <4>2. QED
        BY <1>3, <3>1, <4>1, SMT
    <3>3. CASE len >= 254 /\ len < 65536
      <4>1. Len(e) = 3 /\ e[1] = 254
        BY <3>3, ExtendedLengthBytes, SMT
      <4>2. QED
        BY <3>1, <4>1, SMT
    <3>4. CASE len >= 65536
      <4>1. Len(e) = 5 /\ e[1] = 255
        BY <3>4, ExtendedLengthBytes, SMT
      <4>2. QED
        BY <3>1, <4>1, SMT
    <3>5. QED
      BY <3>2, <3>3, <3>4, SMT
  <2>2. QED
    BY <1>3, <2>1, Zenon DEF DecodeExtendedLength
<1>4. QED
  BY <1>2, <1>3

\* A tag is refused when there are no bytes, or when the extended length that
\* its first byte announces is refused.
LEMMA TagRefused ==
    ASSUME NEW d, \/ Len(d) < 1
                  \/ /\ ~(Len(d) < 1) /\ ~(d[1] \div 16 = 15) /\ ~(1 = 2)
                     /\ ~(d[1] % 8 = 6) /\ ~(d[1] % 8 = 7) /\ d[1] % 8 = 5
                     /\ DecodeExtendedLength(Drop(d, 1)) = LengthError
    PROVE  DecodeTagNumber(d) = TagError
<1>1. CASE Len(d) < 1
  BY <1>1, Zenon DEF DecodeTagNumber
<1>2. CASE ~(Len(d) < 1)
  <2> DEFINE ext == DecodeExtendedLength(Drop(d, 1))
  <2>1. ~ext.ok
    BY <1>2 DEF LengthError
  <2>2. QED
    BY <1>2, <2>1, Zenon DEF DecodeTagNumber
<1>3. QED
  BY <1>1, <1>2

\* What follows the first byte of a tag begins as its extended length does.
LEMMA AfterFirstByte ==
    ASSUME NEW n \in Int, 0 <= n, n < 15, NEW c \in Int, 0 <= c, c < 2,
           NEW len \in Int, 5 <= len, len < Uint32Values,
           NEW h, h = EncodeTag(n, c, len), NEW e, e = ExtendedLength(len),
           NEW d, BeginsAs(d, h), Len(d) >= 1
    PROVE  /\ d[1] = TagByte(n, c, 5)
           /\ BeginsAs(Drop(d, 1), e) /\ Len(Drop(d, 1)) = Len(d) - 1
           /\ Len(h) = 1 + Len(e) /\ Len(e) \in Nat /\ Len(d) \in Nat
<1>1. /\ e \in Seq(Byte) /\ Len(h) = 1 + Len(e) /\ h[1] = TagByte(n, c, 5)
      /\ \A i \in 1..Len(e) : h[1 + i] = e[i]
  <2>1. 0 <= len
    BY SMT
  <2>2. QED
    BY <2>1, EncodeTagBytes, SMT
<1>2. d \in Seq(Byte) /\ \A i \in 1..Len(d) : i <= Len(h) => d[i] = h[i]
  BY DEF BeginsAs
<1>3. /\ Drop(d, 1) \in Seq(Byte) /\ Len(Drop(d, 1)) = Len(d) - 1
      /\ \A i \in 1..Len(d) - 1 : Drop(d, 1)[i] = d[1 + i]
  BY <1>2, DropBytes, SMT
<1>4. d[1] = h[1]
  BY <1>1, <1>2, SMT
<1>5. ASSUME NEW i \in 1..Len(Drop(d, 1)), i <= Len(e)
      PROVE  Drop(d, 1)[i] = e[i]
  <2>1. 1 + i \in 1..Len(d) /\ 1 + i <= Len(h) /\ i \in 1..Len(e)
    BY <1>1, <1>2, <1>3, <1>5, SMT
  <2>2. Drop(d, 1)[i] = d[1 + i] /\ d[1 + i] = h[1 + i] /\ h[1 + i] = e[i]
    BY <1>1, <1>2, <1>3, <2>1, SMT
  <2>3. QED
    BY <2>2
<1>6. BeginsAs(Drop(d, 1), e)
  BY <1>3, <1>5, Zenon DEF BeginsAs
<1>7. QED
  BY <1>1, <1>2, <1>3, <1>4, <1>6, SMT

\* DecodeTagNumber inverts EncodeTag for a number below 15 and any length,
\* whatever follows the tag.
LEMMA EncodeTagInverse ==
    ASSUME NEW n \in Int, 0 <= n, n < 15, NEW c \in Int, 0 <= c, c < 2,
           NEW len \in Int, 0 <= len, len < Uint32Values,
           NEW h, h = EncodeTag(n, c, len),
           NEW d, BeginsAs(d, h), Len(d) >= Len(h)
    PROVE  DecodeTagNumber(d) = DecodedTag(n, c, len, Len(h))
<1>1. CASE len < 5
  <2>1. Len(h) = 1 /\ h[1] = TagByte(n, c, len) /\ d \in Seq(Byte)
          /\ \A i \in 1..Len(d) : i <= Len(h) => d[i] = h[i]
    BY <1>1, EncodeTagBytes, SMT DEF BeginsAs
  <2>2. d[1] = TagByte(n, c, len) /\ ~(Len(d) < 1)
    BY <2>1, SMT
  <2>3. /\ n = d[1] \div 16 /\ c = (d[1] \div 8) % 2 /\ len = d[1] % 8
        /\ ~(n = 15) /\ ~(1 = 2) /\ ~(len = 6) /\ ~(len = 7) /\ ~(len = 5)
    <3>1. len < 6 /\ ~(len = 5)
      BY <1>1, SMT
    <3>2. QED
      BY <2>2, <3>1, FirstByteFields, SMT
  <2>4. DecodeTagNumber(d) = DecodedTag(n, c, len, 1)
    BY <2>2, <2>3, TagBranches, Zenon
  <2>5. Len(h) = 1
    BY <2>1
  <2>6. QED
    BY <2>4, <2>5, Zenon
<1>2. CASE len >= 5
  <2>1. PICK e : e = ExtendedLength(len)
    OBVIOUS
  <2>2. Len(d) >= 1
    BY <1>2, <2>1, EncodeTagBytes, SMT DEF BeginsAs
  <2>3. /\ d[1] = TagByte(n, c, 5)
        /\ BeginsAs(Drop(d, 1), e) /\ Len(Drop(d, 1)) = Len(d) - 1
        /\ Len(h) = 1 + Len(e) /\ Len(e) \in Nat /\ Len(d) \in Nat
    BY <1>2, <2>1, <2>2, AfterFirstByte, SMT
  <2>4. /\ n = d[1] \div 16 /\ c = (d[1] \div 8) % 2 /\ ~(n = 15) /\ ~(1 = 2)
        /\ ~(d[1] % 8 = 6) /\ ~(d[1] % 8 = 7) /\ d[1] % 8 = 5
        /\ ~(Len(d) < 1)
    <3>1. 5 \in Int /\ 0 <= 5 /\ 5 < 6 /\ ~(Len(d) < 1)
      BY <2>2, <2>3, SMT
    <3>2. QED
      BY <2>3, <3>1, FirstByteFields, SMT
  <2>5. Len(Drop(d, 1)) >= Len(e)
    BY <2>3, SMT
  <2>6. DecodeExtendedLength(Drop(d, 1))
          = [ok |-> TRUE, length |-> len, size |-> Len(e)]
    BY <1>2, <2>1, <2>3, <2>5, ExtendedLengthInverse, SMT
  <2>7. DecodeTagNumber(d) = DecodedTag(n, c, len, 1 + Len(e))
    BY <2>4, <2>6, LongTag, Zenon
  <2>8. QED
    BY <2>3, <2>7, Zenon
<1>3. QED
  BY <1>1, <1>2, SMT

\* DecodeTagNumber refuses the beginning of a tag.
LEMMA EncodeTagCut ==
    ASSUME NEW n \in Int, 0 <= n, n < 15, NEW c \in Int, 0 <= c, c < 2,
           NEW len \in Int, 0 <= len, len < Uint32Values,
           NEW h, h = EncodeTag(n, c, len),
           NEW d, BeginsAs(d, h), Len(d) < Len(h)
    PROVE  DecodeTagNumber(d) = TagError
<1>1. CASE Len(d) < 1
  BY <1>1, TagRefused, Zenon
<1>2. CASE Len(d) >= 1
  <2>1. PICK e : e = ExtendedLength(len)
    OBVIOUS
  <2>2. len >= 5
    <3>1. SUFFICES ASSUME len < 5 PROVE FALSE
      BY SMT
    <3>2. Len(h) = 1
      BY <3>1, EncodeTagBytes, SMT
    <3>3. Len(d) < 1
      BY <3>2, Zenon
    <3>4. Len(d) \in Nat
      BY DEF BeginsAs
    <3>5. QED
      BY <1>2, <3>3, <3>4, SMT
  <2>3. /\ d[1] = TagByte(n, c, 5)
        /\ BeginsAs(Drop(d, 1), e) /\ Len(Drop(d, 1)) = Len(d) - 1
        /\ Len(h) = 1 + Len(e) /\ Len(e) \in Nat /\ Len(d) \in Nat
    BY <1>2, <2>1, <2>2, AfterFirstByte, SMT
  <2>4. /\ ~(d[1] \div 16 = 15) /\ ~(1 = 2) /\ ~(Len(d) < 1)
        /\ ~(d[1] % 8 = 6) /\ ~(d[1] % 8 = 7) /\ d[1] % 8 = 5
    <3>1. 5 \in Int /\ 0 <= 5 /\ 5 < 6 /\ ~(Len(d) < 1)
      BY <1>2, <2>3, SMT
    <3>2. QED
      BY <2>3, <3>1, FirstByteFields, SMT
  <2>5. Len(Drop(d, 1)) < Len(e)
    BY <2>3, SMT
  <2>6. DecodeExtendedLength(Drop(d, 1)) = LengthError
    BY <2>1, <2>2, <2>3, <2>5, ExtendedLengthCut, SMT
  <2>7. QED
    BY <2>4, <2>6, TagRefused, Zenon
<1>3. QED
  BY <1>1, <1>2, SMT DEF BeginsAs

\* h \o p begins as h, and what follows is p.
LEMMA BeginsAsHead ==
    ASSUME NEW h \in Seq(Byte), NEW p \in Seq(Byte), NEW w, w = h \o p
    PROVE  /\ w \in Seq(Byte) /\ Len(w) = Len(h) + Len(p)
           /\ BeginsAs(w, h) /\ Len(w) >= Len(h)
           /\ SubSeq(w, Len(h) + 1, Len(h) + Len(p)) = p
<1>1. /\ w \in Seq(Byte) /\ Len(w) = Len(h) + Len(p)
      /\ \A i \in 1..Len(h) : w[i] = h[i]
  BY SMT
<1>2. BeginsAs(w, h) /\ Len(w) >= Len(h)
  BY <1>1, SMT DEF BeginsAs
<1>3. SubSeq(w, Len(h) + 1, Len(h) + Len(p)) = p
  BY SMT
<1>4. QED
  BY <1>1, <1>2, <1>3

\* The beginning of what begins as h does too.
LEMMA BeginsAsCut ==
    ASSUME NEW h \in Seq(Byte), NEW w, BeginsAs(w, h),
           NEW k \in 0..Len(w) - 1, NEW d, d = SubSeq(w, 1, k)
    PROVE  BeginsAs(d, h) /\ Len(d) = k
<1>1. w \in Seq(Byte) /\ \A i \in 1..Len(w) : i <= Len(h) => w[i] = h[i]
  BY DEF BeginsAs
<1>2. d \in Seq(Byte) /\ Len(d) = k /\ \A i \in 1..k : d[i] = w[i]
  BY <1>1, SMT
<1>3. BeginsAs(d, h)
  BY <1>1, <1>2, SMT DEF BeginsAs
<1>4. QED
  BY <1>2, <1>3

\* A tag has at least one byte.
LEMMA TagNotEmpty ==
    ASSUME NEW n \in Int, 0 <= n, n < 15, NEW c \in Int, 0 <= c, c < 2,
           NEW len \in Int, 0 <= len, len < Uint32Values,
           NEW h, h = EncodeTag(n, c, len)
    PROVE  h \in Seq(Byte) /\ Len(h) >= 1 /\ Len(h) \in Nat
<1>1. CASE len < 5
  BY <1>1, EncodeTagBytes, SMT
<1>2. CASE len >= 5
  BY <1>2, EncodeTagBytes, SMT
<1>3. QED
  BY <1>1, <1>2, SMT

\* w is the tag h and its payload p of len bytes.
IsTagged(n, c, len, p, h, w) ==
    /\ n \in Int /\ 0 <= n /\ n < 15 /\ c \in Int /\ 0 <= c /\ c < 2
    /\ len \in Int /\ 0 <= len /\ len < Uint32Values
    /\ p \in Seq(Byte) /\ Len(p) = len
    /\ h = EncodeTag(n, c, len)
    /\ w = h \o p

\* The tag and the payload come back.
LEMMA TaggedWhole ==
    ASSUME NEW n, NEW c, NEW len, NEW p, NEW h, NEW w,
           IsTagged(n, c, len, p, h, w)
    PROVE  /\ h \in Seq(Byte) /\ w \in Seq(Byte) /\ Len(w) = Len(h) + len
           /\ Len(h) \in Nat /\ Len(h) >= 1
           /\ DecodeTagNumber(w) = DecodedTag(n, c, len, Len(h))
           /\ SubSeq(w, Len(h) + 1, Len(h) + len) = p
<1>1. /\ n \in Int /\ 0 <= n /\ n < 15 /\ c \in Int /\ 0 <= c /\ c < 2
      /\ len \in Int /\ 0 <= len /\ len < Uint32Values
      /\ h = EncodeTag(n, c, len)
  BY Zenon DEF IsTagged
<1>2. p \in Seq(Byte) /\ Len(p) = len /\ w = h \o p
  BY Zenon DEF IsTagged
<1>3. h \in Seq(Byte) /\ Len(h) >= 1 /\ Len(h) \in Nat
  BY <1>1, TagNotEmpty, SMT
<1>4. /\ w \in Seq(Byte) /\ Len(w) = Len(h) + Len(p)
      /\ BeginsAs(w, h) /\ Len(w) >= Len(h)
      /\ SubSeq(w, Len(h) + 1, Len(h) + Len(p)) = p
  BY <1>2, <1>3, BeginsAsHead
<1>5. DecodeTagNumber(w) = DecodedTag(n, c, len, Len(h))
  <2>1. BeginsAs(w, h) /\ Len(w) >= Len(h)
    BY <1>4
  <2>2. QED
    BY <1>1, <2>1, EncodeTagInverse, SMT
<1>6. QED
  BY <1>2, <1>3, <1>4, <1>5

\* Of the beginning of a tag and its payload, the tag is refused, or it asks
\* for more bytes than there are.
LEMMA TaggedCut ==
    ASSUME NEW n, NEW c, NEW len, NEW p, NEW h, NEW w,
           IsTagged(n, c, len, p, h, w),
           NEW k \in 0..Len(w) - 1
    PROVE  \/ DecodeTagNumber(SubSeq(w, 1, k)) = TagError
           \/ /\ DecodeTagNumber(SubSeq(w, 1, k))
                   = DecodedTag(n, c, len, Len(h))
              /\ Len(SubSeq(w, 1, k)) < Len(h) + len
<1>0. PICK d : d = SubSeq(w, 1, k)
  OBVIOUS
<1>1. /\ n \in Int /\ 0 <= n /\ n < 15 /\ c \in Int /\ 0 <= c /\ c < 2
      /\ len \in Int /\ 0 <= len /\ len < Uint32Values
      /\ h = EncodeTag(n, c, len)
  BY Zenon DEF IsTagged
<1>2. p \in Seq(Byte) /\ w = h \o p
  BY Zenon DEF IsTagged
<1>3. h \in Seq(Byte) /\ Len(h) \in Nat /\ Len(w) = Len(h) + len
  BY TaggedWhole
<1>4. BeginsAs(w, h)
  BY <1>2, <1>3, BeginsAsHead
<1>5. BeginsAs(d, h) /\ Len(d) = k
  BY <1>0, <1>3, <1>4, BeginsAsCut, ZenonT(30)
<1>6. BeginsAs(d, h)
  BY <1>5
<1>7. Len(d) < Len(h) + len /\ Len(d) \in Nat
  BY <1>1, <1>3, <1>5, SMT
<1>8. Len(d) < Len(h) => DecodeTagNumber(d) = TagError
  BY <1>1, <1>6, EncodeTagCut, SMT
<1>9. Len(d) >= Len(h) => DecodeTagNumber(d) = DecodedTag(n, c, len, Len(h))
  BY <1>1, <1>6, EncodeTagInverse, SMT
<1>10. Len(d) < Len(h) \/ Len(d) >= Len(h)
  BY <1>3, <1>7, SMT
<1>11. QED
  BY <1>0, <1>7, <1>8, <1>9, <1>10, Zenon

\* DecodeTagNumber inverts EncodeOpeningTag and EncodeClosingTag.
LEMMA MarkerTagInverse ==
    ASSUME NEW n \in Int, 0 <= n, n < 15
    PROVE  /\ DecodeTagNumber(EncodeOpeningTag(n))
                = DecodedTag(n, TagClassContext, Opening, 1)
           /\ DecodeTagNumber(EncodeClosingTag(n))
                = DecodedTag(n, TagClassContext, Closing, 1)
           /\ EncodeOpeningTag(n) \in Seq(Byte) /\ Len(EncodeOpeningTag(n)) = 1
           /\ EncodeClosingTag(n) \in Seq(Byte) /\ Len(EncodeClosingTag(n)) = 1
<1>1. ASSUME NEW low \in {6, 7}, NEW w, w = <<TagByte(n, 1, low)>>
      PROVE  /\ DecodeTagNumber(w)
                  = DecodedTag(n, TagClassContext,
                               IF low = 6 THEN Opening ELSE Closing, 1)
             /\ w \in Seq(Byte) /\ Len(w) = 1
  <2>1. PICK b \in Byte : b = TagByte(n, 1, low)
    BY SMT DEF TagByte, Byte
  <2>2. b \in Int /\ b \div 16 = n /\ (b \div 8) % 2 = 1 /\ b % 8 = low
    BY <2>1, TagByteFields, SMTT(20)
  <2>3. w = <<b>>
    BY <1>1, <2>1
  <2>4. Len(w) = 1 /\ w[1] = b /\ w \in Seq(Byte)
    BY <2>3, SMT
  <2>5. /\ ~(Len(w) < 1) /\ n = w[1] \div 16 /\ ~(n = 15)
        /\ TagClassContext = (w[1] \div 8) % 2 /\ low = w[1] % 8
        /\ ~(1 = 2) /\ ~(7 = 6)
    BY <2>2, <2>4, SMT DEF TagClassContext
  <2>6. CASE low = 6
    BY <2>4, <2>5, <2>6, TagBranches, Zenon
  <2>7. CASE low = 7
    BY <2>4, <2>5, <2>7, TagBranches, Zenon
  <2>8. QED
    BY <2>6, <2>7, Zenon
<1>2. /\ EncodeOpeningTag(n) = <<TagByte(n, 1, 6)>>
      /\ EncodeClosingTag(n) = <<TagByte(n, 1, 7)>>
  BY SMT DEF EncodeOpeningTag, EncodeClosingTag
<1>3. (6 = 6) /\ ~(7 = 6)
  BY SMT
<1>4. QED
  BY <1>1, <1>2, <1>3, Zenon

-----------------------------------------------------------------------------
(***************************************************************************)
(* What the encoders of integers and identifiers emit is bytes.            *)
(***************************************************************************)

\* Two and four bytes of a number.
LEMMA PutBytes ==
    ASSUME NEW v \in Int
    PROVE  /\ PutUint16(v) \in Seq(Byte) /\ Len(PutUint16(v)) = 2
           /\ PutUint32(v) \in Seq(Byte) /\ Len(PutUint32(v)) = 4
           /\ Tail(PutUint32(v)) \in Seq(Byte) /\ Len(Tail(PutUint32(v))) = 3
<1>1. /\ (v \div 16777216) % 256 \in Byte /\ (v \div 65536) % 256 \in Byte
      /\ (v \div 256) % 256 \in Byte /\ v % 256 \in Byte
  BY SMT DEF Byte
<1>2. PICK a \in Byte, b \in Byte, c \in Byte, d \in Byte :
         /\ a = (v \div 16777216) % 256 /\ b = (v \div 65536) % 256
         /\ c = (v \div 256) % 256 /\ d = v % 256
  BY <1>1, SMT
<1>3. PutUint16(v) = <<c, d>> /\ PutUint32(v) = <<a, b, c, d>>
  BY <1>2, SMT DEF PutUint16, PutUint32
<1>4. PICK s, t : s = <<c, d>> /\ t = <<a, b, c, d>>
  OBVIOUS
<1>5. s \in Seq(Byte) /\ Len(s) = 2 /\ t \in Seq(Byte) /\ Len(t) = 4
  BY <1>4, SMT
<1>6. Tail(t) \in Seq(Byte) /\ Len(Tail(t)) = 3
  BY <1>4, SMT
<1>7. QED
  BY <1>3, <1>4, <1>5, <1>6, Zenon

\* EncodeUnsigned emits one to four bytes.
LEMMA UnsignedBytes ==
    ASSUME NEW v \in Nat
    PROVE  EncodeUnsigned(v) \in Seq(Byte) /\ Len(EncodeUnsigned(v)) \in 1..4
<1>1. CASE v < 256
  <2>1. EncodeUnsigned(v) = <<v>> /\ v \in Byte
    BY <1>1, SMT DEF EncodeUnsigned, Byte
  <2>2. QED
    BY <2>1, SMT
<1>2. CASE v >= 256
  <2>1. EncodeUnsigned(v) \in {PutUint16(v), Tail(PutUint32(v)), PutUint32(v)}
    BY <1>2, SMT DEF EncodeUnsigned
  <2>2. v \in Int /\ 2 \in 1..4 /\ 3 \in 1..4 /\ 4 \in 1..4
    BY SMT
  <2>3. QED
    BY <2>1, <2>2, PutBytes, Zenon
<1>3. QED
  BY <1>1, <1>2, SMT

\* EncodeSigned emits one to four bytes.
LEMMA SignedBytes ==
    ASSUME NEW v \in Int
    PROVE  EncodeSigned(v) \in Seq(Byte) /\ Len(EncodeSigned(v)) \in 1..4
<1>1. CASE v >= -128 /\ v <= 127
  <2>1. EncodeSigned(v) = <<v % 256>> /\ v % 256 \in Byte
    BY <1>1, ByteOf, SMT DEF EncodeSigned
  <2>2. QED
    BY <2>1, SMT
<1>2. CASE ~(v >= -128 /\ v <= 127)
  <2>1. EncodeSigned(v) \in {PutUint16(v), Tail(PutUint32(v)), PutUint32(v)}
    BY <1>2, SMT DEF EncodeSigned
  <2>2. 2 \in 1..4 /\ 3 \in 1..4 /\ 4 \in 1..4
    BY SMT
  <2>3. QED
    BY <2>1, <2>2, PutBytes, Zenon
<1>3. QED
  BY <1>1, <1>2

\* Two bytes and a number of sixteen bits.
LEMMA FourBytes ==
    ASSUME NEW a \in Byte, NEW b \in Byte, NEW n \in Int
    PROVE  /\ <<a, b>> \o PutUint16(n) \in Seq(Byte)
           /\ Len(<<a, b>> \o PutUint16(n)) = 4
<1>1. PICK r : r = <<a, b>>
  OBVIOUS
<1>2. r \in Seq(Byte) /\ Len(r) = 2
  BY <1>1, SMT
<1>3. PICK s : s = PutUint16(n)
  OBVIOUS
<1>4. s \in Seq(Byte) /\ Len(s) = 2
  BY <1>3, PutBytes, SMT
<1>5. r \o s \in Seq(Byte) /\ Len(r \o s) = 4
  <2>1. r \o s \in Seq(Byte) /\ Len(r \o s) = Len(r) + Len(s)
    BY <1>2, <1>4, BeginsAsHead
  <2>2. QED
    BY <1>2, <1>4, <2>1, SMT
<1>6. QED
  BY <1>1, <1>3, <1>5, Zenon

\* EncodeObjectIdentifier emits four bytes.
LEMMA ObjectIdentifierBytes ==
    ASSUME NEW t \in Int, 0 <= t, t < 1024,
           NEW n \in Int, 0 <= n, n < 4194304
    PROVE  LET e == EncodeObjectIdentifier([type |-> t, instance |-> n])
           IN  e \in Seq(Byte) /\ Len(e) = 4
<1> DEFINE oid == [type |-> t, instance |-> n]
           e == EncodeObjectIdentifier(oid)
           a == t \div 4
           b == 64 * (t % 4) + n \div 65536
<1>1. oid.type % 1024 = t /\ oid.instance % 4194304 = n
  BY SMT
<1>2. e = <<a, b>> \o PutUint16(n)
  BY <1>1, SMT DEF EncodeObjectIdentifier
<1>3. a \in Byte /\ b \in Byte
  BY SMT DEF Byte
<1> HIDE DEF e, a, b
<1>4. e \in Seq(Byte) /\ Len(e) = 4
  BY <1>2, <1>3, FourBytes, SMT
<1>5. QED
  BY <1>4, SMT DEF e

-----------------------------------------------------------------------------
(***************************************************************************)
(* The beginning of a sequence of bytes, and a tag at its head.            *)
(***************************************************************************)

\* x is a beginning of w.
Begins(x, w) ==
    /\ x \in Seq(Byte) /\ w \in Seq(Byte)
    /\ Len(x) <= Len(w)
    /\ \A i \in 1..Len(x) : x[i] = w[i]

\* A datagram cut at its end is a beginning of it.
LEMMA CutBegins ==
    ASSUME NEW w \in Seq(Byte), NEW k \in 0..Len(w)
    PROVE  Begins(SubSeq(w, 1, k), w) /\ Len(SubSeq(w, 1, k)) = k
BY SMT DEF Begins

\* A beginning is what SubSeq cuts.
LEMMA BeginsIsCut ==
    ASSUME NEW x, NEW w, Begins(x, w)
    PROVE  /\ x = SubSeq(w, 1, Len(x)) /\ Len(x) \in 0..Len(w)
           /\ Len(x) = Len(w) => x = w
<1>1. /\ x \in Seq(Byte) /\ w \in Seq(Byte) /\ Len(x) <= Len(w)
      /\ \A i \in 1..Len(x) : x[i] = w[i]
  BY Zenon DEF Begins
<1>2. Len(x) \in 0..Len(w)
  BY <1>1, SMT
<1>3. x = SubSeq(w, 1, Len(x))
  BY <1>1, SMT
<1>4. Len(x) = Len(w) => x = w
  BY <1>1, SameElements
<1>5. QED
  BY <1>2, <1>3, <1>4

\* The bytes of two sequences one after the other.
LEMMA Appended ==
    ASSUME NEW h \in Seq(Byte), NEW b \in Seq(Byte)
    PROVE  /\ h \o b \in Seq(Byte) /\ Len(h \o b) = Len(h) + Len(b)
           /\ \A i \in 1..Len(h) : (h \o b)[i] = h[i]
           /\ \A i \in 1..Len(b) : (h \o b)[Len(h) + i] = b[i]
BY SMT

\* What is left of a beginning of h \o b after h, as after each header.
LEMMA BeginsAfter ==
    ASSUME NEW h \in Seq(Byte), NEW b \in Seq(Byte),
           NEW x, Begins(x, h \o b), Len(x) >= Len(h)
    PROVE  /\ Begins(Drop(x, Len(h)), b)
           /\ Len(Drop(x, Len(h))) = Len(x) - Len(h)
<1>1. /\ x \in Seq(Byte) /\ Len(x) <= Len(h \o b)
      /\ \A i \in 1..Len(x) : x[i] = (h \o b)[i]
  BY Zenon DEF Begins
<1>2. /\ Len(h \o b) = Len(h) + Len(b)
      /\ \A i \in 1..Len(b) : (h \o b)[Len(h) + i] = b[i]
  BY Appended
<1>3. /\ Drop(x, Len(h)) \in Seq(Byte)
      /\ Len(Drop(x, Len(h))) = Len(x) - Len(h)
      /\ \A i \in 1..Len(x) - Len(h) : Drop(x, Len(h))[i] = x[Len(h) + i]
  BY <1>1, DropBytes
<1>4. Len(h) \in Nat /\ Len(b) \in Nat /\ Len(x) \in Nat
  BY <1>1
<1>5. \A i \in 1..Len(x) - Len(h) : Drop(x, Len(h))[i] = b[i]
  <2>1. TAKE i \in 1..Len(x) - Len(h)
  <2>2. i \in 1..Len(b) /\ Len(h) + i \in 1..Len(x)
    BY <1>1, <1>2, <1>4, SMT
  <2>3. QED
    BY <1>1, <1>2, <1>3, <2>1, <2>2, Zenon
<1>6. Len(x) - Len(h) <= Len(b)
  BY <1>1, <1>2, <1>4, SMT
<1>7. QED
  BY <1>3, <1>5, <1>6, Zenon DEF Begins

\* A beginning of h \o b has the bytes of h, as far as it goes.
LEMMA BeginsWith ==
    ASSUME NEW h \in Seq(Byte), NEW b \in Seq(Byte), NEW x, Begins(x, h \o b)
    PROVE  /\ BeginsAs(x, h) /\ x \in Seq(Byte) /\ Len(x) \in Nat
           /\ \A i \in 1..Len(h) : i <= Len(x) => x[i] = h[i]
<1>1. /\ x \in Seq(Byte) /\ Len(x) <= Len(h \o b)
      /\ \A i \in 1..Len(x) : x[i] = (h \o b)[i]
  BY Zenon DEF Begins
<1>2. \A i \in 1..Len(h) : (h \o b)[i] = h[i]
  BY Appended
<1>3. Len(h) \in Nat /\ Len(x) \in Nat
  BY <1>1
<1>4. \A i \in 1..Len(h) : i <= Len(x) => x[i] = h[i]
  BY <1>1, <1>2, <1>3, SMT
<1>5. \A i \in 1..Len(x) : i <= Len(h) => x[i] = h[i]
  BY <1>3, <1>4, SMT
<1>6. QED
  BY <1>1, <1>3, <1>4, <1>5, Zenon DEF BeginsAs

\* What w starts is a beginning of itself, and ends with what follows w.
LEMMA WholeBegins ==
    ASSUME NEW w \in Seq(Byte), NEW b \in Seq(Byte), NEW d, d = w \o b
    PROVE  /\ d \in Seq(Byte) /\ Len(d) = Len(w) + Len(b) /\ Len(d) >= Len(w)
           /\ Begins(d, w \o b) /\ Drop(d, Len(w)) = b
<1>1. d \in Seq(Byte) /\ Len(d) = Len(w) + Len(b)
  BY Appended
<1>2. Len(d) >= Len(w)
  BY <1>1, SMT
<1>3. Begins(d, w \o b)
  BY <1>1 DEF Begins
<1>4. Begins(Drop(d, Len(w)), b) /\ Len(Drop(d, Len(w))) = Len(d) - Len(w)
  BY <1>2, <1>3, BeginsAfter
<1>5. Len(Drop(d, Len(w))) = Len(b)
  BY <1>1, <1>4, SMT
<1>6. Drop(d, Len(w)) = b
  BY <1>4, <1>5, BeginsIsCut, Zenon
<1>7. QED
  BY <1>1, <1>2, <1>3, <1>6

\* Sequences are joined in any order.
LEMMA Associative ==
    ASSUME NEW a \in Seq(Byte), NEW b \in Seq(Byte), NEW c \in Seq(Byte)
    PROVE  (a \o b) \o c = a \o (b \o c)
BY SMTT(30)

\* DecodeTagNumber read a tag of length len with its payload p.
TagIs(x, n, c, len, p, size) ==
    /\ DecodeTagNumber(x) = DecodedTag(n, c, len, size)
    /\ size \in Nat /\ size >= 1 /\ size + len <= Len(x)
    /\ SubSeq(x, size + 1, size + len) = p

\* DecodeTagNumber refused a tag, or the tag asks for more than there is.
TagLost(x, n, c, len, size) ==
    \/ DecodeTagNumber(x) = TagError
    \/ /\ DecodeTagNumber(x) = DecodedTag(n, c, len, size)
       /\ Len(x) < size + len

\* A tag and its payload are found whole at the head of what follows, or the cut
\* shows in them.
LEMMA TagRead ==
    ASSUME NEW n, NEW c, NEW len, NEW p, NEW h, NEW w,
           IsTagged(n, c, len, p, h, w),
           NEW b \in Seq(Byte), NEW x, Begins(x, w \o b)
    PROVE  /\ Len(x) < Len(w) => TagLost(x, n, c, len, Len(h))
           /\ Len(x) >= Len(w) => TagIs(x, n, c, len, p, Len(h))
<1>1. /\ n \in Int /\ 0 <= n /\ n < 15 /\ c \in Int /\ 0 <= c /\ c < 2
      /\ len \in Int /\ 0 <= len /\ len < Uint32Values
      /\ h = EncodeTag(n, c, len)
  BY Zenon DEF IsTagged
<1>2. p \in Seq(Byte) /\ Len(p) = len /\ w = h \o p
  BY Zenon DEF IsTagged
<1>3. /\ h \in Seq(Byte) /\ w \in Seq(Byte) /\ Len(w) = Len(h) + len
      /\ Len(h) \in Nat /\ Len(h) >= 1
  BY TaggedWhole, SMT
<1>4. /\ x \in Seq(Byte) /\ Len(x) \in Nat
      /\ \A i \in 1..Len(w) : i <= Len(x) => x[i] = w[i]
  BY <1>3, BeginsWith
<1>5. /\ \A i \in 1..Len(h) : w[i] = h[i]
      /\ \A i \in 1..len : w[Len(h) + i] = p[i]
  <2>1. /\ \A i \in 1..Len(h) : (h \o p)[i] = h[i]
        /\ \A i \in 1..Len(p) : (h \o p)[Len(h) + i] = p[i]
    BY <1>2, <1>3, Appended
  <2>2. QED
    BY <1>2, <2>1, Zenon
<1>6. BeginsAs(x, h)
  <2>1. \A i \in 1..Len(x) : i <= Len(h) => x[i] = h[i]
    <3>1. TAKE i \in 1..Len(x)
    <3>2. HAVE i <= Len(h)
    <3>3. i \in 1..Len(h) /\ i \in 1..Len(w) /\ i <= Len(x)
      BY <1>1, <1>3, <1>4, <3>1, <3>2, SMT
    <3>4. QED
      BY <1>4, <1>5, <3>3, Zenon
  <2>2. QED
    BY <1>4, <2>1, Zenon DEF BeginsAs
<1>7. Len(x) < Len(h) => DecodeTagNumber(x) = TagError
  BY <1>1, <1>6, EncodeTagCut, SMT
<1>8. Len(x) >= Len(h) => DecodeTagNumber(x) = DecodedTag(n, c, len, Len(h))
  BY <1>1, <1>6, EncodeTagInverse, SMT
<1>9. Len(x) < Len(h) \/ Len(x) >= Len(h)
  BY <1>3, <1>4, SMT
<1>10. Len(x) < Len(w) => TagLost(x, n, c, len, Len(h))
  BY <1>3, <1>7, <1>8, <1>9, Zenon DEF TagLost
<1>11. ASSUME Len(x) >= Len(w)
       PROVE  TagIs(x, n, c, len, p, Len(h))
  <2>1. Len(x) >= Len(h) /\ Len(h) + len <= Len(x)
    BY <1>1, <1>3, <1>4, <1>11, SMT
  <2>2. PICK k \in Nat : k = Len(h)
    BY <1>3
  <2>3. \A i \in 1..len : x[k + i] = p[i]
    <3>1. TAKE i \in 1..len
    <3>2. k + i \in 1..Len(w) /\ k + i <= Len(x)
      BY <1>1, <1>3, <1>4, <1>11, <2>2, <3>1, SMT
    <3>3. QED
      BY <1>4, <1>5, <2>2, <3>1, <3>2, Zenon
  <2>4. SubSeq(x, k + 1, k + len) = p
    <3>1. len \in Nat /\ k + len <= Len(x) /\ k + len \in Nat
      BY <1>1, <2>1, <2>2, SMT
    <3>2. PICK q : q = SubSeq(x, k + 1, k + len)
      BY Zenon
    <3>3. /\ q \in Seq(Byte) /\ Len(q) = len
          /\ \A i \in 1..len : q[i] = x[k + i]
      <4>1. q \in Seq(Byte)
        BY <1>4, <3>1, <3>2, SMT
      <4>2. Len(q) = len
        BY <1>4, <3>1, <3>2, SMT
      <4>3. \A i \in 1..len : q[i] = x[k + i]
        BY <1>4, <3>1, <3>2, SMT
      <4>4. QED
        BY <4>1, <4>2, <4>3
    <3>4. q = p
      BY <1>2, <2>3, <3>3, SameElements, Zenon
    <3>5. QED
      BY <3>2, <3>4
  <2>5. QED
    BY <1>3, <1>8, <2>1, <2>2, <2>4, Zenon DEF TagIs
<1>12. QED
  BY <1>10, <1>11

\* readUnsignedTag returns the number that was tagged and what follows it, or an
\* error when the element is cut.
LEMMA UnsignedTagRead ==
    ASSUME NEW n \in Int, 0 <= n, n < 15, NEW v \in Nat, v < Uint32Values,
           NEW w, w = EncodeApplicationTag(n, EncodeUnsigned(v)),
           NEW b \in Seq(Byte), NEW x, Begins(x, w \o b)
    PROVE  /\ w \in Seq(Byte)
           /\ Len(x) < Len(w) => ~ReadUnsignedTag(x).ok
           /\ Len(x) >= Len(w) => /\ ReadUnsignedTag(x).ok
                                  /\ ReadUnsignedTag(x).value = v
                                  /\ ReadUnsignedTag(x).rest = Drop(x, Len(w))
<1>1. PICK u : u = EncodeUnsigned(v)
  OBVIOUS
<1>2. u \in Seq(Byte) /\ Len(u) \in 1..4
  BY <1>1, UnsignedBytes
<1>3. DecodeUnsigned(u) = v
  BY <1>1, UnsignedRoundTrip, SMT
<1>4. PICK len \in 1..4 : len = Len(u)
  BY <1>2
<1>5. PICK h : h = EncodeTag(n, 0, len)
  OBVIOUS
<1>6. IsTagged(n, 0, len, u, h, w)
  <2>1. w = h \o u
    BY <1>1, <1>4, <1>5, Zenon DEF EncodeApplicationTag, TagClassApplication
  <2>2. len \in Int /\ 0 <= len /\ len < Uint32Values
    BY SMT DEF Uint32Values
  <2>3. 0 \in Int /\ 0 <= 0 /\ 0 < 2
    BY SMT
  <2>4. QED
    BY <1>2, <1>4, <1>5, <2>1, <2>2, <2>3, Zenon DEF IsTagged
<1>7. w \in Seq(Byte) /\ Len(w) = Len(h) + len /\ Len(h) \in Nat
  BY <1>6, TaggedWhole, SMT
<1>8. x \in Seq(Byte) /\ Len(x) \in Nat
  BY <1>7, BeginsWith
<1>9. ASSUME Len(x) < Len(w)
      PROVE  ~ReadUnsignedTag(x).ok
  <2>1. TagLost(x, n, 0, len, Len(h))
    BY <1>6, <1>9, TagRead, SMT
  <2>2. CASE DecodeTagNumber(x) = TagError
    <3>1. ~DecodeTagNumber(x).ok
      BY <2>2, SMT DEF TagError
    <3>2. ReadUnsignedTag(x) = [ok |-> FALSE, value |-> 0, rest |-> <<>>]
      BY <3>1, Zenon DEF ReadUnsignedTag
    <3>3. QED
      BY <3>2, SMT
  <2>3. CASE /\ DecodeTagNumber(x) = DecodedTag(n, 0, len, Len(h))
             /\ Len(x) < Len(h) + len
    <3>1. /\ DecodeTagNumber(x).header = Len(h)
          /\ DecodeTagNumber(x).length = len
      BY <2>3, SMT DEF DecodedTag
    <3>2. Len(h) + len > Len(x)
      BY <1>7, <1>8, <2>3, SMT
    <3>3. ReadUnsignedTag(x) = [ok |-> FALSE, value |-> 0, rest |-> <<>>]
      BY <3>1, <3>2, Zenon DEF ReadUnsignedTag
    <3>4. QED
      BY <3>3, SMT
  <2>4. QED
    BY <2>1, <2>2, <2>3, Zenon DEF TagLost
<1>10. ASSUME Len(x) >= Len(w)
       PROVE  /\ ReadUnsignedTag(x).ok
              /\ ReadUnsignedTag(x).value = v
              /\ ReadUnsignedTag(x).rest = Drop(x, Len(w))
  <2>1. TagIs(x, n, 0, len, u, Len(h))
    BY <1>6, <1>10, TagRead, SMT
  <2>2. /\ DecodeTagNumber(x) = DecodedTag(n, 0, len, Len(h))
        /\ Len(h) + len <= Len(x)
        /\ SubSeq(x, Len(h) + 1, Len(h) + len) = u
    BY <2>1, Zenon DEF TagIs
  <2>3. /\ DecodeTagNumber(x).ok
        /\ DecodeTagNumber(x).header = Len(h)
        /\ DecodeTagNumber(x).length = len
    BY <2>2, SMT DEF DecodedTag
  <2>4. ~(Len(h) + len > Len(x)) /\ ~(len < 0)
    BY <1>7, <1>8, <2>2, SMT
  <2>5. ReadUnsignedTag(x)
          = [ok |-> TRUE, rest |-> Drop(x, Len(h) + len),
             value |-> DecodeUnsigned(SubSeq(x, Len(h) + 1, Len(h) + len))]
    BY <2>3, <2>4, Zenon DEF ReadUnsignedTag
  <2>6. ReadUnsignedTag(x)
          = [ok |-> TRUE, rest |-> Drop(x, Len(w)), value |-> v]
    BY <1>3, <1>7, <2>2, <2>5, Zenon
  <2>7. QED
    BY <2>6, SMT
<1>11. QED
  BY <1>7, <1>9, <1>10

\* DecodeObjectIdentifier reads four bytes, whatever follows them.
LEMMA FourBytesRead ==
    ASSUME NEW p \in Seq(Byte), Len(p) = 4, NEW z \in Seq(Byte), Len(z) >= 4,
           \A i \in 1..4 : z[i] = p[i]
    PROVE  DecodeObjectIdentifier(z) = DecodeObjectIdentifier(p)
<1>1. z[1] = p[1] /\ z[2] = p[2] /\ z[3] = p[3] /\ z[4] = p[4]
  BY SMT
<1>2. 2 \in Nat /\ 2 <= Len(z) /\ 2 <= Len(p)
  BY SMT
<1>3. \A q \in Seq(Byte) : Len(q) >= 4 =>
        Drop(q, 2)[1] = q[3] /\ Drop(q, 2)[2] = q[4]
  BY SMT DEF Drop
<1>4. Len(p) >= 4
  BY SMT
<1>5. Uint16(Drop(z, 2)) = Uint16(Drop(p, 2))
  BY <1>1, <1>3, <1>4, Zenon DEF Uint16
<1>6. QED
  BY <1>1, <1>5, SMT DEF DecodeObjectIdentifier

-----------------------------------------------------------------------------
(***************************************************************************)
(* One tagged value.                                                       *)
(***************************************************************************)

\* decodePropertyValue on a tag that is refused, that asks for more than there
\* is, and that is followed by its payload.
LEMMA ValueBranches ==
    ASSUME NEW d, NEW n, NEW len, NEW h, ~(n = TagNull), ~(n = TagBoolean),
           ~(len = Closing), ~(len < 0)
    PROVE  /\ DecodeTagNumber(d) = TagError
                => DecodePropertyValue(d) = DecodeFails
           /\ DecodeTagNumber(d) = DecodedTag(n, TagClassApplication, len, h)
                /\ Len(d) < h + len
              => DecodePropertyValue(d) = DecodeFails
           /\ DecodeTagNumber(d) = DecodedTag(n, TagClassApplication, len, h)
                /\ ~(Len(d) < h + len)
              => DecodePropertyValue(d)
                   = DecodePayload(n, SubSeq(d, h + 1, h + len))
<1>1. ASSUME DecodeTagNumber(d) = TagError
      PROVE  DecodePropertyValue(d) = DecodeFails
  <2>1. ~TagError.ok
    BY SMT DEF TagError
  <2>2. QED
    BY <1>1, <2>1, Zenon DEF DecodePropertyValue
<1>2. ASSUME DecodeTagNumber(d) = DecodedTag(n, TagClassApplication, len, h)
      PROVE  DecodePropertyValue(d)
               = IF Len(d) < h + len THEN DecodeFails
                 ELSE DecodePayload(n, SubSeq(d, h + 1, h + len))
  <2>1. PICK tag : tag = DecodedTag(n, TagClassApplication, len, h)
    OBVIOUS
  <2>2. /\ tag.ok /\ tag.number = n /\ tag.class = TagClassApplication
        /\ tag.length = len /\ tag.header = h
    BY <2>1, Zenon DEF DecodedTag
  <2>3. DecodeTagNumber(d) = tag
    BY <1>2, <2>1, Zenon
  <2>4. QED
    BY <2>2, <2>3, Zenon DEF DecodePropertyValue
<1>3. QED
  BY <1>1, <1>2, Zenon

\* How far the first value in d goes: Null and Boolean have no payload.
ValueEnd(d) ==
    DecodeTagNumber(d).header
        + IF DecodeTagNumber(d).number \in {TagNull, TagBoolean} THEN 0
          ELSE DecodeTagNumber(d).length

\* In d the first value is value, and it takes size bytes.
FirstIs(d, value, size) ==
    DecodePropertyValue(d) = Decoded(value) /\ ValueEnd(d) = size

\* The bytes w transmit value: it is decoded from them, whatever follows them,
\* and from no beginning of them.
Transmits(w, value) ==
    /\ w \in Seq(Byte) /\ Len(w) >= 1
    /\ DecodePropertyValue(w) = Decoded(value)
    /\ \A k \in 0..Len(w) - 1 : ~DecodePropertyValue(SubSeq(w, 1, k)).ok
    /\ \A b \in Seq(Byte) : FirstIs(w \o b, value, Len(w))

\* A value is transmitted when its payload decodes to it.
LEMMA TaggedTransmits ==
    ASSUME NEW n \in 2..14, NEW p \in Seq(Byte), Len(p) < Uint32Values,
           NEW value, DecodePayload(n, p) = Decoded(value)
    PROVE  Transmits(EncodeApplicationTag(n, p), value)
<1>1. /\ n \in Int /\ 0 <= n /\ n < 15 /\ 0 \in Int /\ 0 <= 0 /\ 0 < 2
      /\ ~(n = TagNull) /\ ~(n = TagBoolean)
  BY SMT DEF TagNull, TagBoolean
<1>2. PICK len \in Int : len = Len(p) /\ 0 <= len /\ len < Uint32Values
  BY SMT
<1>3. ~(len = Closing) /\ ~(len < 0)
  BY <1>2, SMT DEF Closing
<1>4. PICK h : h = EncodeTag(n, 0, len)
  OBVIOUS
<1>5. PICK w : w = h \o p
  BY Zenon
<1>6. w = EncodeApplicationTag(n, p)
  BY <1>2, <1>4, <1>5, Zenon DEF EncodeApplicationTag, TagClassApplication
<1> IsTagged(n, 0, len, p, h, w)
  BY <1>1, <1>2, <1>4, <1>5, Zenon DEF IsTagged
<1>7. /\ w \in Seq(Byte) /\ Len(w) = Len(h) + len
      /\ DecodeTagNumber(w) = DecodedTag(n, 0, len, Len(h))
      /\ SubSeq(w, Len(h) + 1, Len(h) + len) = p /\ Len(h) \in Nat
      /\ Len(h) >= 1
  BY TaggedWhole
<1>8. DecodePropertyValue(w) = Decoded(value)
  <2>1. ~(Len(w) < Len(h) + len)
    BY <1>2, <1>7, SMT
  <2>2. DecodePropertyValue(w) = DecodePayload(n, p)
    BY <1>1, <1>3, <1>7, <2>1, ValueBranches, Zenon DEF TagClassApplication
  <2>3. QED
    BY <2>2
<1>9. ASSUME NEW k \in 0..Len(w) - 1
      PROVE  ~DecodePropertyValue(SubSeq(w, 1, k)).ok
  <2>1. PICK d : d = SubSeq(w, 1, k)
    BY Zenon
  <2>2. \/ DecodeTagNumber(d) = TagError
        \/ /\ DecodeTagNumber(d) = DecodedTag(n, 0, len, Len(h))
           /\ Len(d) < Len(h) + len
    BY <2>1, TaggedCut
  <2>3. DecodePropertyValue(d) = DecodeFails
    BY <1>1, <1>3, <2>2, ValueBranches, Zenon DEF TagClassApplication
  <2>4. ~DecodeFails.ok
    BY SMT DEF DecodeFails
  <2>5. QED
    BY <2>1, <2>3, <2>4
<1>10. ASSUME NEW b \in Seq(Byte)
       PROVE  FirstIs(w \o b, value, Len(w))
  <2>1. PICK d : d = w \o b
    BY Zenon
  <2>2. d \in Seq(Byte) /\ Len(d) >= Len(w) /\ Begins(d, w \o b)
    BY <1>7, <2>1, WholeBegins
  <2>3. TagIs(d, n, 0, len, p, Len(h))
    BY <2>2, TagRead, Zenon
  <2>4. /\ DecodeTagNumber(d) = DecodedTag(n, 0, len, Len(h))
        /\ SubSeq(d, Len(h) + 1, Len(h) + len) = p
        /\ Len(h) + len <= Len(d)
    BY <2>3, Zenon DEF TagIs
  <2>5. ~(Len(d) < Len(h) + len)
    BY <1>2, <1>7, <2>2, <2>4, SMT
  <2>6. DecodePropertyValue(d) = Decoded(value)
    <3>1. DecodePropertyValue(d) = DecodePayload(n, p)
      BY <1>1, <1>3, <2>4, <2>5, ValueBranches, Zenon DEF TagClassApplication
    <3>2. QED
      BY <3>1
  <2>7. ValueEnd(d) = Len(w)
    <3>1. PICK tag : tag = DecodedTag(n, 0, len, Len(h))
      OBVIOUS
    <3>2. tag.number = n /\ tag.length = len /\ tag.header = Len(h)
      BY <3>1, Zenon DEF DecodedTag
    <3>3. ValueEnd(d) = Len(h) + len
      BY <1>1, <2>4, <3>1, <3>2, Zenon DEF ValueEnd
    <3>4. QED
      BY <1>7, <3>3
  <2>8. QED
    BY <2>1, <2>6, <2>7, Zenon DEF FirstIs
<1>11. Len(w) >= 1
  BY <1>2, <1>7, SMT
<1>12. QED
  BY <1>6, <1>7, <1>8, <1>9, <1>10, <1>11, Zenon DEF Transmits

\* The branches of decodePropertyValue's switch on the tag number.
LEMMA PayloadBranches ==
    ASSUME NEW p
    PROVE  /\ \A n \in {TagUnsignedInt, TagEnumerated} :
                  DecodePayload(n, p)
                    = Decoded(Value("uint32", <<DecodeUnsigned(p)>>))
           /\ DecodePayload(TagSignedInt, p)
                = Decoded(Value("int32", <<DecodeSigned(p)>>))
           /\ Len(p) = 4 =>
                DecodePayload(TagReal, p) = Decoded(Value("float32", p))
           /\ Len(p) = 8 =>
                DecodePayload(TagDouble, p) = Decoded(Value("float64", p))
           /\ DecodePayload(TagCharacterString, p)
                = Decoded(Value("string", DecodeCharacterString(p)))
           /\ DecodePayload(TagBitString, p) = DecodeBitString(p)
           /\ Len(p) = 4 =>
                DecodePayload(TagDate, p) = Decoded(Value("Date", DecodeDate(p)))
           /\ Len(p) = 4 =>
                DecodePayload(TagTime, p) = Decoded(Value("Time", p))
           /\ Len(p) = 4 =>
                DecodePayload(TagObjectID, p)
                  = Decoded(Value("ObjectIdentifier",
                                  <<DecodeObjectIdentifier(p).type,
                                    DecodeObjectIdentifier(p).instance>>))
<1>1. \A n \in {TagUnsignedInt, TagSignedInt, TagEnumerated,
                TagCharacterString, TagBitString} : n \notin DOMAIN FixedLength
  BY SMT DEF FixedLength, TagUnsignedInt, TagSignedInt, TagEnumerated,
             TagCharacterString, TagBitString, TagReal, TagDouble, TagDate,
             TagTime, TagObjectID
<1>2. /\ \A n \in {TagReal, TagDate, TagTime, TagObjectID} : FixedLength[n] = 4
      /\ FixedLength[TagDouble] = 8
  BY SMT DEF FixedLength, TagReal, TagDouble, TagDate, TagTime, TagObjectID
<1> USE DEF TagUnsignedInt, TagSignedInt, TagEnumerated, TagCharacterString,
            TagBitString, TagReal, TagDouble, TagDate, TagTime, TagObjectID
<1>3. ASSUME NEW n \in {TagUnsignedInt, TagEnumerated}
      PROVE  DecodePayload(n, p)
               = Decoded(Value("uint32", <<DecodeUnsigned(p)>>))
  BY <1>1, SMT DEF DecodePayload
<1>4. DecodePayload(TagSignedInt, p)
        = Decoded(Value("int32", <<DecodeSigned(p)>>))
  BY <1>1, SMT DEF DecodePayload
<1>5. Len(p) = 4 => DecodePayload(TagReal, p) = Decoded(Value("float32", p))
  BY <1>2, SMT DEF DecodePayload
<1>6. Len(p) = 8 => DecodePayload(TagDouble, p) = Decoded(Value("float64", p))
  BY <1>2, SMT DEF DecodePayload
<1>7. DecodePayload(TagCharacterString, p)
        = Decoded(Value("string", DecodeCharacterString(p)))
  BY <1>1, SMT DEF DecodePayload
<1>8. DecodePayload(TagBitString, p) = DecodeBitString(p)
  BY <1>1, SMT DEF DecodePayload
<1>9. Len(p) = 4 =>
        DecodePayload(TagDate, p) = Decoded(Value("Date", DecodeDate(p)))
  BY <1>2, SMT DEF DecodePayload
<1>10. Len(p) = 4 => DecodePayload(TagTime, p) = Decoded(Value("Time", p))
  BY <1>2, SMT DEF DecodePayload
<1>11. Len(p) = 4 =>
         DecodePayload(TagObjectID, p)
           = Decoded(Value("ObjectIdentifier",
                           <<DecodeObjectIdentifier(p).type,
                             DecodeObjectIdentifier(p).instance>>))
  BY <1>2, SMT DEF DecodePayload
<1>12. QED
  BY <1>3, <1>4, <1>5, <1>6, <1>7, <1>8, <1>9, <1>10, <1>11

\* The numbers of 32 bits, and their ranges.
LEMMA NumberRanges ==
    /\ \A v \in Int : Uint32Number(v) => 0 <= v /\ v < Uint32Values
    /\ \A v \in Int : Int32Number(v) => -2147483648 <= v /\ v < 2147483648
<1>1. ASSUME NEW v \in Int, Uint32Number(v)
      PROVE  0 <= v /\ v < Uint32Values
  <2>1. v \div 65536 < 65536 /\ 0 <= v
    BY <1>1, SMT DEF Uint32Number
  <2>2. QED
    BY <2>1, SMT DEF Uint32Values
<1>2. ASSUME NEW v \in Int, Int32Number(v)
      PROVE  -2147483648 <= v /\ v < 2147483648
  <2>1. v \div 65536 >= -32768 /\ v \div 65536 < 32768
    BY <1>2, SMT DEF Int32Number
  <2>2. QED
    BY <2>1, SMT
<1>3. QED
  BY <1>1, <1>2, SMT

\* The lengths of their encodings are small.
LEMMA ShortLength == \A len \in 1..4 : len < Uint32Values
BY SMT DEF Uint32Values

\* Integers are transmitted: an unsigned one, and one under the tag Enumerated.
LEMMA UnsignedTransmits ==
    ASSUME NEW v \in Int, 0 <= v, v < Uint32Values,
           NEW n \in {TagUnsignedInt, TagEnumerated}
    PROVE  Transmits(EncodeApplicationTag(n, EncodeUnsigned(v)),
                     Value("uint32", <<v>>))
<1>1. PICK p : p = EncodeUnsigned(v)
  OBVIOUS
<1>2. p \in Seq(Byte) /\ Len(p) \in 1..4
  BY <1>1, UnsignedBytes, SMT
<1>3. Len(p) < Uint32Values /\ n \in 2..14
  <2>1. n \in 2..14
    BY SMT DEF TagUnsignedInt, TagEnumerated
  <2>2. Len(p) < Uint32Values
    BY <1>2, ShortLength, Zenon
  <2>3. QED
    BY <2>1, <2>2
<1>4. DecodeUnsigned(p) = v
  BY <1>1, UnsignedRoundTrip, SMT
<1>5. DecodePayload(n, p) = Decoded(Value("uint32", <<v>>))
  BY <1>4, PayloadBranches, Zenon
<1>6. QED
  BY <1>1, <1>2, <1>3, <1>5, TaggedTransmits, Zenon

\* A signed integer is transmitted.
LEMMA SignedTransmits ==
    ASSUME NEW v \in Int, Int32Number(v)
    PROVE  Transmits(EncodeApplicationTag(TagSignedInt, EncodeSigned(v)),
                     Value("int32", <<v>>))
<1>1. PICK p : p = EncodeSigned(v)
  OBVIOUS
<1>2. p \in Seq(Byte) /\ Len(p) \in 1..4
  BY <1>1, SignedBytes, SMT
<1>3. Len(p) < Uint32Values /\ TagSignedInt \in 2..14
  <2>1. TagSignedInt \in 2..14
    BY SMT DEF TagSignedInt
  <2>2. Len(p) < Uint32Values
    BY <1>2, ShortLength, Zenon
  <2>3. QED
    BY <2>1, <2>2
<1>4. DecodeSigned(p) = v
  <2>1. -2147483648 <= v /\ v < 2147483648
    BY NumberRanges, SMT
  <2>2. DecodeSigned(EncodeSigned(v)) = v
    BY <2>1, SignedRoundTrip, SMT
  <2>3. QED
    BY <1>1, <2>2, Zenon
<1>5. DecodePayload(TagSignedInt, p) = Decoded(Value("int32", <<v>>))
  BY <1>4, PayloadBranches, Zenon
<1>6. QED
  BY <1>1, <1>2, <1>3, <1>5, TaggedTransmits, Zenon

\* An int or an int32 is transmitted, as unsigned unless it is negative.
LEMMA IntTransmits ==
    ASSUME NEW v \in Int, Uint32Number(v) \/ Int32Number(v)
    PROVE  Transmits(EncodeInt(v),
                     Value(IF v >= 0 THEN "uint32" ELSE "int32", <<v>>))
<1>1. CASE v >= 0
  <2>1. 0 <= v /\ v < Uint32Values
    <3>1. Int32Number(v) => v < 2147483648
      BY NumberRanges, SMT
    <3>2. v < 2147483648 => v < Uint32Values
      BY SMT DEF Uint32Values
    <3>3. QED
      BY <1>1, <3>1, <3>2, NumberRanges, SMT
  <2>2. TagUnsignedInt \in {TagUnsignedInt, TagEnumerated}
    OBVIOUS
  <2>3. QED
    BY <1>1, <2>1, <2>2, UnsignedTransmits, Zenon DEF EncodeInt
<1>2. CASE ~(v >= 0)
  <2>1. Int32Number(v)
    BY <1>2, SMT DEF Uint32Number
  <2>2. QED
    BY <1>2, <2>1, SignedTransmits, Zenon DEF EncodeInt
<1>3. QED
  BY <1>1, <1>2

\* A payload of bytes that the decoder hands on as it is: a float or a time.
LEMMA PlainTransmits ==
    ASSUME NEW n \in 2..14, NEW p, Bytes(p), NEW value,
           DecodePayload(n, p) = Decoded(value)
    PROVE  Transmits(EncodeApplicationTag(n, p), value)
<1>1. p \in Seq(Byte) /\ Len(p) < Uint32Values
  BY SMT DEF Bytes, Byte, Uint32Values
<1>2. QED
  BY <1>1, TaggedTransmits, Zenon

\* A Go string is transmitted: written as UTF-8, and not converted back.
LEMMA StringTransmits ==
    ASSUME NEW v, Bytes(v)
    PROVE  Transmits(EncodeApplicationTag(TagCharacterString,
                                          EncodeCharacterString(v)),
                     Value("string", v))
<1>1. PICK p : p = <<CharSetUTF8>> \o v
  BY Zenon
<1>2. v \in Seq(Byte) /\ Len(v) < 2147483647
  BY SMT DEF Bytes, Byte
<1>3. CharSetUTF8 \in Byte
  BY SMT DEF CharSetUTF8, Byte
<1>4. /\ p \in Seq(Byte) /\ Len(p) = 1 + Len(v) /\ p[1] = CharSetUTF8
      /\ Tail(p) = v
  BY <1>1, <1>2, <1>3, SMT
<1>5. Len(p) < Uint32Values /\ TagCharacterString \in 2..14
  BY <1>2, <1>4, SMT DEF Uint32Values, TagCharacterString
<1>6. DecodeCharacterString(p) = v
  <2>1. ~(Len(p) < 1)
    BY <1>2, <1>4, SMT
  <2>2. /\ ~(p[1] = CharSetUCS2) /\ ~(p[1] = CharSetUCS4)
        /\ ~(p[1] = CharSetISO88591)
    BY <1>4, SMT DEF CharSetUTF8, CharSetUCS2, CharSetUCS4, CharSetISO88591
  <2>3. QED
    BY <1>4, <2>1, <2>2, SMT DEF DecodeCharacterString
<1>7. DecodePayload(TagCharacterString, p) = Decoded(Value("string", v))
  BY <1>6, PayloadBranches, Zenon
<1>8. QED
  BY <1>1, <1>4, <1>5, <1>7, TaggedTransmits, Zenon DEF EncodeCharacterString

\* Null and Boolean have no payload: a Boolean's value is in the length.
LEMMA NoPayloadTransmits ==
    ASSUME NEW b \in {0, 1}
    PROVE  /\ Transmits(<<0>>, Nil)
           /\ Transmits(<<TagByte(TagBoolean, 0, b)>>, Value("bool", <<b>>))
<1>1. ASSUME NEW n \in {TagNull, TagBoolean}, NEW len \in {0, 1},
             NEW w, w = <<TagByte(n, 0, len)>>,
             NEW value,
             value = IF n = TagNull THEN Nil ELSE Value("bool", <<len>>)
      PROVE  Transmits(w, value)
  <2>0. PICK c \in Int : c = 0 /\ 0 <= c /\ c < 2
    BY SMT
  <2>1. /\ n \in Int /\ 0 <= n /\ n < 15 /\ ~(n >= 15)
        /\ len \in Int /\ 0 <= len /\ len < Uint32Values /\ len < 5
    BY SMT DEF TagNull, TagBoolean, Uint32Values
  <2>2. w = EncodeTag(n, c, len)
    BY <1>1, <2>0, <2>1, Zenon DEF EncodeTag
  <2>3. w \in Seq(Byte) /\ Len(w) = 1
    BY <2>0, <2>1, <2>2, EncodeTagBytes, SMT
  <2>4. BeginsAs(w, w) /\ Len(w) >= Len(w)
    BY <2>3, SMT DEF BeginsAs
  <2>5. DecodeTagNumber(w) = DecodedTag(n, 0, len, 1)
    <3>1. DecodeTagNumber(w) = DecodedTag(n, c, len, Len(w))
      BY <2>0, <2>1, <2>2, <2>4, EncodeTagInverse, SMT
    <3>2. QED
      BY <2>0, <2>3, <3>1, Zenon
  <2>6. DecodePropertyValue(w) = Decoded(value)
    <3>1. PICK tag : tag = DecodedTag(n, 0, len, 1)
      OBVIOUS
    <3>2. tag.ok /\ tag.number = n /\ tag.class = 0 /\ tag.length = len
      BY <3>1, Zenon DEF DecodedTag
    <3>3. DecodeTagNumber(w) = tag
      BY <2>5, <3>1, Zenon
    <3>4. ~(len = Closing) /\ TagNull # TagBoolean
      BY SMT DEF Closing, TagNull, TagBoolean
    <3>5. <<IF len = 1 THEN 1 ELSE 0>> = <<len>>
      BY <1>1
    <3>6. CASE n = TagNull
      BY <1>1, <3>2, <3>3, <3>4, <3>6, Zenon
         DEF DecodePropertyValue, TagClassApplication
    <3>7. CASE n = TagBoolean
      BY <1>1, <3>2, <3>3, <3>4, <3>5, <3>7, Zenon
         DEF DecodePropertyValue, TagClassApplication
    <3>8. QED
      BY <1>1, <3>6, <3>7
  <2>7. ASSUME NEW k \in 0..Len(w) - 1
        PROVE  ~DecodePropertyValue(SubSeq(w, 1, k)).ok
    <3>1. PICK d : d = SubSeq(w, 1, k)
      BY Zenon
    <3>2. Len(d) < 1
      BY <2>3, <3>1, SMT
    <3>3. DecodeTagNumber(d) = TagError
      BY <3>2, TagRefused, Zenon
    <3>4. ~TagError.ok /\ ~DecodeFails.ok
      BY SMT DEF TagError, DecodeFails
    <3>5. QED
      BY <3>1, <3>3, <3>4, Zenon DEF DecodePropertyValue
  <2>8. ASSUME NEW b1 \in Seq(Byte)
        PROVE  FirstIs(w \o b1, value, Len(w))
    <3>1. PICK d : d = w \o b1
      BY Zenon
    <3>2. d \in Seq(Byte) /\ Len(d) >= Len(w) /\ Begins(d, w \o b1)
      BY <2>3, <3>1, WholeBegins
    <3>3. BeginsAs(d, w)
      BY <2>3, <3>2, BeginsWith
    <3>4. DecodeTagNumber(d) = DecodedTag(n, c, len, Len(w))
      BY <2>0, <2>1, <2>2, <3>2, <3>3, EncodeTagInverse, SMT
    <3>5. DecodeTagNumber(d) = DecodeTagNumber(w)
      BY <2>0, <2>3, <2>5, <3>4, Zenon
    <3>6. PICK tag : tag = DecodedTag(n, 0, len, 1)
      OBVIOUS
    <3>7. tag.ok /\ tag.number = n /\ tag.length = len /\ tag.header = 1
      BY <3>6, Zenon DEF DecodedTag
    <3>8. tag.class = 0
      BY <3>6, Zenon DEF DecodedTag
    <3>9. ~(tag.length = Closing) /\ TagNull # TagBoolean
      BY <3>7, SMT DEF Closing, TagNull, TagBoolean
    <3>10. DecodePropertyValue(d) = DecodePropertyValue(w)
      <4>1. DecodeTagNumber(d) = tag /\ DecodeTagNumber(w) = tag
        BY <2>5, <3>5, <3>6, Zenon
      <4>2. CASE n = TagNull
        BY <3>7, <3>8, <3>9, <4>1, <4>2, Zenon
           DEF DecodePropertyValue, TagClassApplication
      <4>3. CASE n = TagBoolean
        BY <3>7, <3>8, <3>9, <4>1, <4>3, Zenon
           DEF DecodePropertyValue, TagClassApplication
      <4>4. QED
        BY <4>2, <4>3
    <3>11. ValueEnd(d) = 1
      <4>1. ValueEnd(d) = 1 + 0
        BY <2>5, <3>5, <3>6, <3>7, Zenon DEF ValueEnd
      <4>2. QED
        BY <4>1, SMT
    <3>12. QED
      BY <2>3, <2>6, <3>1, <3>10, <3>11, Zenon DEF FirstIs
  <2>9. Len(w) >= 1
    BY <2>3, SMT
  <2>10. QED
    BY <2>3, <2>6, <2>7, <2>8, <2>9, Zenon DEF Transmits
<1>2. <<0>> = <<TagByte(TagNull, 0, 0)>>
  BY SMT DEF TagByte, TagNull
<1>3. 0 \in {0, 1} /\ TagNull # TagBoolean
  BY SMT DEF TagNull, TagBoolean
<1>4. Transmits(<<0>>, Nil)
  BY <1>1, <1>2, <1>3, Zenon
<1>5. Transmits(<<TagByte(TagBoolean, 0, b)>>, Value("bool", <<b>>))
  BY <1>1, <1>3, Zenon
<1>6. QED
  BY <1>4, <1>5

\* A payload that decodes to an object identifier transmits it.
LEMMA IdentifierPayload ==
    ASSUME NEW p \in Seq(Byte), Len(p) = 4, NEW oid,
           DecodeObjectIdentifier(p) = oid
    PROVE  Transmits(EncodeApplicationTag(TagObjectID, p),
                     Value("ObjectIdentifier", <<oid.type, oid.instance>>))
<1>1. TagObjectID \in 2..14
  BY SMT DEF TagObjectID
<1>2. DecodePayload(TagObjectID, p)
        = Decoded(Value("ObjectIdentifier", <<oid.type, oid.instance>>))
  BY PayloadBranches, Zenon
<1>3. 4 \in 1..4
  BY SMT
<1>4. Len(p) < Uint32Values
  BY <1>3, ShortLength, Zenon
<1>5. QED
  BY <1>1, <1>2, <1>4, TaggedTransmits, Zenon

\* An object identifier is transmitted.
LEMMA ObjectIdentifierTransmits ==
    ASSUME NEW t \in Int, 0 <= t, t < 1024,
           NEW n \in Int, 0 <= n, n < 4194304
    PROVE  Transmits(EncodeApplicationTag(TagObjectID,
                         EncodeObjectIdentifier([type |-> t, instance |-> n])),
                     Value("ObjectIdentifier", <<t, n>>))
<1> DEFINE oid == [type |-> t, instance |-> n]
           p == EncodeObjectIdentifier(oid)
<1>1. p \in Seq(Byte) /\ Len(p) = 4
  BY ObjectIdentifierBytes, SMT
<1>2. DecodeObjectIdentifier(p) = oid
  BY ObjectIdentifierRoundTrip, SMT
<1>3. oid.type = t /\ oid.instance = n
  BY SMT
<1> HIDE DEF p, oid
<1>4. Transmits(EncodeApplicationTag(TagObjectID, p),
                Value("ObjectIdentifier", <<t, n>>))
  BY <1>1, <1>2, <1>3, IdentifierPayload, SMT
<1>5. QED
  BY <1>4, SMT DEF p, oid

\* The encoding of every value that WriteProperty takes transmits it, as
\* ReadProperty returns it.
LEMMA WritableTransmits ==
    ASSUME NEW value, IsWritable(value)
    PROVE  Transmits(EncodePropertyValue(value), Returned(value))
<1> DEFINE t == value.t
<1>1. PICK v \in {value.v} :
         /\ value = Value(t, v)
         /\ \/ t = "nil" /\ v = <<>>
            \/ t = "bool" /\ v \in {<<0>>, <<1>>}
            \/ t = "uint32" /\ v = <<v[1]>> /\ Uint32Number(v[1])
            \/ t = "int32" /\ v = <<v[1]>> /\ Int32Number(v[1])
            \/ /\ t = "int" /\ v = <<v[1]>>
               /\ Uint32Number(v[1]) \/ Int32Number(v[1])
            \/ t = "float32" /\ Bytes(v) /\ Len(v) = 4
            \/ t = "float64" /\ Bytes(v) /\ Len(v) = 8
            \/ t = "string" /\ Bytes(v)
            \/ t = "ObjectIdentifier" /\ IsIdentifier(v)
  BY Zenon DEF IsWritable
<1>2. value = Value(t, v) /\ value.t = t /\ value.v = v
  BY <1>1
<1> HIDE DEF t
<1>3. CASE t = "nil" /\ v = <<>>
  <2>1. EncodePropertyValue(value) = <<0>> /\ Returned(value) = Nil
    BY <1>2, <1>3, SMT DEF EncodePropertyValue, Returned, Nil
  <2>2. QED
    BY <2>1, NoPayloadTransmits, Zenon
<1>4. CASE t = "bool" /\ v \in {<<0>>, <<1>>}
  <2>1. PICK b \in {0, 1} : v = <<b>> /\ v[1] = b
    BY <1>4, SMT
  <2>2. /\ EncodePropertyValue(value) = <<TagByte(TagBoolean, 0, b)>>
        /\ Returned(value) = Value("bool", <<b>>)
    BY <1>2, <1>4, <2>1, SMT DEF EncodePropertyValue, Returned
  <2>3. QED
    BY <2>2, NoPayloadTransmits, Zenon
<1>5. CASE t = "uint32" /\ v = <<v[1]>> /\ Uint32Number(v[1])
  <2>1. PICK n \in Int : v = <<n>> /\ n = v[1] /\ 0 <= n /\ n < Uint32Values
    <3>1. v[1] \in Int
      BY <1>5, SMT DEF Uint32Number
    <3>2. 0 <= v[1] /\ v[1] < Uint32Values
      BY <1>5, <3>1, NumberRanges, SMT
    <3>3. QED
      BY <1>5, <3>1, <3>2, Zenon
  <2>2. /\ EncodePropertyValue(value)
             = EncodeApplicationTag(TagUnsignedInt, EncodeUnsigned(n))
        /\ Returned(value) = Value("uint32", <<n>>)
    BY <1>2, <1>5, <2>1, SMT DEF EncodePropertyValue, Returned
  <2>3. QED
    BY <2>1, <2>2, UnsignedTransmits, Zenon
<1>6. CASE /\ t \in {"int", "int32"} /\ v = <<v[1]>>
           /\ Uint32Number(v[1]) \/ Int32Number(v[1])
  <2>1. PICK n \in Int : /\ v = <<n>> /\ n = v[1]
                         /\ Uint32Number(n) \/ Int32Number(n)
    <3>1. v[1] \in Int
      BY <1>6, SMT DEF Int32Number, Uint32Number
    <3>2. QED
      BY <1>6, <3>1, Zenon
  <2>2. /\ EncodePropertyValue(value) = EncodeInt(n)
        /\ Returned(value) = Value(IF n >= 0 THEN "uint32" ELSE "int32", <<n>>)
    BY <1>2, <1>6, <2>1, SMT DEF EncodePropertyValue, Returned
  <2>3. QED
    BY <2>1, <2>2, IntTransmits, Zenon
<1>7. CASE t = "float32" /\ Bytes(v) /\ Len(v) = 4
  <2>1. TagReal \in 2..14
    BY SMT DEF TagReal
  <2>2. DecodePayload(TagReal, v) = Decoded(Value("float32", v))
    BY <1>7, PayloadBranches, Zenon
  <2>3. /\ EncodePropertyValue(value) = EncodeApplicationTag(TagReal, v)
        /\ Returned(value) = Value("float32", v)
    BY <1>2, <1>7, SMT DEF EncodePropertyValue, Returned
  <2>4. QED
    BY <1>7, <2>1, <2>2, <2>3, PlainTransmits, Zenon
<1>8. CASE t = "float64" /\ Bytes(v) /\ Len(v) = 8
  <2>1. TagDouble \in 2..14
    BY SMT DEF TagDouble
  <2>2. DecodePayload(TagDouble, v) = Decoded(Value("float64", v))
    BY <1>8, PayloadBranches, Zenon
  <2>3. /\ EncodePropertyValue(value) = EncodeApplicationTag(TagDouble, v)
        /\ Returned(value) = Value("float64", v)
    BY <1>2, <1>8, SMT DEF EncodePropertyValue, Returned
  <2>4. QED
    BY <1>8, <2>1, <2>2, <2>3, PlainTransmits, Zenon
<1>9. CASE t = "string" /\ Bytes(v)
  <2>1. /\ EncodePropertyValue(value)
             = EncodeApplicationTag(TagCharacterString, EncodeCharacterString(v))
        /\ Returned(value) = Value("string", v)
    BY <1>2, <1>9, SMT DEF EncodePropertyValue, Returned
  <2>2. QED
    BY <1>9, <2>1, StringTransmits, Zenon
<1>10. CASE t = "ObjectIdentifier" /\ IsIdentifier(v)
  <2>1. PICK m, n : m = v[1] /\ n = v[2]
    OBVIOUS
  <2>2. /\ v = <<m, n>> /\ m \in Int /\ 0 <= m /\ m < 1024
        /\ n \in Int /\ 0 <= n /\ n < 4194304
    BY <1>10, <2>1, SMT DEF IsIdentifier
  <2>3. Transmits(EncodeApplicationTag(TagObjectID,
                      EncodeObjectIdentifier([type |-> m, instance |-> n])),
                  Value("ObjectIdentifier", <<m, n>>))
    BY <2>2, ObjectIdentifierTransmits, SMT
  <2>4. OID(v) = [type |-> m, instance |-> n] /\ v = <<m, n>>
    BY <2>1, <2>2, SMT DEF OID
  <2>5. /\ EncodePropertyValue(value)
             = EncodeApplicationTag(TagObjectID,
                   EncodeObjectIdentifier([type |-> m, instance |-> n]))
        /\ Returned(value) = Value("ObjectIdentifier", <<m, n>>)
    BY <1>2, <1>10, <2>4, SMT DEF EncodePropertyValue, Returned
  <2>6. QED
    BY <2>3, <2>5, Zenon
<1>11. QED
  BY <1>1, <1>3, <1>4, <1>5, <1>6, <1>7, <1>8, <1>9, <1>10

\* A marker is found at the head of what it opens or closes.
LEMMA MarkerRead ==
    ASSUME NEW n \in 0..14, NEW b \in Seq(Byte)
    PROVE  /\ DecodeTagNumber(EncodeOpeningTag(n) \o b)
                = DecodedTag(n, TagClassContext, Opening, 1)
           /\ DecodeTagNumber(EncodeClosingTag(n) \o b)
                = DecodedTag(n, TagClassContext, Closing, 1)
<1>1. ASSUME NEW low \in {6, 7}, NEW x, x = <<TagByte(n, 1, low)>> \o b
      PROVE  DecodeTagNumber(x)
               = DecodedTag(n, TagClassContext,
                            IF low = 6 THEN Opening ELSE Closing, 1)
  <2>1. PICK c \in Byte : c = TagByte(n, 1, low)
    BY SMT DEF TagByte, Byte
  <2>2. c \in Int /\ c \div 16 = n /\ (c \div 8) % 2 = 1 /\ c % 8 = low
    <3>1. /\ n \in Int /\ 0 <= n /\ n < 15 /\ 1 \in Int /\ 0 <= 1 /\ 1 < 2
          /\ low \in Int /\ 0 <= low /\ low < 8
      BY SMT
    <3>2. QED
      BY <2>1, <3>1, TagByteFields, SMT
  <2>3. x = <<c>> \o b
    BY <1>1, <2>1
  <2>4. ~(Len(x) < 1) /\ x[1] = c
    BY <2>3, SMT
  <2>5. /\ n = x[1] \div 16 /\ ~(n = 15)
        /\ TagClassContext = (x[1] \div 8) % 2 /\ low = x[1] % 8
        /\ ~(1 = 2) /\ ~(7 = 6)
    BY <2>2, <2>4, SMT DEF TagClassContext
  <2>6. CASE low = 6
    BY <2>4, <2>5, <2>6, TagBranches, Zenon
  <2>7. CASE low = 7
    BY <2>4, <2>5, <2>7, TagBranches, Zenon
  <2>8. QED
    BY <2>6, <2>7, Zenon
<1>2. /\ EncodeOpeningTag(n) = <<TagByte(n, 1, 6)>>
      /\ EncodeClosingTag(n) = <<TagByte(n, 1, 7)>>
  BY SMT DEF EncodeOpeningTag, EncodeClosingTag
<1>3. (6 = 6) /\ ~(7 = 6)
  BY SMT
<1>4. QED
  BY <1>1, <1>2, <1>3, Zenon

\* What OpensWith and ClosesWith say of a marker.
LEMMA MarkerFound ==
    ASSUME NEW n \in 0..14, NEW b \in Seq(Byte)
    PROVE  /\ OpensWith(EncodeOpeningTag(n) \o b, n)
           /\ ~ClosesWith(EncodeOpeningTag(n) \o b, n)
           /\ ClosesWith(EncodeClosingTag(n) \o b, n)
           /\ ~OpensWith(EncodeClosingTag(n) \o b, n)
<1>1. PICK t, u : /\ t = DecodedTag(n, TagClassContext, Opening, 1)
                  /\ u = DecodedTag(n, TagClassContext, Closing, 1)
  OBVIOUS
<1>2. /\ t.ok /\ t.number = n /\ t.length = Opening
      /\ u.ok /\ u.number = n /\ u.length = Closing
  BY <1>1, Zenon DEF DecodedTag
<1>3. Opening # Closing
  BY SMT DEF Opening, Closing
<1>4. QED
  BY <1>1, <1>2, <1>3, MarkerRead, Zenon DEF OpensWith, ClosesWith

\* No element is at the head of data that starts with another tag, with a
\* marker or with none.
LEMMA ElementAbsent ==
    ASSUME NEW d, NEW n,
           \/ DecodeTagNumber(d) = TagError
           \/ \E m, c, len, size :
                 /\ DecodeTagNumber(d) = DecodedTag(m, c, len, size)
                 /\ m # n \/ ~(len >= 0)
    PROVE  ~Element(d, n).there /\ Element(d, n).rest = d
<1> DEFINE tag == DecodeTagNumber(d)
<1>1. ~tag.ok \/ tag.number # n \/ ~(tag.length >= 0)
  <2>1. CASE tag = TagError
    <3>1. ~TagError.ok
      BY SMT DEF TagError
    <3>2. QED
      BY <2>1, <3>1, Zenon
  <2>2. ASSUME NEW m, NEW c, NEW len, NEW size,
               tag = DecodedTag(m, c, len, size), m # n \/ ~(len >= 0)
        PROVE  tag.number # n \/ ~(tag.length >= 0)
    <3>1. PICK t : t = DecodedTag(m, c, len, size)
      OBVIOUS
    <3>2. t.number = m /\ t.length = len
      BY <3>1, Zenon DEF DecodedTag
    <3>3. QED
      BY <2>2, <3>1, <3>2, Zenon
  <2>3. QED
    BY <2>1, <2>2, Zenon
<1>2. QED
  BY <1>1, Zenon DEF Element

\* Neither at the end of data, nor where a marker is.
LEMMA NoElement ==
    ASSUME NEW n \in 0..14, NEW m \in 0..14, NEW b \in Seq(Byte)
    PROVE  /\ ~Element(<<>>, m).there /\ Element(<<>>, m).rest = <<>>
           /\ ~Element(EncodeOpeningTag(n) \o b, m).there
           /\ Element(EncodeOpeningTag(n) \o b, m).rest
                = EncodeOpeningTag(n) \o b
<1>1. Len(<<>>) < 1
  BY SMT
<1>2. DecodeTagNumber(<<>>) = TagError
  BY <1>1, TagRefused, Zenon
<1>3. ~(Opening >= 0)
  BY SMT DEF Opening
<1>4. DecodeTagNumber(EncodeOpeningTag(n) \o b)
        = DecodedTag(n, TagClassContext, Opening, 1)
  BY MarkerRead
<1>5. ~Element(<<>>, m).there /\ Element(<<>>, m).rest = <<>>
  BY <1>2, ElementAbsent, Zenon
<1>6. PICK d : d = EncodeOpeningTag(n) \o b
  OBVIOUS
<1>7. ~Element(d, m).there /\ Element(d, m).rest = d
  <2>1. \E k, c, len, size :
           /\ DecodeTagNumber(d) = DecodedTag(k, c, len, size)
           /\ k # m \/ ~(len >= 0)
    BY <1>3, <1>4, <1>6, Zenon
  <2>2. QED
    BY <2>1, ElementAbsent, Zenon
<1>8. QED
  BY <1>5, <1>6, <1>7, Zenon

\* The element at the head of d is p, and b follows it.
ElementIs(d, n, p, b) ==
    /\ Element(d, n).there
    /\ Element(d, n).payload = p
    /\ Element(d, n).rest = b

\* A payload under a context tag is the element at the head of what it starts.
LEMMA ElementRead ==
    ASSUME NEW n \in 0..14, NEW p \in Seq(Byte), Len(p) < Uint32Values,
           NEW b \in Seq(Byte), NEW w, w = EncodeContextTag(n, p)
    PROVE  /\ w \in Seq(Byte) /\ Len(w) >= 1 + Len(p)
           /\ ElementIs(w \o b, n, p, b)
<1>1. n \in Int /\ 0 <= n /\ n < 15 /\ 1 \in Int /\ 0 <= 1 /\ 1 < 2
  BY SMT
<1>2. PICK len \in Int : len = Len(p) /\ 0 <= len /\ len < Uint32Values
  BY SMT
<1>3. PICK h : h = EncodeTag(n, 1, len)
  OBVIOUS
<1>4. w = h \o p
  BY <1>2, <1>3, Zenon DEF EncodeContextTag, TagClassContext
<1> IsTagged(n, 1, len, p, h, w)
  BY <1>1, <1>2, <1>3, <1>4, Zenon DEF IsTagged
<1>5. /\ w \in Seq(Byte) /\ Len(w) = Len(h) + len
      /\ Len(h) \in Nat /\ Len(h) >= 1
  BY TaggedWhole
<1>6. Len(w) >= 1 + Len(p)
  BY <1>2, <1>5, SMT
<1>7. PICK d : d = w \o b
  BY Zenon
<1>8. d \in Seq(Byte) /\ Len(d) >= Len(w) /\ Begins(d, w \o b) /\ Drop(d, Len(w)) = b
  BY <1>5, <1>7, WholeBegins
<1>9. TagIs(d, n, 1, len, p, Len(h))
  BY <1>8, TagRead, Zenon
<1>10. /\ DecodeTagNumber(d) = DecodedTag(n, 1, len, Len(h))
       /\ SubSeq(d, Len(h) + 1, Len(h) + len) = p
       /\ Len(h) + len <= Len(d)
  BY <1>9, Zenon DEF TagIs
<1>11. PICK tag : tag = DecodedTag(n, 1, len, Len(h))
  OBVIOUS
<1>12. /\ tag.ok /\ tag.number = n /\ tag.class = TagClassContext
       /\ tag.length = len /\ tag.header = Len(h)
  BY <1>11, Zenon DEF DecodedTag, TagClassContext
<1>13. len >= 0
  BY <1>2, SMT
<1>14. DecodeTagNumber(d) = tag
  BY <1>10, <1>11, Zenon
<1>15. ElementIs(d, n, p, b)
  BY <1>5, <1>8, <1>10, <1>12, <1>13, <1>14, Zenon DEF Element, ElementIs
<1>16. QED
  BY <1>5, <1>6, <1>7, <1>15

\* The element at the head of d holds a number, or an object identifier.
NumberIs(d, n, v, b) ==
    /\ Element(d, n).there
    /\ DecodeUnsigned(Element(d, n).payload) = v
    /\ Element(d, n).rest = b
IdentifierIs(d, n, oid, b) ==
    /\ Element(d, n).there
    /\ Len(Element(d, n).payload) = 4
    /\ DecodeObjectIdentifier(Element(d, n).payload) = oid
    /\ Element(d, n).rest = b

\* A uint32 under a context tag.
LEMMA UnsignedElement ==
    ASSUME NEW n \in 0..14, NEW v, Uint32Number(v), NEW b \in Seq(Byte),
           NEW w, w = EncodeContextUnsigned(n, v)
    PROVE  /\ w \in Seq(Byte) /\ Len(w) >= 2
           /\ NumberIs(w \o b, n, v, b)
<1>1. v \in Int /\ v \in Nat
  BY SMT DEF Uint32Number
<1>2. 0 <= v /\ v < Uint32Values
  BY <1>1, NumberRanges, SMT
<1>3. PICK p : p = EncodeUnsigned(v)
  OBVIOUS
<1>4. p \in Seq(Byte) /\ Len(p) \in 1..4
  BY <1>1, <1>3, UnsignedBytes
<1>5. DecodeUnsigned(p) = v
  BY <1>1, <1>2, <1>3, UnsignedRoundTrip, SMT
<1>6. Len(p) < Uint32Values
  BY <1>4, ShortLength, Zenon
<1>7. w = EncodeContextTag(n, p)
  BY <1>3, Zenon DEF EncodeContextUnsigned
<1>8. /\ w \in Seq(Byte) /\ Len(w) >= 1 + Len(p)
      /\ ElementIs(w \o b, n, p, b)
  BY <1>4, <1>6, <1>7, ElementRead, Zenon
<1>9. Len(w) >= 2
  BY <1>4, <1>8, SMT
<1>10. QED
  BY <1>5, <1>8, <1>9, Zenon DEF ElementIs, NumberIs

\* An object identifier under a context tag.
LEMMA IdentifierElement ==
    ASSUME NEW n \in 0..14, NEW t, NEW i, IsIdentifier(<<t, i>>),
           NEW b \in Seq(Byte), NEW oid, oid = OID(<<t, i>>),
           NEW w, w = EncodeContextObjectIdentifier(n, oid)
    PROVE  /\ w \in Seq(Byte) /\ Len(w) >= 5
           /\ IdentifierIs(w \o b, n, oid, b)
<1>1. /\ t \in Int /\ 0 <= t /\ t < 1024
      /\ i \in Int /\ 0 <= i /\ i < 4194304
  BY SMT DEF IsIdentifier
<1>2. oid = [type |-> t, instance |-> i]
  BY SMT DEF OID
<1>3. PICK p : p = EncodeObjectIdentifier(oid)
  OBVIOUS
<1>4. p \in Seq(Byte) /\ Len(p) = 4
  BY <1>1, <1>2, <1>3, ObjectIdentifierBytes, SMT
<1>5. DecodeObjectIdentifier(p) = oid
  BY <1>1, <1>2, <1>3, ObjectIdentifierRoundTrip, SMT
<1>6. 4 \in 1..4
  BY SMT
<1>7. Len(p) < Uint32Values
  BY <1>4, <1>6, ShortLength, Zenon
<1>8. w = EncodeContextTag(n, p)
  BY <1>3, Zenon DEF EncodeContextObjectIdentifier
<1>9. /\ w \in Seq(Byte) /\ Len(w) >= 1 + Len(p)
      /\ ElementIs(w \o b, n, p, b)
  BY <1>4, <1>7, <1>8, ElementRead, Zenon
<1>10. Len(w) >= 5
  BY <1>4, <1>9, SMT
<1>11. QED
  BY <1>4, <1>5, <1>9, <1>10, Zenon DEF ElementIs, IdentifierIs

=============================================================================
