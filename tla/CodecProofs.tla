---------------------------- MODULE CodecProofs -----------------------------
(***************************************************************************)
(* Theorems about Codec: whatever the peer encodes and wherever the        *)
(* network cuts it, what the client decodes is what was sent, or an error. *)
(***************************************************************************)
EXTENDS Codec, WireProofs, WellFoundedInduction

-----------------------------------------------------------------------------
(***************************************************************************)
(* Dates and bit strings.                                                  *)
(***************************************************************************)

\* The year that comes back from the low eight bits of its distance from 1900.
SentYear(y) == IF y = DateWildcardYear THEN 255 ELSE (y - 1900) % 256
ReceivedYear(b) == IF b = 255 THEN DateWildcardYear ELSE b + 1900

LEMMA YearInverse ==
    ASSUME NEW y \in Int, 0 <= y, y < 65536
    PROVE  SentYear(y) \in Byte /\ ReceivedYear(SentYear(y)) = YearReadAs(y)
<1>1. PICK low \in Int : low = (y - 1900) % 256 /\ 0 <= low /\ low < 256
  BY SMT
<1>2. y \in 1900..2154 => low = y - 1900
  BY <1>1, SMT
<1>3. SentYear(y) = IF y = DateWildcardYear THEN 255 ELSE low
  BY <1>1, SMT DEF SentYear
<1>4. YearReadAs(y) = IF y \in 1900..2154 THEN y
                      ELSE IF y = DateWildcardYear \/ low = 255
                           THEN DateWildcardYear ELSE 1900 + low
  BY <1>1, SMT DEF YearReadAs
<1>5. QED
  BY <1>1, <1>2, <1>3, <1>4, SMT DEF ReceivedYear, DateWildcardYear, Byte

\* A byte before a sequence of bytes.
LEMMA ConsBytes ==
    ASSUME NEW b \in Byte, NEW t \in Seq(Byte), NEW p, p = <<b>> \o t
    PROVE  /\ p \in Seq(Byte) /\ Len(p) = 1 + Len(t)
           /\ p[1] = b /\ Tail(p) = t
BY SMT

\* A date is transmitted, its year as far as eight bits hold it.
LEMMA DateTransmits ==
    ASSUME NEW v, IsDate(v)
    PROVE  Transmits(EncodeApplicationTag(TagDate, EncodeDate(v)),
                     Value("Date", <<YearReadAs(v[1])>> \o Tail(v)))
<1>0. v = <<v[1], v[2], v[3], v[4]>> /\ v[1] \in Nat /\ v[1] < 65536
  BY SMT DEF IsDate
<1>1. PICK y : y = v[1]
  OBVIOUS
<1>2. PICK b : b = SentYear(y)
  OBVIOUS
<1>3. b \in Byte /\ ReceivedYear(b) = YearReadAs(y)
  <2>1. y \in Int /\ 0 <= y /\ y < 65536
    BY <1>0, <1>1, SMT
  <2>2. QED
    BY <1>2, <2>1, YearInverse, SMT
<1>4. PICK t : t = Tail(v)
  BY Zenon
<1>5. t \in Seq(Byte) /\ Len(t) = 3
  <2>1. v[2] \in Byte /\ v[3] \in Byte /\ v[4] \in Byte
    BY SMT DEF IsDate, Byte
  <2>2. PICK m \in Byte, d \in Byte, w \in Byte :
           m = v[2] /\ d = v[3] /\ w = v[4]
    BY <2>1
  <2>3. <<v[1], v[2], v[3], v[4]>> = <<y, m, d, w>>
    BY <1>1, <2>2, Zenon
  <2>4. PICK u : u = <<y, m, d, w>>
    BY Zenon
  <2>5. v = u
    BY <1>0, <2>3, <2>4, SMT
  <2>6. Tail(u) = <<m, d, w>>
    BY <2>4, SMT
  <2>7. t = <<m, d, w>>
    BY <1>4, <2>5, <2>6, Zenon
  <2>8. QED
    BY <2>7, SMT
<1>6. PICK p : p = <<b>> \o t
  BY Zenon
<1>7. p \in Seq(Byte) /\ Len(p) = 4 /\ p[1] = b /\ Tail(p) = t
  <2>1. p \in Seq(Byte) /\ Len(p) = 1 + Len(t) /\ p[1] = b /\ Tail(p) = t
    BY <1>3, <1>5, <1>6, ConsBytes, Zenon
  <2>2. QED
    BY <1>5, <2>1, SMT
<1>8. p = EncodeDate(v)
  <2>1. EncodeDate(v) = <<SentYear(v[1])>> \o Tail(v)
    BY SMT DEF EncodeDate, SentYear
  <2>2. QED
    BY <1>1, <1>2, <1>4, <1>6, <2>1, Zenon
<1>9. DecodeDate(p) = <<YearReadAs(y)>> \o t
  <2>1. DecodeDate(p) = <<ReceivedYear(p[1])>> \o Tail(p)
    BY SMT DEF DecodeDate, ReceivedYear
  <2>2. QED
    BY <1>3, <1>7, <2>1, Zenon
<1>10. TagDate \in 2..14 /\ 4 \in 1..4
  BY SMT DEF TagDate
<1>11. Len(p) < Uint32Values
  BY <1>7, <1>10, ShortLength, Zenon
<1>12. DecodePayload(TagDate, p)
         = Decoded(Value("Date", <<YearReadAs(y)>> \o t))
  BY <1>7, <1>9, PayloadBranches, ZenonT(30)
<1>13. Transmits(EncodeApplicationTag(TagDate, p),
                 Value("Date", <<YearReadAs(y)>> \o t))
  BY <1>7, <1>10, <1>11, <1>12, TaggedTransmits, Zenon
<1>14. QED
  BY <1>1, <1>4, <1>8, <1>13, Zenon

\* The digit of weight 2^k of s, between what is above and what is below it.
LEMMA Digit ==
    ASSUME NEW high \in Int, 0 <= high, NEW x \in Int, 0 <= x, x < 2,
           NEW low \in Int, 0 <= low, NEW s
    PROVE  /\ low < 128 /\ s = 256 * high + 128 * x + low
                => (s \div 128) % 2 = x
           /\ low < 64 /\ s = 128 * high + 64 * x + low => (s \div 64) % 2 = x
           /\ low < 32 /\ s = 64 * high + 32 * x + low => (s \div 32) % 2 = x
           /\ low < 16 /\ s = 32 * high + 16 * x + low => (s \div 16) % 2 = x
           /\ low < 8 /\ s = 16 * high + 8 * x + low => (s \div 8) % 2 = x
           /\ low < 4 /\ s = 8 * high + 4 * x + low => (s \div 4) % 2 = x
           /\ low < 2 /\ s = 4 * high + 2 * x + low => (s \div 2) % 2 = x
           /\ low < 1 /\ s = 2 * high + 1 * x + low => (s \div 1) % 2 = x
BY SMT

\* An octet and its eight binary digits.
Octet(a, b, c, d, e, f, g, h, s) ==
    /\ {a, b, c, d, e, f, g, h} \subseteq {0, 1}
    /\ s = 128 * a + 64 * b + 32 * c + 16 * d + 8 * e + 4 * f + 2 * g + h

\* The eight binary digits of an octet come apart again.
LEMMA OctetDigits ==
    ASSUME NEW a, NEW b, NEW c, NEW d, NEW e, NEW f, NEW g, NEW h, NEW s,
           Octet(a, b, c, d, e, f, g, h, s)
    PROVE  /\ s \in Byte
           /\ (s \div 128) % 2 = a /\ (s \div 64) % 2 = b
           /\ (s \div 32) % 2 = c /\ (s \div 16) % 2 = d
           /\ (s \div 8) % 2 = e /\ (s \div 4) % 2 = f
           /\ (s \div 2) % 2 = g /\ (s \div 1) % 2 = h
<1>1. /\ a \in {0, 1} /\ b \in {0, 1} /\ c \in {0, 1} /\ d \in {0, 1}
      /\ e \in {0, 1} /\ f \in {0, 1} /\ g \in {0, 1} /\ h \in {0, 1}
      /\ s = 128 * a + 64 * b + 32 * c + 16 * d + 8 * e + 4 * f + 2 * g + h
  BY DEF Octet
<1>2. (s \div 128) % 2 = a
  <2>1. PICK high \in Int, low \in Int, x \in Int :
           /\ high = 0
           /\ low = 64 * b + 32 * c + 16 * d + 8 * e + 4 * f + 2 * g + h
           /\ x = a
    BY <1>1, SMT
  <2>2. /\ 0 <= high /\ 0 <= low /\ low < 128 /\ 0 <= x /\ x < 2
        /\ s = 256 * high + 128 * x + low
    BY <1>1, <2>1, SMT
  <2>3. (s \div 128) % 2 = x
    BY <2>2, Digit, SMT
  <2>4. QED
    BY <2>1, <2>3
<1>3. (s \div 64) % 2 = b
  <2>1. PICK high \in Int, low \in Int, x \in Int :
           /\ high = a
           /\ low = 32 * c + 16 * d + 8 * e + 4 * f + 2 * g + h
           /\ x = b
    BY <1>1, SMT
  <2>2. /\ 0 <= high /\ 0 <= low /\ low < 64 /\ 0 <= x /\ x < 2
        /\ s = 128 * high + 64 * x + low
    BY <1>1, <2>1, SMT
  <2>3. (s \div 64) % 2 = x
    BY <2>2, Digit, SMT
  <2>4. QED
    BY <2>1, <2>3
<1>4. (s \div 32) % 2 = c
  <2>1. PICK high \in Int, low \in Int, x \in Int :
           /\ high = 2 * a + b
           /\ low = 16 * d + 8 * e + 4 * f + 2 * g + h
           /\ x = c
    BY <1>1, SMT
  <2>2. /\ 0 <= high /\ 0 <= low /\ low < 32 /\ 0 <= x /\ x < 2
        /\ s = 64 * high + 32 * x + low
    BY <1>1, <2>1, SMT
  <2>3. (s \div 32) % 2 = x
    BY <2>2, Digit, SMT
  <2>4. QED
    BY <2>1, <2>3
<1>5. (s \div 16) % 2 = d
  <2>1. PICK high \in Int, low \in Int, x \in Int :
           /\ high = 4 * a + 2 * b + c
           /\ low = 8 * e + 4 * f + 2 * g + h
           /\ x = d
    BY <1>1, SMT
  <2>2. /\ 0 <= high /\ 0 <= low /\ low < 16 /\ 0 <= x /\ x < 2
        /\ s = 32 * high + 16 * x + low
    BY <1>1, <2>1, SMT
  <2>3. (s \div 16) % 2 = x
    BY <2>2, Digit, SMT
  <2>4. QED
    BY <2>1, <2>3
<1>6. (s \div 8) % 2 = e
  <2>1. PICK high \in Int, low \in Int, x \in Int :
           /\ high = 8 * a + 4 * b + 2 * c + d
           /\ low = 4 * f + 2 * g + h
           /\ x = e
    BY <1>1, SMT
  <2>2. /\ 0 <= high /\ 0 <= low /\ low < 8 /\ 0 <= x /\ x < 2
        /\ s = 16 * high + 8 * x + low
    BY <1>1, <2>1, SMT
  <2>3. (s \div 8) % 2 = x
    BY <2>2, Digit, SMT
  <2>4. QED
    BY <2>1, <2>3
<1>7. (s \div 4) % 2 = f
  <2>1. PICK high \in Int, low \in Int, x \in Int :
           /\ high = 16 * a + 8 * b + 4 * c + 2 * d + e
           /\ low = 2 * g + h
           /\ x = f
    BY <1>1, SMT
  <2>2. /\ 0 <= high /\ 0 <= low /\ low < 4 /\ 0 <= x /\ x < 2
        /\ s = 8 * high + 4 * x + low
    BY <1>1, <2>1, SMT
  <2>3. (s \div 4) % 2 = x
    BY <2>2, Digit, SMT
  <2>4. QED
    BY <2>1, <2>3
<1>8. (s \div 2) % 2 = g
  <2>1. PICK high \in Int, low \in Int, x \in Int :
           /\ high = 32 * a + 16 * b + 8 * c + 4 * d + 2 * e + f
           /\ low = h
           /\ x = g
    BY <1>1, SMT
  <2>2. /\ 0 <= high /\ 0 <= low /\ low < 2 /\ 0 <= x /\ x < 2
        /\ s = 4 * high + 2 * x + low
    BY <1>1, <2>1, SMT
  <2>3. (s \div 2) % 2 = x
    BY <2>2, Digit, SMT
  <2>4. QED
    BY <2>1, <2>3
<1>9. (s \div 1) % 2 = h
  <2>1. PICK high \in Int, low \in Int, x \in Int :
           /\ high = 64 * a + 32 * b + 16 * c + 8 * d + 4 * e + 2 * f + g
           /\ low = 0
           /\ x = h
    BY <1>1, SMT
  <2>2. /\ 0 <= high /\ 0 <= low /\ low < 1 /\ 0 <= x /\ x < 2
        /\ s = 2 * high + 1 * x + low
    BY <1>1, <2>1, SMT
  <2>3. (s \div 1) % 2 = x
    BY <2>2, Digit, SMT
  <2>4. QED
    BY <2>1, <2>3
<1>10. s \in Byte
  BY <1>1, SMT DEF Byte
<1>11. QED
  BY <1>2, <1>3, <1>4, <1>5, <1>6, <1>7, <1>8, <1>9, <1>10

\* Whether bit j of byte k is set, and the digit it contributes.
On(bits, k, j) == 8 * (k - 1) + j \in DOMAIN bits /\ bits[8 * (k - 1) + j]
Share(bits, k, j) == IF On(bits, k, j) THEN 1 ELSE 0

\* A packed byte is a byte, and its digits are the bits.
LEMMA PackedBits ==
    ASSUME NEW bits, NEW k
    PROVE  /\ PackedByte(bits, k) \in Byte
           /\ \A j \in 1..8 :
                  (PackedByte(bits, k) \div Weight[j]) % 2 = 1 <=> On(bits, k, j)
<1> DEFINE x(j) == Share(bits, k, j)
<1>1. \A j : x(j) \in {0, 1} /\ (x(j) = 1 <=> On(bits, k, j))
  BY SMT DEF Share
<1>2. PICK a, b, c, d, e, f, g, h :
         /\ a = x(1) /\ b = x(2) /\ c = x(3) /\ d = x(4)
         /\ e = x(5) /\ f = x(6) /\ g = x(7) /\ h = x(8)
  BY Zenon
<1>4. PICK s : s = PackedByte(bits, k)
  OBVIOUS
<1>5. s = 128 * a + 64 * b + 32 * c + 16 * d + 8 * e + 4 * f + 2 * g + h
  <2>1. /\ Weight[1] = 128 /\ Weight[2] = 64 /\ Weight[3] = 32
        /\ Weight[4] = 16 /\ Weight[5] = 8 /\ Weight[6] = 4
        /\ Weight[7] = 2 /\ Weight[8] = 1
    BY SMT DEF Weight
  <2> DEFINE part(j) == IF On(bits, k, j) THEN Weight[j] ELSE 0
  <2>2. s = part(1) + part(2) + part(3) + part(4)
              + part(5) + part(6) + part(7) + part(8)
    BY <1>4, SMT DEF PackedByte, On
  <2>3. /\ part(1) = 128 * a /\ part(2) = 64 * b /\ part(3) = 32 * c
        /\ part(4) = 16 * d /\ part(5) = 8 * e /\ part(6) = 4 * f
        /\ part(7) = 2 * g /\ part(8) = h
    BY <1>2, <2>1, SMT DEF Share
  <2> HIDE DEF part
  <2>4. QED
    BY <2>2, <2>3, Zenon
<1>6. /\ s \in Byte
      /\ (s \div 128) % 2 = a /\ (s \div 64) % 2 = b
      /\ (s \div 32) % 2 = c /\ (s \div 16) % 2 = d
      /\ (s \div 8) % 2 = e /\ (s \div 4) % 2 = f
      /\ (s \div 2) % 2 = g /\ (s \div 1) % 2 = h
  <2>1. Octet(a, b, c, d, e, f, g, h, s)
    BY <1>1, <1>2, <1>5, SMT DEF Octet
  <2>2. QED
    BY <2>1, OctetDigits, SMT
<1>7. ASSUME NEW j \in 1..8
      PROVE  (s \div Weight[j]) % 2 = x(j)
  <2> HIDE DEF x
  <2>1. /\ Weight[1] = 128 /\ Weight[2] = 64 /\ Weight[3] = 32
        /\ Weight[4] = 16 /\ Weight[5] = 8 /\ Weight[6] = 4
        /\ Weight[7] = 2 /\ Weight[8] = 1
    BY SMT DEF Weight
  <2>2. \/ j = 1 \/ j = 2 \/ j = 3 \/ j = 4
        \/ j = 5 \/ j = 6 \/ j = 7 \/ j = 8
    BY SMT
  <2>3. CASE j = 1
    BY <1>2, <1>6, <2>1, <2>3, Zenon
  <2>4. CASE j = 2
    BY <1>2, <1>6, <2>1, <2>4, Zenon
  <2>5. CASE j = 3
    BY <1>2, <1>6, <2>1, <2>5, Zenon
  <2>6. CASE j = 4
    BY <1>2, <1>6, <2>1, <2>6, Zenon
  <2>7. CASE j = 5
    BY <1>2, <1>6, <2>1, <2>7, Zenon
  <2>8. CASE j = 6
    BY <1>2, <1>6, <2>1, <2>8, Zenon
  <2>9. CASE j = 7
    BY <1>2, <1>6, <2>1, <2>9, Zenon
  <2>10. CASE j = 8
    BY <1>2, <1>6, <2>1, <2>10, Zenon
  <2>11. QED
    BY <2>2, <2>3, <2>4, <2>5, <2>6, <2>7, <2>8, <2>9, <2>10, SMTT(20)
<1>8. QED
  BY <1>1, <1>4, <1>6, <1>7, Zenon

\* NewBitStringFromBits: as few bytes as hold the bits, and in front how many
\* bits of the last one are unused.
LEMMA BitStringBytes ==
    ASSUME NEW bits, NEW len \in Nat, bits \in Seq(BOOLEAN), len = Len(bits),
           NEW p, p = NewBitStringFromBits(bits)
    PROVE  /\ p \in Seq(Byte)
           /\ Len(p) = 1 + (len + 7) \div 8
           /\ p[1] = 8 * ((len + 7) \div 8) - len
           /\ \A k \in 1..(len + 7) \div 8 : p[k + 1] = PackedByte(bits, k)
<1>0. PICK n \in Int : n = (len + 7) \div 8
  BY SMT
<1>1. n \in Nat /\ 8 * n - len \in 0..7
  BY <1>0, SMT
<1>2. PICK u \in Byte : u = 8 * n - len
  BY <1>1, SMTT(20) DEF Byte
<1>3. PICK t : t = [k \in 1..n |-> PackedByte(bits, k)]
  BY Zenon
<1>4. /\ t \in Seq(Byte) /\ Len(t) = n
      /\ \A k \in 1..n : t[k] = PackedByte(bits, k)
  <2>1. \A k \in 1..n : PackedByte(bits, k) \in Byte
    BY PackedBits, Zenon
  <2>2. t \in [1..n -> Byte] /\ \A k \in 1..n : t[k] = PackedByte(bits, k)
    BY <1>3, <2>1, Zenon
  <2>3. QED
    BY <1>1, <2>2, SMT
<1>5. p = <<u>> \o t
  BY <1>0, <1>2, <1>3, SMT DEF NewBitStringFromBits
<1>6. /\ p \in Seq(Byte) /\ Len(p) = 1 + Len(t) /\ p[1] = u
      /\ \A k \in 1..Len(t) : p[k + 1] = t[k]
  BY <1>4, <1>5, SMTT(20)
<1>7. QED
  BY <1>0, <1>1, <1>2, <1>4, <1>6, SMT

\* The bits of a bit string value, as NewBitStringFromBits takes them.
Flags(v) == [i \in DOMAIN v |-> v[i] = 1]

LEMMA FlagsOf ==
    ASSUME NEW v \in Seq({0, 1})
    PROVE  /\ Flags(v) \in Seq(BOOLEAN) /\ Len(Flags(v)) = Len(v)
           /\ DOMAIN Flags(v) = 1..Len(v)
           /\ \A i \in 1..Len(v) : Flags(v)[i] <=> v[i] = 1
<1>1. PICK bits : bits = Flags(v)
  OBVIOUS
<1>2. /\ bits \in [1..Len(v) -> BOOLEAN] /\ Len(v) \in Nat
      /\ \A i \in 1..Len(v) : bits[i] <=> v[i] = 1
  <2>1. DOMAIN v = 1..Len(v) /\ Len(v) \in Nat
    BY SMT
  <2>2. QED
    BY <1>1, <2>1, Zenon DEF Flags
<1>3. bits \in Seq(BOOLEAN) /\ Len(bits) = Len(v)
  BY <1>2, SMT
<1>4. QED
  BY <1>1, <1>2, <1>3, Zenon

\* The number of bytes that hold len bits.
LEMMA ByteCount ==
    ASSUME NEW len \in Nat
    PROVE  /\ (len + 7) \div 8 \in Nat
           /\ 8 * ((len + 7) \div 8) - len \in 0..7
           /\ len = 0 => (len + 7) \div 8 = 0
BY SMT

\* A bit string is transmitted.
LEMMA BitStringTransmits ==
    ASSUME NEW v \in Seq({0, 1}), Bytes(v),
           NEW p, p = NewBitStringFromBits(Flags(v))
    PROVE  Transmits(EncodeApplicationTag(TagBitString, p),
                     Value("BitString", p))
<1>1. PICK len \in Nat : len = Len(v)
  BY SMT
<1>2. PICK n \in Nat : /\ n = (len + 7) \div 8 /\ 8 * n - len \in 0..7
                       /\ len = 0 => n = 0
  BY ByteCount, Zenon
<1>3. p \in Seq(Byte) /\ Len(p) = 1 + n /\ p[1] = 8 * n - len
  <2>1. PICK bits : bits = Flags(v)
    OBVIOUS
  <2>2. /\ bits \in Seq(BOOLEAN) /\ len = Len(bits)
        /\ p = NewBitStringFromBits(bits)
    BY <1>1, <2>1, FlagsOf, Zenon
  <2>3. /\ p \in Seq(Byte)
        /\ Len(p) = 1 + (len + 7) \div 8
        /\ p[1] = 8 * ((len + 7) \div 8) - len
        /\ \A k \in 1..(len + 7) \div 8 : p[k + 1] = PackedByte(bits, k)
    BY <2>2, BitStringBytes
  <2>4. QED
    BY <1>2, <2>1, <2>3, Zenon
<1>4. Len(p) < Uint32Values
  <2>1. len < 2147483647
    BY <1>1, SMT DEF Bytes
  <2>2. QED
    BY <1>2, <1>3, <2>1, SMT DEF Uint32Values
<1>5. DecodeBitString(p) = Decoded(Value("BitString", p))
  <2>1. ~(Len(p) = 0) /\ ~(p[1] > 7) /\ ~(Len(p) = 1 /\ p[1] # 0)
    BY <1>2, <1>3, SMT
  <2>2. QED
    BY <2>1, Zenon DEF DecodeBitString
<1>6. TagBitString \in 2..14
  BY SMT DEF TagBitString
<1>7. DecodePayload(TagBitString, p) = Decoded(Value("BitString", p))
  BY <1>5, PayloadBranches, Zenon
<1>8. QED
  BY <1>3, <1>4, <1>6, <1>7, TaggedTransmits, Zenon

\* Bit returns the bits one by one, and FALSE after the last.
LEMMA BitsInverse ==
    ASSUME NEW v \in Seq({0, 1}),
           NEW p, p = NewBitStringFromBits(Flags(v)), NEW i \in Nat
    PROVE  /\ BitLen(p) = Len(v)
           /\ Bit(p, i) <=> i < Len(v) /\ v[i + 1] = 1
<1>1. PICK len \in Nat : len = Len(v)
  BY SMT
<1>2. PICK n \in Nat : /\ n = (len + 7) \div 8 /\ 8 * n - len \in 0..7
                       /\ len = 0 => n = 0
  BY ByteCount, Zenon
<1>3. /\ p \in Seq(Byte) /\ Len(p) = 1 + n /\ p[1] = 8 * n - len
      /\ \A k \in 1..n : p[k + 1] = PackedByte(Flags(v), k)
  <2>1. PICK bits : bits = Flags(v)
    OBVIOUS
  <2>2. /\ bits \in Seq(BOOLEAN) /\ len = Len(bits)
        /\ p = NewBitStringFromBits(bits)
    BY <1>1, <2>1, FlagsOf, Zenon
  <2>3. /\ p \in Seq(Byte)
        /\ Len(p) = 1 + (len + 7) \div 8
        /\ p[1] = 8 * ((len + 7) \div 8) - len
        /\ \A k \in 1..(len + 7) \div 8 : p[k + 1] = PackedByte(bits, k)
    BY <2>2, BitStringBytes
  <2>4. QED
    BY <1>2, <2>1, <2>3, Zenon
<1>4. BitLen(p) = len
  BY <1>2, <1>3, SMT DEF BitLen
<1>5. CASE i < len
  <2>1. PICK k \in Nat, j \in Nat :
           /\ k = i \div 8 + 1 /\ j = (i % 8) + 1
           /\ 8 * (k - 1) + j = i + 1 /\ j \in 1..8 /\ k \in 1..n
    <3>1. PICK q \in Nat, r \in Nat :
             q = i \div 8 /\ r = i % 8 /\ 8 * q + r = i /\ r < 8
      BY SMT
    <3>2. /\ q + 1 \in Nat /\ r + 1 \in Nat
          /\ 8 * (q + 1 - 1) + r + 1 = i + 1 /\ r + 1 \in 1..8
          /\ q + 1 \in 1..n
      BY <1>2, <1>5, <3>1, SMT
    <3>3. QED
      BY <3>1, <3>2, SMT
  <2>2. Bit(p, i) <=> (PackedByte(Flags(v), k) \div Weight[j]) % 2 = 1
    <3>1. i \in 0..len - 1 /\ i \div 8 + 2 = k + 1
      BY <1>5, <2>1, SMT
    <3>2. p[i \div 8 + 2] = PackedByte(Flags(v), k)
      BY <1>3, <2>1, <3>1, Zenon
    <3>3. QED
      BY <1>4, <2>1, <3>1, <3>2, Zenon DEF Bit
  <2>3. Bit(p, i) <=> On(Flags(v), k, j)
    BY <2>1, <2>2, PackedBits, Zenon
  <2>4. i + 1 \in 1..len
    BY <1>5, SMT
  <2>5. On(Flags(v), k, j) <=> v[i + 1] = 1
    BY <1>1, <2>1, <2>4, FlagsOf, Zenon DEF On
  <2>6. QED
    BY <1>1, <1>4, <1>5, <2>3, <2>5, Zenon
<1>6. CASE ~(i < len)
  <2>1. i \notin 0..len - 1
    BY <1>6, SMT
  <2>2. QED
    BY <1>1, <1>4, <1>6, <2>1, Zenon DEF Bit
<1>7. QED
  BY <1>5, <1>6

\* The encoding of every property value transmits it, as ReadProperty reads it.
LEMMA ValueTransmitted ==
    ASSUME NEW value, IsPropertyValue(value)
    PROVE  Transmits(EncodeTagged(value), ReadAs(value))
<1> DEFINE t == value.t
<1>1. CASE IsWritable(value)
  <2>1. t \in Writable
    BY <1>1, SMT DEF IsWritable, Writable
  <2>2. /\ EncodeTagged(value) = EncodePropertyValue(value)
        /\ ReadAs(value) = Returned(value)
    BY <2>1, SMT DEF EncodeTagged, ReadAs, Returned, Writable
  <2>3. QED
    BY <1>1, <2>2, WritableTransmits, Zenon
<1>2. CASE \E v \in {value.v} :
             /\ value = Value(t, v)
             /\ \/ t = "enum" /\ v = <<v[1]>> /\ Uint32Number(v[1])
                \/ t = "signed" /\ v = <<v[1]>> /\ Int32Number(v[1])
                \/ t = "Time" /\ Bytes(v) /\ Len(v) = 4
                \/ t = "BitString" /\ Bytes(v) /\ v \in Seq({0, 1})
                \/ t = "Date" /\ IsDate(v)
  <2>1. PICK v \in {value.v} :
           /\ value = Value(t, v)
           /\ \/ t = "enum" /\ v = <<v[1]>> /\ Uint32Number(v[1])
              \/ t = "signed" /\ v = <<v[1]>> /\ Int32Number(v[1])
              \/ t = "Time" /\ Bytes(v) /\ Len(v) = 4
              \/ t = "BitString" /\ Bytes(v) /\ v \in Seq({0, 1})
              \/ t = "Date" /\ IsDate(v)
    BY <1>2, Zenon
  <2>2. value = Value(t, v) /\ value.t = t /\ value.v = v
    BY <2>1
  <2> HIDE DEF t
  <2>3. CASE t = "enum" /\ v = <<v[1]>> /\ Uint32Number(v[1])
    <3>1. PICK n \in Int : v = <<n>> /\ n = v[1] /\ 0 <= n /\ n < Uint32Values
      <4>1. v[1] \in Int
        BY <2>3, SMT DEF Uint32Number
      <4>2. 0 <= v[1] /\ v[1] < Uint32Values
        BY <2>3, <4>1, NumberRanges, SMT
      <4>3. QED
        BY <2>3, <4>1, <4>2, Zenon
    <3>2. /\ EncodeTagged(value)
               = EncodeApplicationTag(TagEnumerated, EncodeUnsigned(n))
          /\ ReadAs(value) = Value("uint32", <<n>>)
      BY <2>2, <2>3, <3>1, SMT DEF EncodeTagged, ReadAs
    <3>3. QED
      BY <3>1, <3>2, UnsignedTransmits, Zenon
  <2>4. CASE t = "signed" /\ v = <<v[1]>> /\ Int32Number(v[1])
    <3>1. PICK n \in Int : v = <<n>> /\ n = v[1] /\ Int32Number(n)
      <4>1. v[1] \in Int
        BY <2>4, SMT DEF Int32Number
      <4>2. QED
        BY <2>4, <4>1, Zenon
    <3>2. /\ EncodeTagged(value)
               = EncodeApplicationTag(TagSignedInt, EncodeSigned(n))
          /\ ReadAs(value) = Value("int32", <<n>>)
      BY <2>2, <2>4, <3>1, SMT DEF EncodeTagged, ReadAs
    <3>3. QED
      BY <3>1, <3>2, SignedTransmits, Zenon
  <2>5. CASE t = "Time" /\ Bytes(v) /\ Len(v) = 4
    <3>1. TagTime \in 2..14
      BY SMT DEF TagTime
    <3>2. DecodePayload(TagTime, v) = Decoded(Value("Time", v))
      BY <2>5, PayloadBranches, Zenon
    <3>3. /\ EncodeTagged(value) = EncodeApplicationTag(TagTime, v)
          /\ ReadAs(value) = Value("Time", v)
      BY <2>2, <2>5, SMT DEF EncodeTagged, ReadAs
    <3>4. QED
      BY <2>5, <3>1, <3>2, <3>3, PlainTransmits, Zenon
  <2>6. CASE t = "BitString" /\ Bytes(v) /\ v \in Seq({0, 1})
    <3>1. PICK p : p = NewBitStringFromBits(Flags(v))
      OBVIOUS
    <3>2. Transmits(EncodeApplicationTag(TagBitString, p), Value("BitString", p))
      BY <2>6, <3>1, BitStringTransmits, Zenon
    <3>3. p = NewBitStringFromBits([i \in DOMAIN v |-> v[i] = 1])
      BY <3>1, Zenon DEF Flags
    <3>4. /\ EncodeTagged(value) = EncodeApplicationTag(TagBitString, p)
          /\ ReadAs(value) = Value("BitString", p)
      BY <2>2, <2>6, <3>3, SMT DEF EncodeTagged, ReadAs
    <3>5. QED
      BY <3>2, <3>4, Zenon
  <2>7. CASE t = "Date" /\ IsDate(v)
    <3>1. /\ EncodeTagged(value) = EncodeApplicationTag(TagDate, EncodeDate(v))
          /\ ReadAs(value) = Value("Date", <<YearReadAs(v[1])>> \o Tail(v))
      BY <2>2, <2>7, SMT DEF EncodeTagged, ReadAs
    <3>2. QED
      BY <2>7, <3>1, DateTransmits, Zenon
  <2>8. QED
    BY <2>1, <2>3, <2>4, <2>5, <2>6, <2>7, SMTT(20)
<1>3. QED
  BY <1>1, <1>2, Zenon DEF IsPropertyValue

-----------------------------------------------------------------------------
(***************************************************************************)
(* Texts. A recursive function is reasoned about by induction, from the    *)
(* least number for which a claim fails.                                   *)
(***************************************************************************)

\* A set of naturals has a least element.
LEMMA LeastNatural ==
    ASSUME NEW S \in SUBSET Nat, S # {}
    PROVE  \E x \in S : \A y \in S : x <= y
<1> DEFINE R == OpToRel(<, Nat)
<1>1. IsWellFoundedOn(R, Nat)
  BY NatLessThanWellFounded
<1>2. \A x, y \in Nat : x < y => <<x, y>> \in R
  BY DEF OpToRel
<1> HIDE DEF R
<1>3. PICK x \in S : \A y \in S : ~(<<y, x>> \in R)
  BY <1>1, WFMin, Zenon
<1>4. \A y \in S : ~(y < x)
  BY <1>2, <1>3, Zenon
<1>5. QED
  BY <1>4

\* A set that has 0, and n + 1 whenever it has n below a bound, has every
\* number up to the bound.
LEMMA Induction ==
    ASSUME NEW n \in Nat, NEW S, 0 \in S,
           \A i \in 0..n - 1 : i \in S => i + 1 \in S
    PROVE  \A i \in 0..n : i \in S
<1> DEFINE Bad == {i \in 0..n : i \notin S}
<1>1. SUFFICES ASSUME Bad # {} PROVE FALSE
  OBVIOUS
<1>2. Bad \in SUBSET Nat
  BY SMT
<1>3. PICK m \in Bad : \A y \in Bad : m <= y
  BY <1>1, <1>2, LeastNatural, Zenon
<1>4. m \in 0..n /\ m \notin S /\ m # 0
  BY <1>3
<1>5. m - 1 \in 0..n - 1 /\ m - 1 \in 0..n /\ ~(m <= m - 1)
  BY <1>4, SMT
<1>6. m - 1 \in S
  BY <1>3, <1>5, Zenon
<1>7. (m - 1) + 1 \in S
  BY <1>5, <1>6, Zenon
<1>8. (m - 1) + 1 = m
  BY <1>4, SMT
<1>9. QED
  BY <1>4, <1>7, <1>8, Zenon

\* The recursion of Concat.
Joins(parts, n, f) ==
    f = [i \in 0..n |-> IF i = 0 THEN <<>> ELSE f[i - 1] \o parts[i]]

\* It defines a function.
LEMMA JoinsExists ==
    ASSUME NEW parts, NEW n \in Nat
    PROVE  \E f : Joins(parts, n, f)
<1> DEFINE S == {i \in 0..n : \E f : Joins(parts, i, f)}
<1>1. 0 \in S
  <2>1. PICK f : f = [i \in 0..0 |-> <<>>]
    BY Zenon
  <2>2. \A i \in 0..0 : i = 0
    BY SMT
  <2>3. Joins(parts, 0, f)
    BY <2>1, <2>2, Zenon DEF Joins
  <2>4. 0 \in 0..n
    BY SMT
  <2>5. QED
    BY <2>3, <2>4
<1>2. ASSUME NEW m \in 0..n - 1, m \in S
      PROVE  m + 1 \in S
  <2>1. PICK f : Joins(parts, m, f)
    BY <1>2
  <2>2. PICK g : g = [i \in 0..m + 1 |->
                        IF i = m + 1 THEN f[m] \o parts[m + 1] ELSE f[i]]
    BY Zenon
  <2>3. ASSUME NEW i \in 0..m + 1
        PROVE  g[i] = IF i = 0 THEN <<>> ELSE g[i - 1] \o parts[i]
    <3>1. CASE i = m + 1
      <4>1. i # 0 /\ i - 1 = m /\ m # m + 1 /\ m \in 0..m + 1
        BY <3>1, SMT
      <4>2. QED
        BY <2>2, <3>1, <4>1, Zenon
    <3>2. CASE i # m + 1
      <4>1. i \in 0..m
        BY <3>2, SMT
      <4>2. g[i] = IF i = 0 THEN <<>> ELSE f[i - 1] \o parts[i]
        BY <2>1, <2>2, <3>2, <4>1, Zenon DEF Joins
      <4>3. i # 0 => i - 1 \in 0..m + 1 /\ i - 1 # m + 1
        BY <4>1, SMT
      <4>4. QED
        BY <2>2, <4>2, <4>3, Zenon
    <3>3. QED
      BY <3>1, <3>2
  <2>4. Joins(parts, m + 1, g)
    BY <2>2, <2>3, Zenon DEF Joins
  <2>5. m + 1 \in 0..n
    BY SMT
  <2>6. QED
    BY <2>4, <2>5
<1> HIDE DEF S
<1>3. \A i \in 0..n : i \in S
  BY <1>1, <1>2, Induction, Zenon
<1>4. n \in 0..n
  BY SMT
<1>5. QED
  BY <1>3, <1>4 DEF S

\* Concat is the last value of the recursion.
LEMMA ConcatJoins ==
    ASSUME NEW parts, NEW n \in Nat, n = Len(parts)
    PROVE  \E f : /\ Concat(parts) = f[n] /\ f[0] = <<>>
                  /\ \A i \in 1..n : f[i] = f[i - 1] \o parts[i]
<1>1. PICK f : f = CHOOSE g : Joins(parts, n, g)
  OBVIOUS
<1>2. Joins(parts, n, f)
  BY <1>1, JoinsExists, Zenon
<1>3. Concat(parts) = f[n]
  BY <1>1, Zenon DEF Concat, Joins
<1>4. 0 \in 0..n /\ \A i \in 1..n : i \in 0..n /\ i # 0
  BY SMT
<1>5. /\ f[0] = <<>>
      /\ \A i \in 1..n : f[i] = f[i - 1] \o parts[i]
  BY <1>2, <1>4, Zenon DEF Joins
<1>6. QED
  BY <1>3, <1>5, Zenon

\* The parts of at most four bytes that f joins step by step.
Joined(parts, n, f) ==
    /\ n \in Nat
    /\ \A i \in 1..n : parts[i] \in Seq(Byte) /\ Len(parts[i]) <= 4
    /\ f[0] = <<>>
    /\ \A i \in 1..n : f[i] = f[i - 1] \o parts[i]

\* A sequence of bytes after another one.
LEMMA AppendBytes ==
    ASSUME NEW s \in Seq(Byte), NEW t \in Seq(Byte), NEW p, p = s \o t
    PROVE  /\ p \in Seq(Byte) /\ Len(p) = Len(s) + Len(t)
           /\ Len(s) \in Nat /\ Len(t) \in Nat
           /\ \A k \in 1..Len(s) : p[k] = s[k]
           /\ \A k \in 1..Len(t) : p[Len(s) + k] = t[k]
BY SMT

\* Every step joins bytes, at most four more each time.
LEMMA JoinedBytes ==
    ASSUME NEW parts, NEW n, NEW f, Joined(parts, n, f)
    PROVE  \A i \in 0..n : f[i] \in Seq(Byte) /\ Len(f[i]) <= 4 * i
<1> DEFINE S == {i \in Nat : f[i] \in Seq(Byte) /\ Len(f[i]) <= 4 * i}
<1>1. n \in Nat /\ f[0] = <<>>
  BY DEF Joined
<1>2. 0 \in S
  <2>1. <<>> \in Seq(Byte) /\ Len(<<>>) <= 4 * 0
    BY SMT
  <2>2. QED
    BY <1>1, <2>1, Zenon
<1>3. ASSUME NEW m \in 0..n - 1, m \in S
      PROVE  m + 1 \in S
  <2>1. m + 1 \in 1..n /\ (m + 1) - 1 = m /\ m + 1 \in Nat
    BY <1>1, SMT
  <2>2. PICK t : t = parts[m + 1]
    OBVIOUS
  <2>3. /\ t \in Seq(Byte) /\ Len(t) <= 4 /\ f[m + 1] = f[m] \o t
    BY <2>1, <2>2, Zenon DEF Joined
  <2>4. f[m] \in Seq(Byte) /\ Len(f[m]) <= 4 * m /\ m \in Nat
    BY <1>3
  <2>5. f[m + 1] \in Seq(Byte) /\ Len(f[m + 1]) = Len(f[m]) + Len(t)
    BY <2>3, <2>4, AppendBytes, Zenon
  <2>6. Len(f[m + 1]) <= 4 * (m + 1)
    BY <2>3, <2>4, <2>5, SMT
  <2>7. QED
    BY <2>1, <2>5, <2>6
<1> HIDE DEF S
<1>4. \A i \in 0..n : i \in S
  BY <1>1, <1>2, <1>3, Induction, Zenon
<1>5. QED
  BY <1>4 DEF S

\* What a step joined stays where it is.
LEMMA JoinedStays ==
    ASSUME NEW parts, NEW n, NEW f, Joined(parts, n, f), NEW i \in 0..n
    PROVE  /\ Len(f[i]) <= Len(f[n])
           /\ \A k \in 1..Len(f[i]) : f[n][k] = f[i][k]
<1> DEFINE S == {d \in 0..n - i :
                   /\ Len(f[i]) <= Len(f[i + d])
                   /\ \A k \in 1..Len(f[i]) : f[i + d][k] = f[i][k]}
<1>1. n \in Nat /\ n - i \in Nat /\ i \in Nat
  BY SMT DEF Joined
<1>2. 0 \in S
  <2>1. i + 0 = i /\ 0 \in 0..n - i /\ Len(f[i]) <= Len(f[i])
    <3>1. f[i] \in Seq(Byte)
      BY JoinedBytes, Zenon
    <3>2. QED
      BY <1>1, <3>1, SMT
  <2>2. QED
    BY <2>1, Zenon
<1>3. ASSUME NEW m \in 0..(n - i) - 1, m \in S
      PROVE  m + 1 \in S
  <2>1. PICK j : j = i + m
    OBVIOUS
  <2>2. /\ j + 1 \in 1..n /\ (j + 1) - 1 = j /\ i + (m + 1) = j + 1
        /\ m + 1 \in 0..n - i /\ j \in 0..n
    BY <1>1, <2>1, SMT
  <2>3. PICK t : t = parts[j + 1]
    OBVIOUS
  <2>4. t \in Seq(Byte) /\ f[j + 1] = f[j] \o t /\ f[j] \in Seq(Byte)
    BY <2>2, <2>3, JoinedBytes, Zenon DEF Joined
  <2>5. /\ Len(f[j + 1]) = Len(f[j]) + Len(t)
        /\ Len(f[j]) \in Nat /\ Len(t) \in Nat
        /\ \A k \in 1..Len(f[j]) : f[j + 1][k] = f[j][k]
    BY <2>4, AppendBytes
  <2>6. /\ Len(f[i]) <= Len(f[j]) /\ Len(f[i]) \in Nat
        /\ \A k \in 1..Len(f[i]) : f[j][k] = f[i][k]
    <3>1. f[i] \in Seq(Byte)
      BY JoinedBytes, Zenon
    <3>2. Len(f[i]) \in Nat
      BY <3>1, SMT
    <3>3. QED
      BY <1>3, <2>1, <3>2, Zenon
  <2>7. Len(f[i]) <= Len(f[j + 1]) /\ 1..Len(f[i]) \subseteq 1..Len(f[j])
    BY <2>5, <2>6, SMT
  <2>8. \A k \in 1..Len(f[i]) : f[j + 1][k] = f[i][k]
    BY <2>5, <2>6, <2>7, Zenon
  <2>9. QED
    BY <2>2, <2>7, <2>8, Zenon
<1> HIDE DEF S
<1>4. \A d \in 0..n - i : d \in S
  BY <1>1, <1>2, <1>3, Induction, Zenon
<1>5. n - i \in 0..n - i /\ i + (n - i) = n
  BY <1>1, SMT
<1>6. QED
  BY <1>4, <1>5, Zenon DEF S

\* Each part is found after the ones before it.
Placed(parts, n, f, i) ==
    /\ Len(f[i]) = Len(f[i - 1]) + Len(parts[i])
    /\ Len(f[i - 1]) \in Nat /\ Len(parts[i]) \in Nat
    /\ Len(f[i]) <= Len(f[n])
    /\ \A k \in 1..Len(parts[i]) : f[n][Len(f[i - 1]) + k] = parts[i][k]

LEMMA JoinedParts ==
    ASSUME NEW parts, NEW n, NEW f, Joined(parts, n, f), NEW i \in 1..n
    PROVE  Placed(parts, n, f, i)
<1>1. i - 1 \in 0..n /\ i \in 0..n /\ n \in Nat
  BY SMT DEF Joined
<1>2. /\ f[i - 1] \in Seq(Byte) /\ parts[i] \in Seq(Byte)
      /\ f[i] = f[i - 1] \o parts[i]
  BY <1>1, JoinedBytes, Zenon DEF Joined
<1>3. /\ Len(f[i]) = Len(f[i - 1]) + Len(parts[i])
      /\ Len(f[i - 1]) \in Nat /\ Len(parts[i]) \in Nat
      /\ \A k \in 1..Len(parts[i]) : f[i][Len(f[i - 1]) + k] = parts[i][k]
  <2>1. PICK s, t, p : s = f[i - 1] /\ t = parts[i] /\ p = f[i]
    BY Zenon
  <2>2. s \in Seq(Byte) /\ t \in Seq(Byte) /\ p = s \o t
    BY <1>2, <2>1, Zenon
  <2>3. /\ Len(p) = Len(s) + Len(t) /\ Len(s) \in Nat /\ Len(t) \in Nat
        /\ \A k \in 1..Len(t) : p[Len(s) + k] = t[k]
    BY <2>2, AppendBytes, SMT
  <2>4. QED
    BY <2>1, <2>3, Zenon
<1>4. /\ Len(f[i]) <= Len(f[n])
      /\ \A k \in 1..Len(f[i]) : f[n][k] = f[i][k]
  BY <1>1, JoinedStays
<1>5. ASSUME NEW k \in 1..Len(parts[i])
      PROVE  Len(f[i - 1]) + k \in 1..Len(f[i])
  <2>1. PICK a \in Nat, b \in Nat : a = Len(f[i - 1]) /\ b = Len(parts[i])
    BY <1>3
  <2>2. Len(f[i]) = a + b /\ k \in 1..b
    BY <1>3, <2>1
  <2>3. a + k \in 1..a + b
    BY <2>2, SMT
  <2>4. QED
    BY <2>1, <2>2, <2>3, Zenon
<1>6. QED
  BY <1>3, <1>4, <1>5, Zenon DEF Placed

\* Concat joins its parts.
LEMMA ConcatJoined ==
    ASSUME NEW parts, NEW n \in Nat, n = Len(parts),
           \A i \in 1..n : parts[i] \in Seq(Byte) /\ Len(parts[i]) <= 4
    PROVE  \E f : Joined(parts, n, f) /\ Concat(parts) = f[n]
BY ConcatJoins, Zenon DEF Joined

\* A Unicode character.
Char(c) == c \in Nat /\ (c < 55296 \/ (c > 57343 /\ c < 1114112))

LEMMA TextChars ==
    ASSUME NEW text, IsText(text)
    PROVE  /\ text \in Seq(Nat) /\ DOMAIN text = 1..Len(text)
           /\ Len(text) \in Nat /\ 4 * Len(text) < 2147483644
           /\ \A i \in 1..Len(text) : Char(text[i])
<1>1. /\ text \in Seq(Nat) /\ Len(text) < 536870911
      /\ \A i \in DOMAIN text :
             text[i] < 55296 \/ (text[i] > 57343 /\ text[i] < 1114112)
  BY SMT DEF IsText
<1>2. DOMAIN text = 1..Len(text) /\ Len(text) \in Nat
  BY <1>1, SMT
<1>3. \A i \in 1..Len(text) : text[i] \in Nat
  BY <1>1, SMT
<1>4. \A i \in 1..Len(text) : Char(text[i])
  BY <1>1, <1>2, <1>3, SMT DEF Char
<1>5. QED
  BY <1>1, <1>2, <1>4, SMT

\* Every character is a uint32.
LEMMA CharRange ==
    ASSUME NEW c, Char(c)
    PROVE  c \in Int /\ 0 <= c /\ c < Uint32Values
BY SMT DEF Char, Uint32Values

\* The bytes of a character in UTF-8.
LEMMA UTF8Bytes ==
    ASSUME NEW c, Char(c)
    PROVE  UTF8(c) \in Seq(Byte) /\ Len(UTF8(c)) <= 4
<1>1. c \in Nat /\ (c < 55296 \/ (c > 57343 /\ c < 1114112))
  BY DEF Char
<1>2. ~((c >= 55296 /\ c <= 57343) \/ c < 0 \/ c > 1114111)
  BY <1>1, SMT
<1>3. UTF8(c) = IF c < 128 THEN <<c>>
                ELSE IF c < 2048 THEN <<192 + c \div 64, 128 + (c % 64)>>
                ELSE IF c < 65536
                     THEN <<224 + c \div 4096, 128 + ((c \div 64) % 64),
                            128 + (c % 64)>>
                ELSE <<240 + c \div 262144, 128 + ((c \div 4096) % 64),
                       128 + ((c \div 64) % 64), 128 + (c % 64)>>
  BY <1>2, SMT DEF UTF8
<1>4. CASE c < 128
  <2>1. PICK b \in Byte : b = c
    BY <1>1, <1>4, SMT DEF Byte
  <2>2. UTF8(c) = <<b>>
    BY <1>3, <1>4, <2>1, SMT
  <2>3. QED
    BY <2>2, SMT
<1>5. CASE ~(c < 128) /\ c < 2048
  <2>1. 192 + c \div 64 \in Byte /\ 128 + (c % 64) \in Byte
    BY <1>1, <1>5, SMT DEF Byte
  <2>2. PICK a \in Byte, b \in Byte : a = 192 + c \div 64 /\ b = 128 + (c % 64)
    BY <2>1, SMT
  <2>3. UTF8(c) = <<a, b>>
    BY <1>3, <1>5, <2>2, SMT
  <2>4. QED
    BY <2>3, SMT
<1>6. CASE ~(c < 128) /\ ~(c < 2048) /\ c < 65536
  <2>1. /\ 224 + c \div 4096 \in Byte /\ 128 + ((c \div 64) % 64) \in Byte
        /\ 128 + (c % 64) \in Byte
    BY <1>1, <1>6, SMT DEF Byte
  <2>2. PICK a \in Byte, b \in Byte, d \in Byte :
           /\ a = 224 + c \div 4096 /\ b = 128 + ((c \div 64) % 64)
           /\ d = 128 + (c % 64)
    BY <2>1, SMT
  <2>3. UTF8(c) = <<a, b, d>>
    BY <1>3, <1>6, <2>2, SMT
  <2>4. QED
    BY <2>3, SMT
<1>7. CASE ~(c < 128) /\ ~(c < 2048) /\ ~(c < 65536)
  <2>1. /\ 240 + c \div 262144 \in Byte /\ 128 + ((c \div 4096) % 64) \in Byte
        /\ 128 + ((c \div 64) % 64) \in Byte /\ 128 + (c % 64) \in Byte
    BY <1>1, <1>7, SMT DEF Byte
  <2>2. PICK a \in Byte, b \in Byte, d \in Byte, e \in Byte :
           /\ a = 240 + c \div 262144 /\ b = 128 + ((c \div 4096) % 64)
           /\ d = 128 + ((c \div 64) % 64) /\ e = 128 + (c % 64)
    BY <2>1, SMT
  <2>3. UTF8(c) = <<a, b, d, e>>
    BY <1>3, <1>7, <2>2, SMTT(20)
  <2>4. QED
    BY <2>3, SMT
<1>8. QED
  BY <1>4, <1>5, <1>6, <1>7, SMT

\* The two halves of a character beyond sixteen bits, and the rune that
\* utf16.Decode makes of them.
High(c) == 55296 + (c - 65536) \div 1024
Low(c) == 56320 + ((c - 65536) % 1024)

LEMMA SurrogatePair ==
    ASSUME NEW c, Char(c), ~(c < 65536)
    PROVE  /\ High(c) \in Nat /\ High(c) < 65536 /\ HighSurrogate(High(c))
           /\ Low(c) \in Nat /\ Low(c) < 65536 /\ LowSurrogate(Low(c))
           /\ PairRune(High(c), Low(c)) = c
<1>1. c \in Nat /\ c < 1114112 /\ c >= 65536
  BY SMT DEF Char
<1>2. PICK q \in Int, r \in Int :
         /\ q = (c - 65536) \div 1024 /\ r = (c - 65536) % 1024
         /\ c - 65536 = 1024 * q + r /\ 0 <= r /\ r < 1024
  BY <1>1, SMT
<1>3. 0 <= q /\ q < 1024
  BY <1>1, <1>2, SMT
<1>4. High(c) = 55296 + q /\ Low(c) = 56320 + r
  BY <1>2, SMTT(20) DEF High, Low
<1>5. QED
  BY <1>1, <1>2, <1>3, <1>4, SMT DEF HighSurrogate, LowSurrogate, PairRune

\* A character of sixteen bits is no surrogate.
LEMMA NoSurrogate ==
    ASSUME NEW c, Char(c), c < 65536
    PROVE  ~HighSurrogate(c) /\ LoneRune(c) = c /\ c \in Int /\ 0 <= c
BY SMTT(20) DEF Char, HighSurrogate, LoneRune

\* The bytes of a character in UTF-16.
LEMMA UTF16Bytes ==
    ASSUME NEW c, Char(c)
    PROVE  /\ UTF16(c) \in Seq(Byte)
           /\ c < 65536 => UTF16(c) = PutUint16(c) /\ Len(UTF16(c)) = 2
           /\ ~(c < 65536) =>
                /\ Len(UTF16(c)) = 4
                /\ UTF16(c)[1] = PutUint16(High(c))[1]
                /\ UTF16(c)[2] = PutUint16(High(c))[2]
                /\ UTF16(c)[3] = PutUint16(Low(c))[1]
                /\ UTF16(c)[4] = PutUint16(Low(c))[2]
<1>1. c \in Int
  BY SMT DEF Char
<1>2. CASE c < 65536
  <2>1. UTF16(c) = PutUint16(c)
    BY <1>2, SMT DEF UTF16
  <2>2. PutUint16(c) \in Seq(Byte) /\ Len(PutUint16(c)) = 2
    BY <1>1, PutBytes, SMTT(20)
  <2>3. QED
    BY <1>2, <2>1, <2>2, SMT
<1>3. CASE ~(c < 65536)
  <2>1. PICK s, t : s = PutUint16(High(c)) /\ t = PutUint16(Low(c))
    OBVIOUS
  <2>2. High(c) \in Int /\ Low(c) \in Int
    BY <1>3, SurrogatePair, SMT
  <2>3. s \in Seq(Byte) /\ t \in Seq(Byte)
    BY <2>1, <2>2, PutBytes, Zenon
  <2>4. Len(s) = 2 /\ Len(t) = 2
    BY <2>1, <2>2, PutBytes, Zenon
  <2>5. PICK p : p = s \o t
    BY Zenon
  <2>6. /\ p \in Seq(Byte) /\ Len(p) = Len(s) + Len(t)
        /\ \A k \in 1..Len(s) : p[k] = s[k]
        /\ \A k \in 1..Len(t) : p[Len(s) + k] = t[k]
    BY <2>3, <2>5, AppendBytes, SMT
  <2>7. 1 \in 1..2 /\ 2 \in 1..2 /\ 2 + 1 = 3 /\ 2 + 2 = 4
    BY SMT
  <2>8. /\ p \in Seq(Byte) /\ Len(p) = 4
        /\ p[1] = s[1] /\ p[2] = s[2] /\ p[3] = t[1] /\ p[4] = t[2]
    BY <2>4, <2>6, <2>7, Zenon
  <2>9. UTF16(c) = p
    BY <1>3, <2>1, <2>5, SMT DEF UTF16, High, Low
  <2>10. QED
    BY <1>3, <2>1, <2>8, <2>9, SMTT(20)
<1>4. QED
  BY <1>2, <1>3, SMT

\* The stretch of w bytes, a bytes into p, is q.
Spells(p, a, w, q) ==
    /\ p \in Seq(Byte) /\ q \in Seq(Byte) /\ w \in Nat /\ a \in Nat
    /\ w = Len(q) /\ a + w <= Len(p)
    /\ \A k \in 1..w : p[a + k] = q[k]

LEMMA SubSeqIs ==
    ASSUME NEW p, NEW a, NEW w, NEW q, Spells(p, a, w, q)
    PROVE  SubSeq(p, a + 1, a + w) = q
<1>1. PICK s : s = SubSeq(p, a + 1, a + w)
  BY Zenon
<1>2. /\ p \in Seq(Byte) /\ q \in Seq(Byte) /\ w \in Nat /\ a \in Nat
      /\ a + w <= Len(p)
  BY DEF Spells
<1>3. s \in Seq(Byte) /\ Len(s) = w /\ \A k \in 1..w : s[k] = p[a + k]
  BY <1>1, <1>2, SMT
<1>4. Len(s) = Len(q) /\ \A k \in 1..Len(s) : s[k] = q[k]
  BY <1>3, Zenon DEF Spells
<1>5. s = q
  BY <1>2, <1>3, <1>4, SameElements, Zenon
<1>6. QED
  BY <1>1, <1>5

\* The two and the four bytes of a number, decoded.
LEMMA DecodeGroup ==
    ASSUME NEW c \in Int, 0 <= c
    PROVE  /\ c < 65536 => DecodeUnsigned(PutUint16(c)) = c
           /\ c < Uint32Values => DecodeUnsigned(PutUint32(c)) = c
<1>1. Len(PutUint16(c)) = 2 /\ Len(PutUint32(c)) = 4
  BY PutBytes, SMT
<1>2. /\ DecodeUnsigned(PutUint16(c)) = Uint16(PutUint16(c))
      /\ DecodeUnsigned(PutUint32(c)) = Uint32(PutUint32(c))
  BY <1>1, SMT DEF DecodeUnsigned
<1>3. QED
  BY <1>2, Uint16Inverse, Uint32Inverse, SMT

\* The parts of a text, one for each character.
LEMMA PartsOf ==
    ASSUME NEW parts, NEW n \in Nat, parts \in [1..n -> Seq(Byte)]
    PROVE  n = Len(parts)
BY SMT

\* A stretch of a part is the same stretch of the whole.
LEMMA Stretch ==
    ASSUME NEW parts, NEW n, NEW f, Joined(parts, n, f), NEW i \in 1..n,
           NEW b, NEW w, NEW q, Spells(parts[i], b, w, q)
    PROVE  Spells(f[n], Len(f[i - 1]) + b, w, q)
<1>1. Placed(parts, n, f, i)
  BY JoinedParts, Zenon
<1>2. f[n] \in Seq(Byte)
  <2>1. n \in Nat
    BY DEF Joined
  <2>2. n \in 0..n
    BY <2>1, SMT
  <2>3. QED
    BY <2>2, JoinedBytes, Zenon
<1>3. Len(f[n]) \in Nat
  BY <1>2, SMT
<1>4. PICK c \in Nat, d \in Nat, e \in Nat :
         /\ c = Len(f[i - 1]) /\ d = Len(parts[i]) /\ e = Len(f[n])
         /\ c + d <= e
  BY <1>1, <1>3, Zenon DEF Placed
<1>5. /\ q \in Seq(Byte) /\ w \in Nat /\ b \in Nat /\ w = Len(q) /\ b + w <= d
      /\ \A k \in 1..w : parts[i][b + k] = q[k]
  BY <1>4, Zenon DEF Spells
<1>6. w \in Nat /\ b \in Nat /\ b + w <= d /\ c + d <= e
  BY <1>4, <1>5, Zenon
<1>7. c + b \in Nat /\ (c + b) + w <= e
  BY <1>6, SMT
<1>8. ASSUME NEW k \in 1..w
      PROVE  f[n][(c + b) + k] = q[k]
  <2>1. b + k \in 1..d /\ (c + b) + k = c + (b + k)
    BY <1>6, SMT
  <2>2. f[n][c + (b + k)] = parts[i][b + k]
    BY <1>1, <1>4, <2>1, Zenon DEF Placed
  <2>3. QED
    BY <1>5, <2>1, <2>2, Zenon
<1>9. QED
  BY <1>2, <1>4, <1>5, <1>7, <1>8, Zenon DEF Spells

\* UCS-4: four bytes each, and the groups of four are the characters.
LEMMA UCS4Groups ==
    ASSUME NEW text, IsText(text), NEW p,
           p = Concat([i \in DOMAIN text |-> PutUint32(text[i])])
    PROVE  /\ p \in Seq(Byte) /\ Len(p) <= 4 * Len(text)
           /\ Groups(p, 4) = text
<1>1. PICK n \in Nat : n = Len(text)
  BY TextChars, SMT
<1>2. /\ text \in Seq(Nat) /\ DOMAIN text = 1..n
      /\ \A i \in 1..n : Char(text[i])
  BY <1>1, TextChars, SMT
<1>3. PICK parts : parts = [i \in DOMAIN text |-> PutUint32(text[i])]
  OBVIOUS
<1>4. \A i \in 1..n : text[i] \in Int /\ 0 <= text[i] /\ text[i] < Uint32Values
  BY <1>2, CharRange, Zenon
<1>5. \A i \in 1..n : parts[i] = PutUint32(text[i])
  BY <1>2, <1>3, Zenon
<1>6. \A i \in 1..n : parts[i] \in Seq(Byte) /\ Len(parts[i]) = 4
  BY <1>4, <1>5, PutBytes, Zenon
<1>7. n = Len(parts)
  <2>1. parts \in [1..n -> Seq(Byte)]
    BY <1>2, <1>3, <1>5, <1>6, Zenon
  <2>2. QED
    BY <2>1, PartsOf, Zenon
<1>8. PICK f : Joined(parts, n, f) /\ p = f[n]
  <2>1. 4 <= 4
    BY SMT
  <2>2. \A i \in 1..n : parts[i] \in Seq(Byte) /\ Len(parts[i]) <= 4
    BY <1>6, <2>1, Zenon
  <2>3. QED
    BY <1>3, <1>7, <2>2, ConcatJoined, Zenon
<1>9. \A i \in 0..n : Len(f[i]) = 4 * i
  <2> DEFINE S == {i \in Nat : Len(f[i]) = 4 * i}
  <2>1. 0 \in S
    <3>1. f[0] = <<>>
      BY <1>8, Zenon DEF Joined
    <3>2. Len(<<>>) = 4 * 0
      BY SMT
    <3>3. QED
      BY <3>1, <3>2
  <2>2. ASSUME NEW m \in 0..n - 1, m \in S
        PROVE  m + 1 \in S
    <3>1. m + 1 \in 1..n /\ (m + 1) - 1 = m /\ m + 1 \in Nat /\ m \in Nat
      BY SMT
    <3>2. Len(f[m + 1]) = Len(f[m]) + 4
      <4>1. Joined(parts, n, f) /\ m + 1 \in 1..n
        BY <1>8, <3>1
      <4>2. Placed(parts, n, f, m + 1)
        BY <4>1, JoinedParts, Zenon
      <4>3. QED
        BY <1>6, <3>1, <4>2, Zenon DEF Placed
    <3>3. Len(f[m]) = 4 * m
      BY <2>2
    <3>4. 4 * m + 4 = 4 * (m + 1)
      BY <3>1, SMT
    <3>5. QED
      BY <3>1, <3>2, <3>3, <3>4, SMTT(20)
  <2> HIDE DEF S
  <2>3. \A i \in 0..n : i \in S
    BY <2>1, <2>2, Induction, Zenon
  <2>4. QED
    BY <2>3 DEF S
<1>10. p \in Seq(Byte) /\ Len(p) = 4 * n
  <2>1. n \in 0..n
    BY SMT
  <2>2. QED
    BY <1>8, <1>9, <2>1, JoinedBytes, Zenon
<1>11. ASSUME NEW i \in 1..n
       PROVE  DecodeUnsigned(SubSeq(p, 4 * (i - 1) + 1, 4 * i)) = text[i]
  <2>1. PICK a \in Nat : a = 4 * (i - 1) /\ a + 4 = 4 * i /\ a + 4 <= 4 * n
    BY SMT
  <2>2. i - 1 \in 0..n
    BY SMT
  <2>3. Len(f[i - 1]) = a
    BY <1>9, <2>1, <2>2, Zenon
  <2>4. SubSeq(f[n], a + 1, a + 4) = parts[i]
    <3>1. PICK q : q = parts[i]
      OBVIOUS
    <3>2. q \in Seq(Byte) /\ Len(q) = 4
      BY <1>6, <3>1
    <3>3. /\ 0 \in Nat /\ 4 \in Nat /\ 0 + 4 <= 4 /\ a = a + 0
          /\ \A k \in 1..4 : 0 + k = k
      BY SMT
    <3>4. Spells(parts[i], 0, 4, q)
      BY <3>1, <3>2, <3>3, Zenon DEF Spells
    <3>5. a = Len(f[i - 1]) + 0
      BY <2>3, <3>3, Zenon
    <3>6. Spells(f[n], Len(f[i - 1]) + 0, 4, q)
      BY <1>8, <3>4, Stretch, Zenon
    <3>7. QED
      BY <3>1, <3>5, <3>6, SubSeqIs, Zenon
  <2>5. SubSeq(p, a + 1, a + 4) = parts[i]
    BY <1>8, <2>4, Zenon
  <2>6. DecodeUnsigned(parts[i]) = text[i]
    <3>1. PICK c : c = text[i]
      OBVIOUS
    <3>2. c \in Int /\ 0 <= c /\ c < Uint32Values
      BY <1>4, <3>1, Zenon
    <3>3. DecodeUnsigned(PutUint32(c)) = c
      BY <3>2, DecodeGroup, SMT
    <3>4. QED
      BY <1>5, <3>1, <3>3, Zenon
  <2>7. QED
    BY <2>1, <2>5, <2>6, Zenon
<1>12. Groups(p, 4) = text
  <2>1. Len(p) \div 4 = n
    BY <1>10, SMT
  <2>2. Groups(p, 4) = [i \in 1..n |-> text[i]]
    BY <1>11, <2>1, Zenon DEF Groups
  <2>3. text = [i \in 1..n |-> text[i]]
    BY <1>2, SMT
  <2>4. QED
    BY <2>2, <2>3
<1>13. QED
  BY <1>1, <1>10, <1>12, SMTT(20)

\* The recursion of UTF16Decode over the L units of u, from unit a on.
PairAt(u, L, i) == i < L /\ HighSurrogate(u[i]) /\ LowSurrogate(u[i + 1])
FromUnit(u, L, g, i) ==
    IF i > L THEN <<>>
    ELSE IF PairAt(u, L, i) THEN <<PairRune(u[i], u[i + 1])>> \o g[i + 2]
    ELSE <<LoneRune(u[i])>> \o g[i + 1]
AllRunes(u, L, g) == \A i \in 1..L + 1 : g[i] = FromUnit(u, L, g, i)
Runes(u, L, a, g) == g = [i \in a..L + 1 |-> FromUnit(u, L, g, i)]

\* It defines a function.
LEMMA RunesExist ==
    ASSUME NEW u, NEW L \in Nat
    PROVE  \E g : Runes(u, L, 1, g)
<1> DEFINE S == {d \in 0..L : \E g : Runes(u, L, (L + 1) - d, g)}
<1>1. 0 \in S
  <2>1. PICK g : g = [i \in (L + 1) - 0..L + 1 |-> <<>>]
    BY Zenon
  <2>2. \A i \in (L + 1) - 0..L + 1 : i > L
    BY SMT
  <2>3. Runes(u, L, (L + 1) - 0, g)
    BY <2>1, <2>2, Zenon DEF Runes, FromUnit
  <2>4. 0 \in 0..L
    BY SMT
  <2>5. QED
    BY <2>3, <2>4
<1>2. ASSUME NEW d \in 0..L - 1, d \in S
      PROVE  d + 1 \in S
  <2>1. PICK g : Runes(u, L, (L + 1) - d, g)
    BY <1>2
  <2>2. PICK a \in Nat : a = (L + 1) - (d + 1) /\ (L + 1) - d = a + 1 /\ a <= L
    BY SMT
  <2>3. PICK h : h = [i \in a..L + 1 |->
                        IF i = a THEN FromUnit(u, L, g, i) ELSE g[i]]
    BY Zenon
  <2>4. ASSUME NEW i \in a..L + 1
        PROVE  h[i] = FromUnit(u, L, h, i)
    <3>1. h[i] = FromUnit(u, L, g, i)
      <4>1. i # a => i \in a + 1..L + 1
        BY SMT
      <4>2. QED
        BY <2>1, <2>2, <2>3, <4>1, ZenonT(30) DEF Runes
    <3>2. ~(i > L) => i + 1 \in a..L + 1 /\ i + 1 # a
      BY <2>2, SMT
    <3>3. i < L => i + 2 \in a..L + 1 /\ i + 2 # a
      BY <2>2, SMT
    <3>4. ~(i > L) => h[i + 1] = g[i + 1]
      BY <2>3, <3>2, Zenon
    <3>5. PairAt(u, L, i) => h[i + 2] = g[i + 2]
      BY <2>3, <3>3, Zenon DEF PairAt
    <3>6. QED
      BY <3>1, <3>4, <3>5, Zenon DEF FromUnit
  <2>5. Runes(u, L, a, h)
    BY <2>3, <2>4, Zenon DEF Runes
  <2>6. d + 1 \in 0..L
    BY SMTT(20)
  <2>7. QED
    BY <2>2, <2>5, <2>6
<1> HIDE DEF S
<1>3. \A d \in 0..L : d \in S
  BY <1>1, <1>2, Induction, Zenon
<1>4. L \in 0..L /\ (L + 1) - L = 1
  BY SMT
<1>5. QED
  BY <1>3, <1>4, Zenon DEF S

\* UTF16Decode is the value of the recursion at the first unit.
LEMMA UTF16DecodeRunes ==
    ASSUME NEW u, NEW L \in Nat, L = Len(u)
    PROVE  \E g : /\ UTF16Decode(u) = g[1]
                  /\ AllRunes(u, L, g)
<1>1. PICK g : g = CHOOSE h : Runes(u, L, 1, h)
  OBVIOUS
<1>2. Runes(u, L, 1, g)
  BY <1>1, RunesExist, Zenon
<1>3. UTF16Decode(u) = g[1]
  BY <1>1, Zenon DEF UTF16Decode, Runes, FromUnit, PairAt
<1>4. QED
  BY <1>2, <1>3, ZenonT(30) DEF Runes, AllRunes

\* Character j of text is one unit of u, or a pair of them, and the next one
\* begins where it ends; o has the number of units before each character.
Unit(u, L, o, text, j) ==
    /\ o[j - 1] \in Nat
    /\ \/ /\ o[j] = o[j - 1] + 1 /\ o[j] <= L
          /\ ~HighSurrogate(u[o[j - 1] + 1])
          /\ LoneRune(u[o[j - 1] + 1]) = text[j]
       \/ /\ o[j] = o[j - 1] + 2 /\ o[j] <= L
          /\ HighSurrogate(u[o[j - 1] + 1])
          /\ LowSurrogate(u[o[j - 1] + 2])
          /\ PairRune(u[o[j - 1] + 1], u[o[j - 1] + 2]) = text[j]

\* The end of a sequence, one element longer.
LEMMA LongerEnd ==
    ASSUME NEW text \in Seq(Nat), NEW n \in Nat, n = Len(text),
           NEW j \in 1..n
    PROVE  SubSeq(text, j, n) = <<text[j]>> \o SubSeq(text, j + 1, n)
BY SMT

\* One step of the decoder consumes one character.
Consumes(g, o, text, j) == g[o[j - 1] + 1] = <<text[j]>> \o g[o[j] + 1]

LEMMA UnitDecoded ==
    ASSUME NEW u, NEW L \in Nat, NEW o, NEW text, NEW j,
           Unit(u, L, o, text, j), NEW g,
           AllRunes(u, L, g)
    PROVE  Consumes(g, o, text, j)
<1>1. PICK a \in Nat : a = o[j - 1]
  BY Zenon DEF Unit
<1>2. CASE /\ o[j] = a + 1 /\ o[j] <= L
           /\ ~HighSurrogate(u[a + 1]) /\ LoneRune(u[a + 1]) = text[j]
  <2>1. a + 1 <= L
    BY <1>2, Zenon
  <2>2. a + 1 \in 1..L + 1 /\ ~(a + 1 > L)
    BY <2>1, SMT
  <2>3. g[a + 1] = <<LoneRune(u[a + 1])>> \o g[(a + 1) + 1]
    BY <1>2, <2>2, Zenon DEF FromUnit, PairAt, AllRunes
  <2>4. QED
    BY <1>1, <1>2, <2>3, Zenon DEF Consumes
<1>3. CASE /\ o[j] = a + 2 /\ o[j] <= L
           /\ HighSurrogate(u[a + 1]) /\ LowSurrogate(u[a + 2])
           /\ PairRune(u[a + 1], u[a + 2]) = text[j]
  <2>1. a + 2 <= L
    BY <1>3, Zenon
  <2>2. /\ a + 1 \in 1..L + 1 /\ ~(a + 1 > L) /\ a + 1 < L
        /\ (a + 1) + 1 = a + 2 /\ (a + 1) + 2 = (a + 2) + 1
    BY <2>1, SMT
  <2>3. g[a + 1] = <<PairRune(u[a + 1], u[a + 2])>> \o g[(a + 1) + 2]
    BY <1>3, <2>2, Zenon DEF FromUnit, PairAt, AllRunes
  <2>4. QED
    BY <1>1, <1>3, <2>2, <2>3, Zenon DEF Consumes
<1>4. QED
  BY <1>1, <1>2, <1>3, Zenon DEF Unit

\* utf16.Decode finds the characters again.
LEMMA UTF16Inverse ==
    ASSUME NEW text \in Seq(Nat), NEW n \in Nat, n = Len(text),
           NEW u, NEW L \in Nat, L = Len(u), NEW o, o[0] = 0, o[n] = L,
           \A j \in 1..n : Unit(u, L, o, text, j)
    PROVE  UTF16Decode(u) = text
<1>1. PICK g : /\ UTF16Decode(u) = g[1]
               /\ AllRunes(u, L, g)
  BY UTF16DecodeRunes, Zenon
<1> DEFINE S == {d \in 0..n : g[o[n - d] + 1] = SubSeq(text, (n - d) + 1, n)}
<1>2. 0 \in S
  <2>1. L + 1 \in 1..L + 1 /\ L + 1 > L /\ n - 0 = n /\ 0 \in 0..n
    BY SMT
  <2>2. g[L + 1] = <<>>
    BY <1>1, <2>1, Zenon DEF FromUnit, AllRunes
  <2>3. SubSeq(text, n + 1, n) = <<>>
    BY SMT
  <2>4. QED
    BY <2>1, <2>2, <2>3, Zenon
<1>3. ASSUME NEW d \in 0..n - 1, d \in S
      PROVE  d + 1 \in S
  <2>1. PICK j \in 1..n : /\ j = n - d /\ n - (d + 1) = j - 1 /\ (j - 1) + 1 = j
    BY SMT
  <2>2. g[o[j - 1] + 1] = <<text[j]>> \o g[o[j] + 1]
    <3>1. Unit(u, L, o, text, j) /\ AllRunes(u, L, g)
      BY <1>1, Zenon
    <3>2. Consumes(g, o, text, j)
      BY <3>1, UnitDecoded, Zenon
    <3>3. QED
      BY <3>2, Zenon DEF Consumes
  <2>3. g[o[j] + 1] = SubSeq(text, j + 1, n)
    BY <1>3, <2>1, Zenon
  <2>4. SubSeq(text, j, n) = <<text[j]>> \o SubSeq(text, j + 1, n)
    BY LongerEnd, Zenon
  <2>5. d + 1 \in 0..n
    BY SMT
  <2>6. QED
    BY <2>1, <2>2, <2>3, <2>4, <2>5, Zenon
<1> HIDE DEF S
<1>4. \A d \in 0..n : d \in S
  BY <1>2, <1>3, Induction, Zenon
<1>5. n \in 0..n /\ n - n = 0 /\ 0 + 1 = 1
  BY SMT
<1>6. g[1] = SubSeq(text, 1, n)
  BY <1>4, <1>5, ZenonT(30) DEF S
<1>7. SubSeq(text, 1, n) = text
  BY SMT
<1>8. QED
  BY <1>1, <1>6, <1>7, Zenon

\* A unit of UTF-16 in the payload is that element of its groups.
Sixteen(c) == c \in Int /\ 0 <= c /\ c < 65536

LEMMA GroupAt ==
    ASSUME NEW p, NEW a \in Nat, NEW c, Sixteen(c),
           Spells(p, 2 * a, 2, PutUint16(c))
    PROVE  a + 1 <= Len(p) \div 2 /\ Groups(p, 2)[a + 1] = c
<1>1. p \in Seq(Byte) /\ 2 * a + 2 <= Len(p)
  BY Zenon DEF Spells
<1>2. PICK m \in Nat : m = Len(p)
  BY <1>1, SMT
<1>3. 2 * a + 2 <= m
  BY <1>1, <1>2, Zenon
<1>4. a + 1 <= m \div 2 /\ a + 1 \in 1..m \div 2
  BY <1>3, SMT
<1>5. 2 * ((a + 1) - 1) + 1 = 2 * a + 1 /\ 2 * (a + 1) = 2 * a + 2
  BY SMT
<1>6. SubSeq(p, 2 * a + 1, 2 * a + 2) = PutUint16(c)
  BY SubSeqIs, Zenon
<1>7. DecodeUnsigned(PutUint16(c)) = c
  BY DecodeGroup, SMT DEF Sixteen
<1>8. Groups(p, 2)[a + 1] = c
  BY <1>2, <1>4, <1>5, <1>6, <1>7, Zenon DEF Groups
<1>9. QED
  BY <1>2, <1>4, <1>8, Zenon

\* The two bytes of a unit, at the beginning of a part or after another unit.
LEMMA SpellsUnit ==
    ASSUME NEW s \in Seq(Byte), NEW c \in Int
    PROVE  /\ s = PutUint16(c) => Spells(s, 0, 2, PutUint16(c))
           /\ /\ Len(s) = 4 /\ s[1] = PutUint16(c)[1]
              /\ s[2] = PutUint16(c)[2]
              => Spells(s, 0, 2, PutUint16(c))
           /\ /\ Len(s) = 4 /\ s[3] = PutUint16(c)[1]
              /\ s[4] = PutUint16(c)[2]
              => Spells(s, 2, 2, PutUint16(c))
<1>1. PICK q : q = PutUint16(c)
  OBVIOUS
<1>2. q \in Seq(Byte) /\ Len(q) = 2
  BY <1>1, PutBytes, Zenon
<1>3. /\ 0 \in Nat /\ 2 \in Nat /\ 0 + 2 <= 2 /\ 0 + 2 <= 4 /\ 2 + 2 <= 4
      /\ \A k \in 1..2 : k = 1 \/ k = 2
      /\ 0 + 1 = 1 /\ 0 + 2 = 2 /\ 2 + 1 = 3 /\ 2 + 2 = 4
  BY SMT
<1>4. s = q => Spells(s, 0, 2, q)
  BY <1>2, <1>3, Zenon DEF Spells
<1>5. Len(s) = 4 /\ s[1] = q[1] /\ s[2] = q[2] => Spells(s, 0, 2, q)
  BY <1>2, <1>3, Zenon DEF Spells
<1>6. Len(s) = 4 /\ s[3] = q[1] /\ s[4] = q[2] => Spells(s, 2, 2, q)
  BY <1>2, <1>3, Zenon DEF Spells
<1>7. QED
  BY <1>1, <1>4, <1>5, <1>6, Zenon

\* The bytes of a character in UTF-16: one unit, or a pair of surrogates.
OneUnit(c, s) ==
    /\ s \in Seq(Byte) /\ Len(s) = 2
    /\ Sixteen(c) /\ Spells(s, 0, 2, PutUint16(c))
    /\ ~HighSurrogate(c) /\ LoneRune(c) = c
TwoUnits(c, s) ==
    /\ s \in Seq(Byte) /\ Len(s) = 4
    /\ Sixteen(High(c)) /\ Spells(s, 0, 2, PutUint16(High(c)))
    /\ Sixteen(Low(c)) /\ Spells(s, 2, 2, PutUint16(Low(c)))
    /\ HighSurrogate(High(c)) /\ LowSurrogate(Low(c))
    /\ PairRune(High(c), Low(c)) = c

LEMMA UTF16Units ==
    ASSUME NEW c, Char(c)
    PROVE  OneUnit(c, UTF16(c)) \/ TwoUnits(c, UTF16(c))
<1>1. PICK s : s = UTF16(c)
  OBVIOUS
<1>2. s \in Seq(Byte)
  BY <1>1, UTF16Bytes, SMTT(20)
<1>3. CASE c < 65536
  <2>1. s = PutUint16(c) /\ Len(s) = 2
    BY <1>1, <1>3, UTF16Bytes, SMTT(20)
  <2>2. Sixteen(c) /\ ~HighSurrogate(c) /\ LoneRune(c) = c /\ c \in Int
    BY <1>3, NoSurrogate, SMTT(20) DEF Sixteen
  <2>3. Spells(s, 0, 2, PutUint16(c))
    BY <1>2, <2>1, <2>2, SpellsUnit, SMTT(20)
  <2>4. OneUnit(c, s)
    BY <1>2, <2>1, <2>2, <2>3, SMTT(20) DEF OneUnit
  <2>5. QED
    BY <1>1, <2>4, SMT
<1>4. CASE ~(c < 65536)
  <2>1. /\ Len(s) = 4
        /\ s[1] = PutUint16(High(c))[1] /\ s[2] = PutUint16(High(c))[2]
        /\ s[3] = PutUint16(Low(c))[1] /\ s[4] = PutUint16(Low(c))[2]
    BY <1>1, <1>4, UTF16Bytes, SMTT(20)
  <2>2. /\ Sixteen(High(c)) /\ HighSurrogate(High(c)) /\ High(c) \in Int
        /\ Sixteen(Low(c)) /\ LowSurrogate(Low(c)) /\ Low(c) \in Int
        /\ PairRune(High(c), Low(c)) = c
    BY <1>4, SurrogatePair, SMTT(20) DEF Sixteen
  <2>3. /\ Spells(s, 0, 2, PutUint16(High(c)))
        /\ Spells(s, 2, 2, PutUint16(Low(c)))
    BY <1>2, <2>1, <2>2, SpellsUnit, SMTT(20)
  <2>4. TwoUnits(c, s)
    BY <1>2, <2>1, <2>2, <2>3, SMTT(20) DEF TwoUnits
  <2>5. QED
    BY <1>1, <2>4, SMTT(20)
<1>5. QED
  BY <1>3, <1>4, SMTT(20)

\* What the groups of two have for a character whose part begins at unit a.
AtUnit(f, i, a) == a \in Nat /\ Len(f[i - 1]) = 2 * a
ReadsOne(f, n, i, a, c) ==
    /\ Len(f[i]) = 2 * (a + 1)
    /\ a + 1 <= Len(f[n]) \div 2 /\ Groups(f[n], 2)[a + 1] = c
ReadsTwo(f, n, i, a, high, low) ==
    /\ Len(f[i]) = 2 * (a + 2)
    /\ a + 2 <= Len(f[n]) \div 2
    /\ Groups(f[n], 2)[a + 1] = high /\ Groups(f[n], 2)[a + 2] = low

LEMMA OneUnitRead ==
    ASSUME NEW parts, NEW n, NEW f, Joined(parts, n, f), NEW i \in 1..n,
           NEW c, OneUnit(c, parts[i]),
           NEW a, AtUnit(f, i, a)
    PROVE  ReadsOne(f, n, i, a, c)
<1>0. a \in Nat /\ Len(f[i - 1]) = 2 * a
  BY DEF AtUnit
<1>1. Placed(parts, n, f, i)
  BY JoinedParts, Zenon
<1>2. Len(f[i]) = 2 * a + 2
  BY <1>0, <1>1, Zenon DEF Placed, OneUnit
<1>3. Spells(f[n], Len(f[i - 1]) + 0, 2, PutUint16(c))
  BY Stretch, Zenon DEF OneUnit
<1>4. 2 * a + 0 = 2 * a /\ 2 * a + 2 = 2 * (a + 1)
  BY <1>0, SMT
<1>5. Spells(f[n], 2 * a, 2, PutUint16(c))
  BY <1>0, <1>3, <1>4, Zenon
<1>6. a + 1 <= Len(f[n]) \div 2 /\ Groups(f[n], 2)[a + 1] = c
  BY <1>0, <1>5, GroupAt, Zenon DEF OneUnit
<1>7. QED
  BY <1>2, <1>4, <1>6, Zenon DEF ReadsOne

LEMMA TwoUnitsRead ==
    ASSUME NEW parts, NEW n, NEW f, Joined(parts, n, f), NEW i \in 1..n,
           NEW c, TwoUnits(c, parts[i]),
           NEW a, AtUnit(f, i, a)
    PROVE  ReadsTwo(f, n, i, a, High(c), Low(c))
<1>0. a \in Nat /\ Len(f[i - 1]) = 2 * a
  BY DEF AtUnit
<1>1. Placed(parts, n, f, i)
  BY JoinedParts, Zenon
<1>2. Len(f[i]) = 2 * a + 4
  BY <1>0, <1>1, Zenon DEF Placed, TwoUnits
<1>3. /\ Spells(f[n], Len(f[i - 1]) + 0, 2, PutUint16(High(c)))
      /\ Spells(f[n], Len(f[i - 1]) + 2, 2, PutUint16(Low(c)))
  BY Stretch, Zenon DEF TwoUnits
<1>4. /\ 2 * a + 0 = 2 * a /\ 2 * a + 2 = 2 * (a + 1)
      /\ 2 * a + 4 = 2 * (a + 2) /\ (a + 1) + 1 = a + 2 /\ a + 1 \in Nat
  BY <1>0, SMT
<1>5. Spells(f[n], 2 * a, 2, PutUint16(High(c)))
  BY <1>0, <1>3, <1>4, Zenon
<1>6. Spells(f[n], 2 * (a + 1), 2, PutUint16(Low(c)))
  BY <1>0, <1>3, <1>4, Zenon
<1>7. Groups(f[n], 2)[a + 1] = High(c)
  BY <1>0, <1>5, GroupAt, Zenon DEF TwoUnits
<1>8. /\ (a + 1) + 1 <= Len(f[n]) \div 2
      /\ Groups(f[n], 2)[(a + 1) + 1] = Low(c)
  BY <1>4, <1>6, GroupAt, ZenonT(30) DEF TwoUnits
<1>9. QED
  BY <1>2, <1>4, <1>7, <1>8, Zenon DEF ReadsTwo

\* UCS-2: utf16.Decode of the groups of two is the text.
LEMMA UCS2Decoded ==
    ASSUME NEW text, IsText(text), NEW p,
           p = Concat([i \in DOMAIN text |-> UTF16(text[i])])
    PROVE  /\ p \in Seq(Byte) /\ Len(p) <= 4 * Len(text)
           /\ UTF16Decode(Groups(p, 2)) = text
<1>1. PICK n \in Nat : n = Len(text)
  BY TextChars, SMT
<1>2. /\ text \in Seq(Nat) /\ DOMAIN text = 1..n
      /\ \A i \in 1..n : Char(text[i])
  BY <1>1, TextChars, SMT
<1>3. PICK parts : parts = [i \in DOMAIN text |-> UTF16(text[i])]
  OBVIOUS
<1>4. \A i \in 1..n : OneUnit(text[i], parts[i]) \/ TwoUnits(text[i], parts[i])
  BY <1>2, <1>3, UTF16Units, Zenon
<1>5. \A i \in 1..n : parts[i] \in Seq(Byte) /\ Len(parts[i]) <= 4
  <2>1. 2 <= 4 /\ 4 <= 4
    BY SMT
  <2>2. QED
    BY <1>4, <2>1, Zenon DEF OneUnit, TwoUnits
<1>6. n = Len(parts)
  <2>1. parts = [i \in 1..n |-> parts[i]]
    BY <1>2, <1>3, Zenon
  <2>2. parts \in [1..n -> Seq(Byte)]
    BY <1>5, <2>1, Zenon
  <2>3. QED
    BY <2>2, PartsOf, Zenon
<1>7. PICK f : Joined(parts, n, f) /\ p = f[n]
  BY <1>3, <1>5, <1>6, ConcatJoined, Zenon
<1>8. ASSUME NEW i \in 1..n, NEW a \in Nat, Len(f[i - 1]) = 2 * a
      PROVE  Len(f[i]) = 2 * (a + 1) \/ Len(f[i]) = 2 * (a + 2)
  <2>1. Joined(parts, n, f)
    BY <1>7
  <2>2. AtUnit(f, i, a)
    BY <1>8 DEF AtUnit
  <2>3. PICK c : c = text[i]
    OBVIOUS
  <2>4. OneUnit(c, parts[i]) => ReadsOne(f, n, i, a, c)
    BY <2>1, <2>2, OneUnitRead, Zenon
  <2>5. TwoUnits(c, parts[i]) => ReadsTwo(f, n, i, a, High(c), Low(c))
    BY <2>1, <2>2, TwoUnitsRead, Zenon
  <2>6. QED
    BY <1>4, <2>3, <2>4, <2>5, ZenonT(30) DEF ReadsOne, ReadsTwo
<1>9. \A i \in 0..n : \E a \in Nat : Len(f[i]) = 2 * a
  <2> DEFINE S == {i \in Nat : \E a \in Nat : Len(f[i]) = 2 * a}
  <2>1. 0 \in S
    <3>1. f[0] = <<>>
      BY <1>7, Zenon DEF Joined
    <3>2. Len(<<>>) = 2 * 0
      BY SMT
    <3>3. QED
      BY <3>1, <3>2
  <2>2. ASSUME NEW m \in 0..n - 1, m \in S
        PROVE  m + 1 \in S
    <3>1. m + 1 \in 1..n /\ (m + 1) - 1 = m /\ m + 1 \in Nat
      BY SMT
    <3>2. PICK a \in Nat : Len(f[m]) = 2 * a
      BY <2>2
    <3>3. Len(f[m + 1]) = 2 * (a + 1) \/ Len(f[m + 1]) = 2 * (a + 2)
      BY <1>8, <3>1, <3>2, Zenon
    <3>4. a + 1 \in Nat /\ a + 2 \in Nat
      BY SMT
    <3>5. QED
      BY <3>1, <3>3, <3>4, Zenon
  <2> HIDE DEF S
  <2>3. \A i \in 0..n : i \in S
    BY <2>1, <2>2, Induction, Zenon
  <2>4. QED
    BY <2>3, Zenon DEF S
<1>10. PICK o : o = [i \in 0..n |-> Len(f[i]) \div 2]
  BY Zenon
<1>11. \A a \in Nat : (2 * a) \div 2 = a
  BY SMT
<1>12. \A i \in 0..n : o[i] \in Nat /\ Len(f[i]) = 2 * o[i]
  BY <1>9, <1>10, <1>11, Zenon
<1>13. n \in 0..n /\ 0 \in 0..n /\ \A i \in 1..n : i \in 0..n /\ i - 1 \in 0..n
  BY SMT
<1>14. PICK L \in Nat : L = o[n]
  BY <1>12, <1>13, Zenon
<1>15. Len(p) = 2 * L /\ Len(p) \div 2 = L /\ p \in Seq(Byte) /\ Len(p) <= 4 * n
  <2>1. Len(p) = 2 * L /\ p \in Seq(Byte) /\ Len(p) <= 4 * n
    BY <1>7, <1>12, <1>13, <1>14, JoinedBytes, ZenonT(30)
  <2>2. QED
    BY <1>11, <2>1, Zenon
<1>16. PICK u : u = Groups(p, 2)
  OBVIOUS
<1>17. L = Len(u)
  <2>1. PICK e : e = [i \in 1..L |-> u[i]]
    BY Zenon
  <2>2. u = e
    BY <1>15, <1>16, <2>1, Zenon DEF Groups
  <2>3. Len(e) = L
    BY <2>1, SMT
  <2>4. QED
    BY <2>2, <2>3
<1>18. o[0] = 0
  <2>1. f[0] = <<>>
    BY <1>7, Zenon DEF Joined
  <2>2. Len(<<>>) = 2 * 0 /\ 0 \in Nat
    BY SMT
  <2>3. QED
    BY <1>10, <1>11, <1>13, <2>1, <2>2, ZenonT(30)
<1>19. ASSUME NEW j \in 1..n
       PROVE  Unit(u, L, o, text, j)
  <2>1. Joined(parts, n, f)
    BY <1>7
  <2>2. PICK a \in Nat : a = o[j - 1] /\ AtUnit(f, j, a)
    BY <1>12, <1>13, Zenon DEF AtUnit
  <2>3. PICK c : c = text[j]
    OBVIOUS
  <2>4. a + 1 \in Nat /\ a + 2 \in Nat
    BY SMT
  <2>5. Groups(f[n], 2) = u /\ Len(f[n]) \div 2 = L
    BY <1>7, <1>15, <1>16, Zenon
  <2>6. o[j] = Len(f[j]) \div 2
    BY <1>10, <1>13, Zenon
  <2>7. CASE OneUnit(c, parts[j])
    <3>1. ReadsOne(f, n, j, a, c)
      BY <2>1, <2>2, <2>7, OneUnitRead, Zenon
    <3>2. o[j] = a + 1
      BY <1>11, <2>4, <2>6, <3>1, Zenon DEF ReadsOne
    <3>3. a + 1 <= L /\ u[a + 1] = c
      BY <2>5, <3>1, Zenon DEF ReadsOne
    <3>4. ~HighSurrogate(c) /\ LoneRune(c) = c
      BY <2>7, Zenon DEF OneUnit
    <3>5. QED
      BY <2>2, <2>3, <3>2, <3>3, <3>4, Zenon DEF Unit
  <2>8. CASE TwoUnits(c, parts[j])
    <3>1. ReadsTwo(f, n, j, a, High(c), Low(c))
      BY <2>1, <2>2, <2>8, TwoUnitsRead, Zenon
    <3>2. o[j] = a + 2
      BY <1>11, <2>4, <2>6, <3>1, Zenon DEF ReadsTwo
    <3>3. a + 2 <= L /\ u[a + 1] = High(c) /\ u[a + 2] = Low(c)
      BY <2>5, <3>1, Zenon DEF ReadsTwo
    <3>4. /\ HighSurrogate(High(c)) /\ LowSurrogate(Low(c))
          /\ PairRune(High(c), Low(c)) = c
      BY <2>8, Zenon DEF TwoUnits
    <3>5. QED
      BY <2>2, <2>3, <3>2, <3>3, <3>4, ZenonT(30) DEF Unit
  <2>9. QED
    BY <1>4, <2>3, <2>7, <2>8, Zenon
<1>20. UTF16Decode(u) = text
  BY <1>1, <1>2, <1>14, <1>17, <1>18, <1>19, UTF16Inverse, ZenonT(30)
<1>21. QED
  BY <1>1, <1>15, <1>16, <1>20, Zenon

\* UTF-8: the bytes of the Go string.
LEMMA StringBytes ==
    ASSUME NEW text, IsText(text)
    PROVE  String(text) \in Seq(Byte) /\ Len(String(text)) <= 4 * Len(text)
<1>1. PICK n \in Nat : n = Len(text)
  BY TextChars, SMT
<1>2. DOMAIN text = 1..n /\ \A i \in 1..n : Char(text[i])
  BY <1>1, TextChars, SMT
<1>3. PICK parts : parts = [i \in DOMAIN text |-> UTF8(text[i])]
  BY Zenon
<1>4. \A i \in 1..n : parts[i] \in Seq(Byte) /\ Len(parts[i]) <= 4
  BY <1>2, <1>3, UTF8Bytes, Zenon
<1>5. n = Len(parts)
  <2>1. parts = [i \in 1..n |-> parts[i]]
    BY <1>2, <1>3, Zenon
  <2>2. parts \in [1..n -> Seq(Byte)]
    BY <1>4, <2>1, Zenon
  <2>3. QED
    BY <2>2, PartsOf, Zenon
<1>6. PICK f : Joined(parts, n, f) /\ Concat(parts) = f[n]
  BY <1>4, <1>5, ConcatJoined, Zenon
<1>7. n \in 0..n
  BY SMT
<1>8. f[n] \in Seq(Byte) /\ Len(f[n]) <= 4 * n
  BY <1>6, <1>7, JoinedBytes, Zenon
<1>9. String(text) = f[n]
  BY <1>3, <1>6, Zenon DEF String
<1>10. QED
  BY <1>1, <1>8, <1>9, Zenon

\* A character string is transmitted as what its payload decodes to.
CharSets == {CharSetUTF8, CharSetUCS2, CharSetUCS4, CharSetISO88591}
Payload(p) == p \in Seq(Byte) /\ Len(p) < 2147483644

LEMMA PayloadTransmits ==
    ASSUME NEW set \in CharSets, NEW p, Payload(p)
    PROVE  Transmits(EncodeApplicationTag(TagCharacterString, <<set>> \o p),
                     Value("string", DecodeCharacterString(<<set>> \o p)))
<1>1. PICK d : d = <<set>> \o p
  BY Zenon
<1>2. set \in Byte
  BY SMT DEF CharSets, CharSetUTF8, CharSetUCS2, CharSetUCS4,
             CharSetISO88591, Byte
<1>3. p \in Seq(Byte) /\ Len(p) < 2147483644
  BY SMT DEF Payload
<1>4. d \in Seq(Byte) /\ Len(d) = 1 + Len(p)
  BY <1>1, <1>2, <1>3, SMTT(20)
<1>5. Len(d) < Uint32Values /\ TagCharacterString \in 2..14
  BY <1>3, <1>4, SMTT(20) DEF Uint32Values, TagCharacterString
<1>6. DecodePayload(TagCharacterString, d)
        = Decoded(Value("string", DecodeCharacterString(d)))
  BY PayloadBranches, Zenon
<1>7. QED
  BY <1>1, <1>4, <1>5, <1>6, TaggedTransmits, Zenon

\* The payload of a character string, by its character set.
LEMMA CharSetBranches ==
    ASSUME NEW p, Payload(p)
    PROVE  /\ DecodeCharacterString(<<CharSetUTF8>> \o p) = p
           /\ DecodeCharacterString(<<CharSetUCS2>> \o p)
                = String(UTF16Decode(Groups(p, 2)))
           /\ DecodeCharacterString(<<CharSetUCS4>> \o p)
                = String(Groups(p, 4))
           /\ DecodeCharacterString(<<CharSetISO88591>> \o p) = String(p)
<1>1. p \in Seq(Byte)
  BY SMT DEF Payload
<1>2. ASSUME NEW set \in CharSets, NEW d, d = <<set>> \o p
      PROVE  ~(Len(d) < 1) /\ d[1] = set /\ Tail(d) = p
  <2>1. set \in Byte
    BY SMT DEF CharSets, CharSetUTF8, CharSetUCS2, CharSetUCS4,
               CharSetISO88591, Byte
  <2>2. Len(d) = 1 + Len(p) /\ d[1] = set /\ Tail(d) = p /\ Len(p) \in Nat
    BY <1>1, <1>2, <2>1, SMTT(20)
  <2>3. QED
    BY <2>2, SMT
<1>3. ASSUME NEW set \in CharSets, NEW d, d = <<set>> \o p
      PROVE  DecodeCharacterString(d)
               = CASE set = CharSetUCS2 -> String(UTF16Decode(Groups(p, 2)))
                   [] set = CharSetUCS4 -> String(Groups(p, 4))
                   [] set = CharSetISO88591 -> String(p)
                   [] OTHER -> p
  <2>1. ~(Len(d) < 1) /\ d[1] = set /\ Tail(d) = p
    BY <1>2, <1>3, SMTT(20)
  <2>2. DecodeCharacterString(d)
          = CASE d[1] = CharSetUCS2 ->
                   String(UTF16Decode(Groups(Tail(d), 2)))
              [] d[1] = CharSetUCS4 -> String(Groups(Tail(d), 4))
              [] d[1] = CharSetISO88591 -> String(Tail(d))
              [] OTHER -> Tail(d)
    BY <2>1, Zenon DEF DecodeCharacterString
  <2>3. QED
    BY <2>1, <2>2, Zenon
<1>4. \A set \in CharSets :
        DecodeCharacterString(<<set>> \o p)
          = CASE set = CharSetUCS2 -> String(UTF16Decode(Groups(p, 2)))
              [] set = CharSetUCS4 -> String(Groups(p, 4))
              [] set = CharSetISO88591 -> String(p)
              [] OTHER -> p
  BY <1>3, Zenon
<1>5. QED
  BY <1>4, SMT DEF CharSets, CharSetUTF8, CharSetUCS2, CharSetUCS4,
                   CharSetISO88591

\* The payload that EncodeText sends, by its character set.
LEMMA EncodeTextBranches ==
    ASSUME NEW text
    PROVE  /\ EncodeText(text, CharSetUTF8)
                = EncodeApplicationTag(TagCharacterString,
                                       <<CharSetUTF8>> \o String(text))
           /\ EncodeText(text, CharSetUCS2)
                = EncodeApplicationTag(TagCharacterString,
                    <<CharSetUCS2>>
                      \o Concat([i \in DOMAIN text |-> UTF16(text[i])]))
           /\ EncodeText(text, CharSetUCS4)
                = EncodeApplicationTag(TagCharacterString,
                    <<CharSetUCS4>>
                      \o Concat([i \in DOMAIN text |-> PutUint32(text[i])]))
           /\ EncodeText(text, CharSetISO88591)
                = EncodeApplicationTag(TagCharacterString,
                                       <<CharSetISO88591>> \o text)
BY SMT DEF EncodeText, String, CharSetUTF8, CharSetUCS2, CharSetUCS4,
           CharSetISO88591

\* A text is transmitted as the same Go string in every character set.
LEMMA TextTransmitted ==
    ASSUME NEW text, IsText(text),
           NEW set \in {CharSetUTF8, CharSetUCS2, CharSetUCS4, CharSetISO88591},
           set = CharSetISO88591 => \A i \in DOMAIN text : text[i] < 256
    PROVE  Transmits(EncodeText(text, set), Value("string", String(text)))
<1>1. \A p : p \in Seq(Byte) /\ Len(p) <= 4 * Len(text) => Payload(p)
  <2>1. Len(text) \in Nat /\ 4 * Len(text) < 2147483644
    BY TextChars, SMT
  <2>2. QED
    BY <2>1, SMT DEF Payload
<1>2. \A s \in CharSets : \A p : Payload(p) =>
        Transmits(EncodeApplicationTag(TagCharacterString, <<s>> \o p),
                  Value("string", DecodeCharacterString(<<s>> \o p)))
  BY PayloadTransmits
<1>3. CASE set = CharSetUTF8
  <2>1. PICK p : p = String(text)
    OBVIOUS
  <2>2. Payload(p)
    BY <1>1, <2>1, StringBytes, Zenon
  <2>3. DecodeCharacterString(<<CharSetUTF8>> \o p) = p
    BY <2>2, CharSetBranches, Zenon
  <2>4. QED
    BY <1>2, <1>3, <2>1, <2>2, <2>3, EncodeTextBranches, Zenon DEF CharSets
<1>4. CASE set = CharSetUCS2
  <2>1. PICK p : p = Concat([i \in DOMAIN text |-> UTF16(text[i])])
    OBVIOUS
  <2>2. /\ p \in Seq(Byte) /\ Len(p) <= 4 * Len(text)
        /\ UTF16Decode(Groups(p, 2)) = text
    BY <2>1, UCS2Decoded, Zenon
  <2>3. Payload(p)
    BY <1>1, <2>2, Zenon
  <2>4. DecodeCharacterString(<<CharSetUCS2>> \o p) = String(text)
    BY <2>2, <2>3, CharSetBranches, Zenon
  <2>5. QED
    BY <1>2, <1>4, <2>1, <2>3, <2>4, EncodeTextBranches, Zenon DEF CharSets
<1>5. CASE set = CharSetUCS4
  <2>1. PICK p : p = Concat([i \in DOMAIN text |-> PutUint32(text[i])])
    OBVIOUS
  <2>2. p \in Seq(Byte) /\ Len(p) <= 4 * Len(text) /\ Groups(p, 4) = text
    BY <2>1, UCS4Groups, Zenon
  <2>3. Payload(p)
    BY <1>1, <2>2, Zenon
  <2>4. DecodeCharacterString(<<CharSetUCS4>> \o p) = String(text)
    BY <2>2, <2>3, CharSetBranches, Zenon
  <2>5. QED
    BY <1>2, <1>5, <2>1, <2>3, <2>4, EncodeTextBranches, Zenon DEF CharSets
<1>6. CASE set = CharSetISO88591
  <2>1. /\ text \in Seq(Nat) /\ Len(text) \in Nat
        /\ DOMAIN text = 1..Len(text) /\ \A i \in DOMAIN text : text[i] < 256
    BY <1>6, TextChars, SMT
  <2>2. \A i \in 1..Len(text) : text[i] \in Byte
    <3>1. \A i \in 1..Len(text) : text[i] \in Nat
      BY <2>1, SMT
    <3>2. \A c \in Nat : c < 256 => c \in Byte
      BY SMT DEF Byte
    <3>3. QED
      BY <2>1, <3>1, <3>2, Zenon
  <2>3. text \in Seq(Byte) /\ Len(text) <= 4 * Len(text)
    BY <2>1, <2>2, SMTT(20)
  <2>4. Payload(text)
    BY <1>1, <2>3, Zenon
  <2>5. DecodeCharacterString(<<CharSetISO88591>> \o text) = String(text)
    BY <2>4, CharSetBranches, Zenon
  <2>6. QED
    BY <1>2, <1>6, <2>4, <2>5, EncodeTextBranches, Zenon DEF CharSets
<1>7. QED
  BY <1>3, <1>4, <1>5, <1>6, Zenon

-----------------------------------------------------------------------------
(***************************************************************************)
(* The behaviours of Codec.                                                *)
(***************************************************************************)

\* A tag that EncodeTag does not cut short: its number fits the first byte.
\* (With a larger number the length is lost.)
Short(i) == i.number < 15 /\ i.length < Uint32Values

\* The bytes w transmit the item i of kind k.
Carries(k, i, w) ==
    /\ w \in Seq(Byte)
    /\ k = "tag" /\ Short(i) =>
         /\ DecodeTagNumber(w) = DecodedTag(i.number, i.class, i.length, Len(w))
         /\ \A n \in 0..Len(w) - 1 : ~DecodeTagNumber(SubSeq(w, 1, n)).ok
    /\ k = "value" => IsPropertyValue(i) /\ Transmits(w, ReadAs(i))
    /\ k = "text" => Transmits(w, Value("string", String(i)))

\* What makes the round trips inductive: a whole item on the wire decodes to
\* the item and no beginning of it decodes, a beginning does not decode, and
\* what was decoded is what is still on the wire.
Decode(k, w) == IF k = "tag" THEN DecodeTagNumber(w) ELSE DecodePropertyValue(w)

WireInv ==
    /\ pc \in {"idle", "wire", "received"}
    /\ kind \in {"tag", "value", "text"}
    /\ cut \in BOOLEAN
    /\ wire \in Seq(Byte)
    /\ pc = "idle" => ~cut
    /\ pc # "idle" /\ ~cut => Carries(kind, item, wire)
    /\ pc # "idle" /\ cut /\ (kind = "tag" => Short(item)) =>
         ~Decode(kind, wire).ok
    /\ pc = "received" => got = Decode(kind, wire)

\* Every byte of a tag is a byte, with an extended number too.
LEMMA TagIsBytes ==
    ASSUME NEW n \in 0..254, NEW c \in {0, 1}, NEW len \in Nat
    PROVE  /\ EncodeTag(n, c, len) \in Seq(Byte)
           /\ EncodeOpeningTag(n) \in Seq(Byte)
           /\ EncodeClosingTag(n) \in Seq(Byte)
<1>1. n \in Byte /\ 254 \in Byte /\ 255 \in Byte
  BY SMTT(20) DEF Byte
<1>2. \A low \in 0..7 :
        n < 15 => TagByte(n, c, low) \in Byte /\ TagByte(n, 1, low) \in Byte
  BY SMT DEF Byte, TagByte
<1>3. TagByte(15, c, 0) \in Byte
  BY SMT DEF Byte, TagByte
<1>4. PICK e : e = ExtendedLength(len)
  OBVIOUS
<1>5. e \in Seq(Byte)
  <2>1. CASE len < 5
    BY <1>4, <2>1, SMTT(20) DEF ExtendedLength
  <2>2. CASE ~(len < 5) /\ len < 254
    <3>1. len \in Byte
      BY <2>2, SMTT(20) DEF Byte
    <3>2. e = <<len>>
      BY <1>4, <2>2, SMTT(20) DEF ExtendedLength
    <3>3. QED
      BY <3>1, <3>2, SMTT(20)
  <2>3. CASE ~(len < 5) /\ ~(len < 254)
    <3>1. PICK a \in Seq(Byte), b \in Seq(Byte) :
             a = PutUint16(len) /\ b = PutUint32(len)
      BY PutBytes, SMT
    <3>2. e = <<254>> \o a \/ e = <<255>> \o b
      BY <1>4, <2>3, <3>1, SMTT(20) DEF ExtendedLength
    <3>3. PICK x \in Byte, t \in Seq(Byte) : e = <<x>> \o t
      BY <1>1, <3>2, ZenonT(30)
    <3>4. QED
      BY <3>3, ConsBytes, Zenon
  <2>4. QED
    BY <2>1, <2>2, <2>3
<1>6. EncodeTag(n, c, len) \in Seq(Byte)
  <2>1. CASE n >= 15
    <3>1. PICK b \in Byte : b = TagByte(15, c, 0)
      BY <1>3
    <3>2. EncodeTag(n, c, len) = <<b, n>> \o e
      BY <1>4, <2>1, <3>1, Zenon DEF EncodeTag
    <3>3. QED
      BY <1>1, <1>5, <3>2, SMT
  <2>2. CASE ~(n >= 15) /\ len < 5
    <3>1. PICK b \in Byte : b = TagByte(n, c, len)
      BY <1>2, <2>2, SMT
    <3>2. EncodeTag(n, c, len) = <<b>>
      BY <2>2, <3>1, Zenon DEF EncodeTag
    <3>3. QED
      BY <3>2, SMT
  <2>3. CASE ~(n >= 15) /\ ~(len < 5)
    <3>1. PICK b \in Byte : b = TagByte(n, c, 5)
      BY <1>2, <2>3, SMTT(20)
    <3>2. EncodeTag(n, c, len) = <<b>> \o e
      BY <1>4, <2>3, <3>1, Zenon DEF EncodeTag
    <3>3. QED
      BY <1>5, <3>2, SMTT(20)
  <2>4. QED
    BY <2>1, <2>2, <2>3
<1>7. CASE n < 15
  <2>1. PICK a \in Byte, b \in Byte : a = TagByte(n, 1, 6) /\ b = TagByte(n, 1, 7)
    BY <1>2, <1>7, SMTT(20)
  <2>2. EncodeOpeningTag(n) = <<a>> /\ EncodeClosingTag(n) = <<b>>
    BY <1>7, <2>1, Zenon DEF EncodeOpeningTag, EncodeClosingTag
  <2>3. QED
    BY <1>6, <2>2, SMTT(20)
<1>8. CASE ~(n < 15)
  <2>1. EncodeOpeningTag(n) = <<254, n>> /\ EncodeClosingTag(n) = <<255, n>>
    BY <1>8, Zenon DEF EncodeOpeningTag, EncodeClosingTag
  <2>2. QED
    BY <1>1, <1>6, <2>1, SMTT(20)
<1>9. QED
  BY <1>7, <1>8

\* A short tag on the wire carries its number, class and length.
LEMMA TagCarried ==
    ASSUME NEW n \in 0..254, NEW c \in {0, 1}, NEW len \in Nat
    PROVE  Carries("tag", [number |-> n, class |-> c, length |-> len],
                   EncodeTag(n, c, len))
<1>1. PICK i : i = [number |-> n, class |-> c, length |-> len]
  BY Zenon
<1>2. i.number = n /\ i.class = c /\ i.length = len
  BY <1>1
<1>3. PICK w : w = EncodeTag(n, c, len)
  OBVIOUS
<1>4. w \in Seq(Byte)
  BY <1>3, TagIsBytes, Zenon
<1>5. ASSUME Short(i)
      PROVE  /\ DecodeTagNumber(w)
                  = DecodedTag(i.number, i.class, i.length, Len(w))
             /\ \A k \in 0..Len(w) - 1 : ~DecodeTagNumber(SubSeq(w, 1, k)).ok
  <2>1. /\ n \in Int /\ 0 <= n /\ n < 15 /\ c \in Int /\ 0 <= c /\ c < 2
        /\ len \in Int /\ 0 <= len /\ len < Uint32Values
    BY <1>2, <1>5, SMTT(20) DEF Short
  <2>2. BeginsAs(w, w) /\ Len(w) >= Len(w)
    BY <1>4, SMTT(20) DEF BeginsAs
  <2>3. DecodeTagNumber(w) = DecodedTag(n, c, len, Len(w))
    BY <1>3, <2>1, <2>2, EncodeTagInverse, SMTT(20)
  <2>4. ASSUME NEW k \in 0..Len(w) - 1
        PROVE  ~DecodeTagNumber(SubSeq(w, 1, k)).ok
    <3>1. PICK d : d = SubSeq(w, 1, k)
      BY Zenon
    <3>2. BeginsAs(d, w) /\ Len(d) = k
      BY <1>4, <2>2, <3>1, BeginsAsCut, Zenon
    <3>3. Len(d) < Len(w)
      BY <1>4, <3>2, SMTT(20)
    <3>4. DecodeTagNumber(d) = TagError
      BY <1>3, <2>1, <3>2, <3>3, EncodeTagCut, SMTT(20)
    <3>5. ~TagError.ok
      BY DEF TagError
    <3>6. QED
      BY <3>1, <3>4, <3>5, SMTT(20)
  <2>5. QED
    BY <1>2, <2>3, <2>4, Zenon
<1>6. Carries("tag", i, w)
  BY <1>4, <1>5, Zenon DEF Carries
<1>7. QED
  BY <1>1, <1>3, <1>6, SMTT(20)

\* Opening and closing tags are carried.
LEMMA MarkerCarried ==
    ASSUME NEW n \in 0..254
    PROVE  /\ Carries("tag", [number |-> n, class |-> TagClassContext,
                              length |-> Opening], EncodeOpeningTag(n))
           /\ Carries("tag", [number |-> n, class |-> TagClassContext,
                              length |-> Closing], EncodeClosingTag(n))
<1>1. ASSUME NEW len, NEW w \in Seq(Byte),
             n < 15 => /\ DecodeTagNumber(w)
                            = DecodedTag(n, TagClassContext, len, 1)
                       /\ Len(w) = 1
      PROVE  Carries("tag", [number |-> n, class |-> TagClassContext,
                             length |-> len], w)
  <2>1. PICK i : i = [number |-> n, class |-> TagClassContext, length |-> len]
    BY Zenon
  <2>2. i.number = n /\ i.class = TagClassContext /\ i.length = len
    BY <2>1
  <2>3. ASSUME Short(i)
        PROVE  /\ DecodeTagNumber(w)
                    = DecodedTag(i.number, i.class, i.length, Len(w))
               /\ \A k \in 0..Len(w) - 1 : ~DecodeTagNumber(SubSeq(w, 1, k)).ok
    <3>1. n < 15 /\ Len(w) = 1
      BY <1>1, <2>2, <2>3, Zenon DEF Short
    <3>2. ASSUME NEW k \in 0..Len(w) - 1
          PROVE  ~DecodeTagNumber(SubSeq(w, 1, k)).ok
      <4>1. Len(SubSeq(w, 1, k)) < 1
        BY <3>1, SMT
      <4>2. ~TagError.ok
        BY DEF TagError
      <4>3. QED
        BY <4>1, <4>2, TagRefused, Zenon
    <3>3. QED
      BY <1>1, <2>2, <3>1, <3>2, Zenon
  <2>4. Carries("tag", i, w)
    BY <2>3, Zenon DEF Carries
  <2>5. QED
    BY <2>1, <2>4
<1>2. EncodeOpeningTag(n) \in Seq(Byte) /\ EncodeClosingTag(n) \in Seq(Byte)
  <2>1. 0 \in {0, 1} /\ 0 \in Nat
    BY SMT
  <2>2. QED
    BY <2>1, TagIsBytes, Zenon
<1>3. n < 15 => /\ DecodeTagNumber(EncodeOpeningTag(n))
                     = DecodedTag(n, TagClassContext, Opening, 1)
                /\ Len(EncodeOpeningTag(n)) = 1
                /\ DecodeTagNumber(EncodeClosingTag(n))
                     = DecodedTag(n, TagClassContext, Closing, 1)
                /\ Len(EncodeClosingTag(n)) = 1
  <2>1. n \in Int /\ 0 <= n
    BY SMT
  <2>2. QED
    BY <2>1, MarkerTagInverse, Zenon
<1>4. QED
  BY <1>1, <1>2, <1>3, Zenon

\* A step that sends an item as bytes that carry it keeps the invariant.
LEMMA SendKeepsWireInv ==
    ASSUME NEW k \in {"tag", "value", "text"}, NEW i, NEW w,
           Carries(k, i, w), WireInv, Send(k, i, w)
    PROVE  WireInv'
<1>1. /\ pc' = "wire" /\ kind' = k /\ item' = i /\ wire' = w
      /\ cut' = cut /\ ~cut /\ cut \in BOOLEAN
  BY Zenon DEF Send, WireInv
<1>2. w \in Seq(Byte)
  BY Zenon DEF Carries
<1>3. QED
  BY <1>1, <1>2, Zenon DEF WireInv

\* A beginning of the bytes of an item does not decode.
LEMMA CutRefused ==
    ASSUME NEW k, NEW i, NEW w, k \in {"tag", "value", "text"},
           Carries(k, i, w), k = "tag" => Short(i), NEW n \in 0..Len(w) - 1
    PROVE  ~Decode(k, SubSeq(w, 1, n)).ok
<1>1. CASE k = "tag"
  BY <1>1, Zenon DEF Carries, Decode
<1>2. CASE k \in {"value", "text"}
  <2>1. k # "tag"
    BY <1>2
  <2>2. PICK value : Transmits(w, value)
    BY <1>2, Zenon DEF Carries
  <2>3. QED
    BY <2>1, <2>2, Zenon DEF Transmits, Decode
<1>3. QED
  BY <1>1, <1>2

\* The invariant holds in every behaviour.
LEMMA WireInvCorrect == Spec => []WireInv
<1>1. Init => WireInv
  <2>1. <<>> \in Seq(Byte)
    BY SMT
  <2>2. QED
    BY <2>1, Zenon DEF Init, WireInv
<1>2. WireInv /\ [Next]_vars => WireInv'
  <2> SUFFICES ASSUME WireInv, [Next]_vars
               PROVE  WireInv'
    OBVIOUS
  <2>1. /\ \A n \in TagNumbers : n \in 0..254
        /\ \A len \in Lengths : len \in Nat
        /\ \A value \in Items : IsPropertyValue(value)
        /\ \A text \in Texts : IsText(text)
    BY CodecAssumption, Zenon DEF CodecAssumption
  <2>2. CASE SendTag
    <3>1. PICK n \in TagNumbers, c \in {TagClassApplication, TagClassContext},
               len \in Lengths :
             Send("tag", [number |-> n, class |-> c, length |-> len],
                  EncodeTag(n, c, len))
      BY <2>2, Zenon DEF SendTag
    <3>2. n \in 0..254 /\ len \in Nat /\ c \in {0, 1}
      BY <2>1, Zenon DEF TagClassApplication, TagClassContext
    <3>3. Carries("tag", [number |-> n, class |-> c, length |-> len],
                  EncodeTag(n, c, len))
      BY <3>2, TagCarried, Zenon
    <3>4. QED
      BY <3>1, <3>3, SendKeepsWireInv, Zenon
  <2>3. CASE SendOpeningTag
    <3>1. PICK n \in TagNumbers :
             Send("tag", [number |-> n, class |-> TagClassContext,
                          length |-> Opening], EncodeOpeningTag(n))
      BY <2>3, Zenon DEF SendOpeningTag
    <3>2. n \in 0..254
      BY <2>1
    <3>3. QED
      BY <3>1, <3>2, MarkerCarried, SendKeepsWireInv, Zenon
  <2>4. CASE SendClosingTag
    <3>1. PICK n \in TagNumbers :
             Send("tag", [number |-> n, class |-> TagClassContext,
                          length |-> Closing], EncodeClosingTag(n))
      BY <2>4, Zenon DEF SendClosingTag
    <3>2. n \in 0..254
      BY <2>1
    <3>3. QED
      BY <3>1, <3>2, MarkerCarried, SendKeepsWireInv, Zenon
  <2>5. CASE SendValue
    <3>1. PICK v \in Items : Send("value", v, EncodeTagged(v))
      BY <2>5, Zenon DEF SendValue
    <3>2. IsPropertyValue(v) /\ Transmits(EncodeTagged(v), ReadAs(v))
      BY <2>1, ValueTransmitted, Zenon
    <3>3. Carries("value", v, EncodeTagged(v))
      BY <3>2 DEF Carries, Transmits
    <3>4. QED
      BY <3>1, <3>3, SendKeepsWireInv, Zenon
  <2>6. CASE SendText
    <3>1. PICK text \in Texts,
               set \in {CharSetUTF8, CharSetUCS2, CharSetUCS4, CharSetISO88591} :
             /\ set = CharSetISO88591 => \A i \in DOMAIN text : text[i] < 256
             /\ Send("text", text, EncodeText(text, set))
      BY <2>6, Zenon DEF SendText
    <3>2. Transmits(EncodeText(text, set), Value("string", String(text)))
      BY <2>1, <3>1, TextTransmitted, Zenon
    <3>3. Carries("text", text, EncodeText(text, set))
      BY <3>2 DEF Carries, Transmits
    <3>4. QED
      BY <3>1, <3>3, SendKeepsWireInv, Zenon
  <2>7. CASE Cut
    <3>1. PICK n \in 0..Len(wire) - 1 : wire' = SubSeq(wire, 1, n)
      BY <2>7, Zenon DEF Cut
    <3>2. /\ pc = "wire" /\ ~cut /\ cut' = TRUE /\ pc' = pc /\ kind' = kind
          /\ item' = item /\ got' = got
      BY <2>7, Zenon DEF Cut
    <3>3. /\ kind \in {"tag", "value", "text"} /\ wire \in Seq(Byte)
          /\ Carries(kind, item, wire)
      BY <3>2, Zenon DEF WireInv
    <3>4. wire' \in Seq(Byte)
      BY <3>1, <3>3, SMTT(20)
    <3>5. (kind = "tag" => Short(item)) => ~Decode(kind, wire').ok
      <4>1. SUFFICES ASSUME kind = "tag" => Short(item)
                     PROVE  ~Decode(kind, SubSeq(wire, 1, n)).ok
        BY <3>1, Zenon
      <4>2. QED
        BY <3>3, <4>1, CutRefused
    <3>6. QED
      BY <3>2, <3>3, <3>4, <3>5, Zenon DEF WireInv
  <2>8. CASE Receive
    <3>1. /\ pc = "wire" /\ pc' = "received" /\ kind' = kind /\ item' = item
          /\ cut' = cut /\ wire' = wire /\ got' = Decode(kind, wire)
      BY <2>8, Zenon DEF Receive, Decode
    <3>2. QED
      BY <3>1, Zenon DEF WireInv
  <2>9. CASE UNCHANGED vars
    <3>1. /\ pc' = pc /\ kind' = kind /\ item' = item /\ cut' = cut
          /\ wire' = wire /\ got' = got
      BY <2>9, Zenon DEF vars
    <3>2. QED
      BY <3>1, Zenon DEF WireInv
  <2>10. QED
    BY <2>2, <2>3, <2>4, <2>5, <2>6, <2>7, <2>8, <2>9, Zenon DEF Next
<1>3. QED
  BY <1>1, <1>2, PTL DEF Spec

\* The variables keep their types, and every byte an encoder emits is a byte,
\* with every number, length, value and text.
THEOREM CodecTypes == Spec => []TypeOK
<1>1. WireInv => TypeOK
  <2>1. ASSUME NEW i \in DOMAIN wire, wire \in Seq(Byte)
        PROVE  wire[i] \in 0..255
    <3>1. wire[i] \in Byte
      BY <2>1, SMTT(20)
    <3>2. QED
      BY <3>1 DEF Byte
  <2>2. QED
    BY <2>1, Zenon DEF WireInv, TypeOK
<1>2. QED
  BY <1>1, WireInvCorrect, PTL

\* What ReadProperty makes of the encoding of any property value is the value.
THEOREM ValueRoundTripCorrect == Spec => []ValueRoundTrip
<1>1. WireInv => ValueRoundTrip
  <2> SUFFICES ASSUME WireInv, pc = "received", kind = "value", ~cut
               PROVE  got = Decoded(ReadAs(item))
    BY Zenon DEF ValueRoundTrip
  <2>1. "value" # "tag" /\ "received" # "idle"
    OBVIOUS
  <2>2. Carries("value", item, wire) /\ got = DecodePropertyValue(wire)
    BY <2>1, Zenon DEF WireInv, Decode
  <2>3. QED
    BY <2>2, Zenon DEF Carries, Transmits
<1>2. QED
  BY <1>1, WireInvCorrect, PTL

\* Every bit of every bit string comes back, and none after the last.
THEOREM BitsRoundTripCorrect == Spec => []BitsRoundTrip
<1>1. WireInv => BitsRoundTrip
  <2> SUFFICES ASSUME WireInv, pc = "received", kind = "value", ~cut,
                      item.t = "BitString"
               PROVE  /\ got.ok
                      /\ BitLen(got.value.v) = Len(item.v)
                      /\ \A i \in 0..Len(item.v) + 8 :
                             Bit(got.value.v, i)
                               <=> i < Len(item.v) /\ item.v[i + 1] = 1
    BY Zenon DEF BitsRoundTrip
  <2>1. "value" # "tag" /\ "received" # "idle"
    OBVIOUS
  <2>2. Carries("value", item, wire) /\ got = DecodePropertyValue(wire)
    BY <2>1, Zenon DEF WireInv, Decode
  <2>3. IsPropertyValue(item) /\ got = Decoded(ReadAs(item))
    BY <2>2, Zenon DEF Carries, Transmits
  <2>4. PICK v : v = item.v /\ v \in Seq({0, 1})
    <3>1. ~IsWritable(item)
      BY SMT DEF IsWritable
    <3>2. QED
      BY <2>3, <3>1, SMT DEF IsPropertyValue
  <2>5. PICK p : p = NewBitStringFromBits(Flags(v))
    OBVIOUS
  <2>6. ReadAs(item) = Value("BitString", p)
    BY <2>4, <2>5, SMT DEF ReadAs, Flags
  <2>7. got.ok /\ got.value.v = p
    BY <2>3, <2>6 DEF Decoded, Value
  <2>8. 0..Len(v) + 8 \subseteq Nat /\ 0 \in Nat
    BY <2>4, SMT
  <2>9. QED
    BY <2>4, <2>5, <2>7, <2>8, BitsInverse, Zenon
<1>2. QED
  BY <1>1, WireInvCorrect, PTL

\* A text is the same Go string in whichever character set it was sent.
THEOREM TextIndependentOfSetCorrect == Spec => []TextIndependentOfSet
<1>1. WireInv => TextIndependentOfSet
  <2> SUFFICES ASSUME WireInv, pc = "received", kind = "text", ~cut
               PROVE  got = Decoded(Value("string", String(item)))
    BY Zenon DEF TextIndependentOfSet
  <2>1. "text" # "tag" /\ "received" # "idle"
    OBVIOUS
  <2>2. Carries("text", item, wire) /\ got = DecodePropertyValue(wire)
    BY <2>1, Zenon DEF WireInv, Decode
  <2>3. QED
    BY <2>2, Zenon DEF Carries, Transmits
<1>2. QED
  BY <1>1, WireInvCorrect, PTL

\* Tags with numbers that fit the first byte are short.
ShortInv == pc # "idle" /\ kind = "tag" => Short(item)

LEMMA ShortInvCorrect ==
    ASSUME \A n \in TagNumbers : n < 15,
           \A len \in Lengths : len < Uint32Values
    PROVE  Spec => []ShortInv
<1>1. Init => ShortInv
  BY Zenon DEF Init, ShortInv
<1>2. ShortInv /\ [Next]_vars => ShortInv'
  <2> SUFFICES ASSUME ShortInv, [Next]_vars
               PROVE  ShortInv'
    OBVIOUS
  <2>1. \A n \in TagNumbers, c \in {TagClassApplication, TagClassContext},
           len \in Lengths \cup {Opening, Closing} :
            Short([number |-> n, class |-> c, length |-> len])
    <3>1. Opening < Uint32Values /\ Closing < Uint32Values
      BY SMT DEF Opening, Closing, Uint32Values
    <3>2. QED
      BY <3>1 DEF Short
  <2>2. CASE SendTag
    <3>1. PICK n \in TagNumbers, c \in {TagClassApplication, TagClassContext},
               len \in Lengths \cup {Opening, Closing} :
             item' = [number |-> n, class |-> c, length |-> len]
      BY <2>2, Zenon DEF SendTag, Send
    <3>2. QED
      BY <2>1, <3>1, Zenon DEF ShortInv
  <2>3. CASE SendOpeningTag \/ SendClosingTag
    <3>1. PICK n \in TagNumbers, len \in Lengths \cup {Opening, Closing} :
             item' = [number |-> n, class |-> TagClassContext, length |-> len]
      BY <2>3, Zenon DEF SendOpeningTag, SendClosingTag, Send
    <3>2. QED
      BY <2>1, <3>1, Zenon DEF ShortInv
  <2>4. CASE SendValue \/ SendText
    <3>1. kind' = "value" \/ kind' = "text"
      BY <2>4, Zenon DEF SendValue, SendText, Send
    <3>2. QED
      BY <3>1 DEF ShortInv
  <2>5. CASE Cut \/ Receive
    BY <2>5 DEF Cut, Receive, ShortInv
  <2>6. CASE UNCHANGED vars
    BY <2>6, Zenon DEF vars, ShortInv
  <2>7. QED
    BY <2>2, <2>3, <2>4, <2>5, <2>6, Zenon DEF Next
<1>3. QED
  BY <1>1, <1>2, PTL DEF Spec

\* For tag numbers that fit the first byte, and for every length, what
\* DecodeTagNumber reads is what was encoded. (With a larger number EncodeTag
\* loses the length.)
THEOREM TagRoundTripCorrect ==
    ASSUME \A n \in TagNumbers : n < 15,
           \A len \in Lengths : len < Uint32Values
    PROVE  Spec => []TagRoundTrip
<1>1. WireInv /\ ShortInv => TagRoundTrip
  <2> SUFFICES ASSUME WireInv, ShortInv, pc = "received", kind = "tag", ~cut
               PROVE  /\ got.ok
                      /\ got.number = item.number
                      /\ got.class = item.class
                      /\ got.length = item.length
                      /\ got.header = Len(wire)
    BY Zenon DEF TagRoundTrip
  <2>1. "received" # "idle"
    OBVIOUS
  <2>2. /\ Carries("tag", item, wire) /\ Short(item)
        /\ got = DecodeTagNumber(wire)
    BY <2>1, Zenon DEF WireInv, ShortInv, Decode
  <2>3. got = DecodedTag(item.number, item.class, item.length, Len(wire))
    BY <2>2, Zenon DEF Carries
  <2>4. QED
    BY <2>3, Zenon DEF DecodedTag
<1>2. QED
  BY <1>1, WireInvCorrect, ShortInvCorrect, PTL

\* No beginning of a tag, of a value or of a text is taken for a whole one.
THEOREM CutRejectedCorrect ==
    ASSUME \A n \in TagNumbers : n < 15,
           \A len \in Lengths : len < Uint32Values
    PROVE  Spec => []CutRejected
<1>1. WireInv /\ ShortInv => CutRejected
  <2>1. "received" # "idle"
    OBVIOUS
  <2>2. QED
    BY <2>1, Zenon DEF WireInv, ShortInv, CutRejected
<1>2. QED
  BY <1>1, WireInvCorrect, ShortInvCorrect, PTL

=============================================================================
