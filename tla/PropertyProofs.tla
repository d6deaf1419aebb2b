--------------------------- MODULE PropertyProofs ---------------------------
(***************************************************************************)
(* ReadProperty and WriteProperty, for every object, property, index,      *)
(* value and priority that the arguments' Go types hold, and every code of *)
(* an error. The lemmas say what the device and the client make of each    *)
(* message, and the invariant which message is on its way.                 *)
(***************************************************************************)
EXTENDS PropertyService, WireProofs

-----------------------------------------------------------------------------
(***************************************************************************)
(* The messages.                                                           *)
(***************************************************************************)

\* No index is at the head of b.
NoIndexAhead(b) ==
    b \in Seq(Byte) /\ ~Element(b, 2).there /\ Element(b, 2).rest = b

\* What ReadReference reads of a property.
References(read, s, b) ==
    /\ read.object.there /\ read.property.there
    /\ RequestedSlot(read) = s
    /\ read.rest = b

\* The device reads the object, the property and the index that the client
\* wrote, and the client skips those that the device wrote.
LEMMA ReferenceRead ==
    ASSUME NEW s, IsSlot(s), NEW b, NoIndexAhead(b),
           NEW w, w = PropertyReference(s)
    PROVE  /\ w \in Seq(Byte) /\ Len(w) >= 7
           /\ References(ReadReference(w \o b), s, b)
<1>1. /\ s = [oid |-> s.oid, property |-> s.property, index |-> s.index]
      /\ s.oid = OID(<<s.oid.type, s.oid.instance>>)
  BY SMT DEF IsSlot
<1>2. /\ IsIdentifier(<<s.oid.type, s.oid.instance>>)
      /\ Uint32Number(s.property)
      /\ s.index = NoIndex \/ Uint32Number(s.index)
  BY Zenon DEF IsSlot
<1>3. 0 \in 0..14 /\ 1 \in 0..14 /\ 2 \in 0..14
  BY SMT
<1>4. PICK o, q, x : /\ o = EncodeContextObjectIdentifier(0, s.oid)
                     /\ q = EncodeContextUnsigned(1, s.property)
                     /\ x = IF s.index = NoIndex THEN <<>>
                            ELSE EncodeContextUnsigned(2, s.index)
  OBVIOUS
<1>5. b \in Seq(Byte) /\ ~Element(b, 2).there /\ Element(b, 2).rest = b
  BY Zenon DEF NoIndexAhead
<1>6. /\ x \in Seq(Byte)
      /\ Element(x \o b, 2).rest = b
      /\ s.index = IF Element(x \o b, 2).there
                   THEN DecodeUnsigned(Element(x \o b, 2).payload) ELSE NoIndex
  <2>1. CASE s.index = NoIndex
    <3>1. x = <<>>
      BY <1>4, <2>1, Zenon
    <3>2. x \in Seq(Byte) /\ x \o b = b
      BY <1>5, <3>1, SMT
    <3>3. QED
      BY <1>5, <2>1, <3>2, Zenon
  <2>2. CASE s.index # NoIndex
    <3>1. x = EncodeContextUnsigned(2, s.index)
      BY <1>4, <2>2, Zenon
    <3>2. Uint32Number(s.index)
      BY <1>2, <2>2
    <3>3. x \in Seq(Byte)
      BY <1>3, <1>5, <3>1, <3>2, UnsignedElement, Zenon
    <3>4. NumberIs(x \o b, 2, s.index, b)
      BY <1>3, <1>5, <3>1, <3>2, UnsignedElement, Zenon
    <3>5. QED
      BY <3>3, <3>4, Zenon DEF NumberIs
  <2>3. QED
    BY <2>1, <2>2
<1>7. PICK b2 : b2 = x \o b
  OBVIOUS
<1>8. b2 \in Seq(Byte)
  BY <1>5, <1>6, <1>7, Appended
<1>9. q \in Seq(Byte) /\ Len(q) >= 2
  BY <1>2, <1>3, <1>4, <1>8, UnsignedElement, Zenon
<1>10. NumberIs(q \o b2, 1, s.property, b2)
  BY <1>2, <1>3, <1>4, <1>8, UnsignedElement, Zenon
<1>11. PICK b1 : b1 = q \o b2
  OBVIOUS
<1>12. b1 \in Seq(Byte)
  BY <1>8, <1>9, <1>11, Appended
<1>13. o \in Seq(Byte) /\ Len(o) >= 5 /\ IdentifierIs(o \o b1, 0, s.oid, b1)
  <2>1. PICK t, i, oid : t = s.oid.type /\ i = s.oid.instance /\ oid = s.oid
    OBVIOUS
  <2>2. /\ IsIdentifier(<<t, i>>) /\ oid = OID(<<t, i>>)
        /\ o = EncodeContextObjectIdentifier(0, oid)
    BY <1>1, <1>2, <1>4, <2>1, Zenon
  <2>3. /\ o \in Seq(Byte) /\ Len(o) >= 5 /\ IdentifierIs(o \o b1, 0, oid, b1)
    BY <1>3, <1>12, <2>2, IdentifierElement, Zenon
  <2>4. QED
    BY <2>1, <2>3
<1>14. w = (o \o q) \o x
  BY <1>4, Zenon DEF PropertyReference
<1>15. PICK oq : oq = o \o q
  OBVIOUS
<1>16. oq \in Seq(Byte) /\ Len(oq) = Len(o) + Len(q)
  BY <1>9, <1>13, <1>15, Appended
<1>17. w \in Seq(Byte) /\ Len(w) = Len(oq) + Len(x)
  BY <1>6, <1>14, <1>15, <1>16, Appended
<1>18. Len(w) >= 7
  BY <1>6, <1>9, <1>13, <1>16, <1>17, SMT
<1>19. w \o b = o \o b1
  <2>1. w \o b = oq \o b2
    <3>1. (oq \o x) \o b = oq \o (x \o b)
      BY <1>5, <1>6, <1>16, Associative
    <3>2. QED
      BY <1>7, <1>14, <1>15, <3>1, Zenon
  <2>2. oq \o b2 = o \o b1
    BY <1>8, <1>9, <1>11, <1>13, <1>15, Associative, Zenon
  <2>3. QED
    BY <2>1, <2>2
<1>20. PICK r : r = ReadReference(o \o b1)
  OBVIOUS
<1>21. /\ r.object = Element(o \o b1, 0)
       /\ r.property = Element(b1, 1)
       /\ r.index = Element(b2, 2)
       /\ r.rest = Element(b2, 2).rest
  BY <1>10, <1>11, <1>13, <1>20, Zenon DEF ReadReference, NumberIs,
     IdentifierIs
<1>22. /\ r.object.there /\ r.property.there /\ r.rest = b
       /\ DecodeObjectIdentifier(r.object.payload) = s.oid
       /\ DecodeUnsigned(r.property.payload) = s.property
       /\ s.index = IF r.index.there THEN DecodeUnsigned(r.index.payload)
                    ELSE NoIndex
  BY <1>6, <1>7, <1>10, <1>11, <1>13, <1>21, Zenon
     DEF NumberIs, IdentifierIs
<1>23. RequestedSlot(r) = s
  BY <1>1, <1>22, Zenon DEF RequestedSlot
<1>24. References(ReadReference(w \o b), s, b)
  BY <1>19, <1>20, <1>22, <1>23, Zenon DEF References
<1>25. QED
  BY <1>17, <1>18, <1>24

\* A value between the tags that open and close it, and what follows.
Enclosed(v, b) == EncodeOpeningTag(3) \o (v \o (EncodeClosingTag(3) \o b))

\* The value and what follows it are found where they are.
Encloses(d, v, b) ==
    /\ d \in Seq(Byte) /\ Len(d) = 2 + Len(v) + Len(b)
    /\ NoIndexAhead(d) /\ OpensWith(d, 3)
    /\ EncodeClosingTag(3) \o b \in Seq(Byte)
    /\ Drop(d, 1) = v \o (EncodeClosingTag(3) \o b)
    /\ Drop(d, Len(v) + 2) = b

LEMMA EnclosedRead ==
    ASSUME NEW v \in Seq(Byte), NEW b \in Seq(Byte)
    PROVE  Encloses(Enclosed(v, b), v, b)
<1>0. PICK d : d = Enclosed(v, b)
  OBVIOUS
<1>1. 3 \in 0..14 /\ 2 \in 0..14 /\ 3 \in Int /\ 0 <= 3 /\ 3 < 15
  BY SMT
<1>2. PICK o, c : o = EncodeOpeningTag(3) /\ c = EncodeClosingTag(3)
  OBVIOUS
<1>3. o \in Seq(Byte) /\ Len(o) = 1 /\ c \in Seq(Byte) /\ Len(c) = 1
  BY <1>1, <1>2, MarkerTagInverse, Zenon
<1>4. PICK cb : cb = c \o b
  OBVIOUS
<1>5. cb \in Seq(Byte) /\ Len(cb) = Len(c) + Len(b)
  BY <1>3, <1>4, Appended
<1>6. PICK vcb : vcb = v \o cb
  OBVIOUS
<1>7. vcb \in Seq(Byte) /\ Len(vcb) = Len(v) + Len(cb)
  BY <1>5, <1>6, Appended
<1>8. d = o \o vcb
  BY <1>0, <1>2, <1>4, <1>6, Zenon DEF Enclosed
<1>9. d \in Seq(Byte) /\ Len(d) = Len(o) + Len(vcb) /\ Drop(d, Len(o)) = vcb
  BY <1>3, <1>7, <1>8, WholeBegins, ZenonT(30)
<1>10. Len(d) = 2 + Len(v) + Len(b)
  BY <1>3, <1>5, <1>7, <1>9, SMT
<1>11. /\ ~Element(d, 2).there /\ Element(d, 2).rest = d
  BY <1>1, <1>2, <1>7, <1>8, NoElement, Zenon
<1>12. OpensWith(d, 3)
  BY <1>1, <1>2, <1>7, <1>8, MarkerFound, Zenon
<1>13. Drop(d, 1) = vcb
  BY <1>3, <1>9, Zenon
<1>14. Drop(d, Len(v) + 2) = b
  <2>1. PICK ov : ov = o \o v
    OBVIOUS
  <2>2. ov \in Seq(Byte) /\ Len(ov) = Len(o) + Len(v)
    BY <1>3, <2>1, Appended
  <2>3. PICK ovc : ovc = ov \o c
    OBVIOUS
  <2>4. ovc \in Seq(Byte) /\ Len(ovc) = Len(ov) + Len(c)
    BY <1>3, <2>2, <2>3, Appended
  <2>5. d = ov \o cb
    BY <1>3, <1>5, <1>6, <1>8, <2>1, Associative, ZenonT(40)
  <2>6. d = ovc \o b
    BY <1>3, <1>4, <2>2, <2>3, <2>5, Associative, Zenon
  <2>7. Drop(d, Len(ovc)) = b
    BY <2>4, <2>6, WholeBegins
  <2>8. Len(ovc) = Len(v) + 2
    BY <1>3, <2>2, <2>4, SMT
  <2>9. QED
    BY <2>7, <2>8, Zenon
<1>15. QED
  BY <1>0, <1>2, <1>4, <1>5, <1>6, <1>9, <1>10, <1>11, <1>12, <1>13, <1>14,
     Zenon DEF NoIndexAhead, Encloses

\* Five sequences of bytes.
Parts(a, b, c, d, e) ==
    /\ a \in Seq(Byte) /\ b \in Seq(Byte) /\ c \in Seq(Byte)
    /\ d \in Seq(Byte) /\ e \in Seq(Byte)

\* They are joined from the left or from the right.
LEMMA FiveParts ==
    ASSUME NEW a, NEW b, NEW c, NEW d, NEW e, Parts(a, b, c, d, e)
    PROVE  (((a \o b) \o c) \o d) \o e = a \o (b \o (c \o (d \o e)))
<1>1. /\ a \in Seq(Byte) /\ b \in Seq(Byte) /\ c \in Seq(Byte)
      /\ d \in Seq(Byte) /\ e \in Seq(Byte)
  BY Zenon DEF Parts
<1>2. PICK x : x = (a \o b) \o c
  OBVIOUS
<1>3. x \in Seq(Byte) /\ x = a \o (b \o c)
  <2>1. b \o c \in Seq(Byte)
    BY <1>1, SMTT(30)
  <2>2. a \o (b \o c) \in Seq(Byte)
    BY <1>1, <2>1, SMTT(30)
  <2>3. a \in Seq(Byte) /\ b \in Seq(Byte) /\ c \in Seq(Byte)
    BY <1>1, Zenon
  <2>4. (a \o b) \o c = a \o (b \o c)
    BY <2>3, Associative, ZenonT(30)
  <2>5. QED
    BY <1>2, <2>2, <2>4, Zenon
<1>4. (x \o d) \o e = x \o (d \o e)
  <2>1. x \in Seq(Byte) /\ d \in Seq(Byte) /\ e \in Seq(Byte)
    BY <1>1, <1>3, Zenon
  <2>2. QED
    BY <2>1, Associative, ZenonT(30)
<1>5. PICK y : y = d \o e
  OBVIOUS
<1>6. y \in Seq(Byte)
  BY <1>1, <1>5, SMT
<1>7. (a \o (b \o c)) \o y = a \o (b \o (c \o y))
  <2>1. PICK z : z = b \o c
    OBVIOUS
  <2>2. z \in Seq(Byte)
    BY <1>1, <2>1, SMT
  <2>3. (a \o z) \o y = a \o (z \o y)
    <3>1. a \in Seq(Byte) /\ z \in Seq(Byte) /\ y \in Seq(Byte)
      BY <1>1, <1>6, <2>2, Zenon
    <3>2. QED
      BY <3>1, Associative, ZenonT(30)
  <2>4. z \o y = b \o (c \o y)
    <3>1. b \in Seq(Byte) /\ c \in Seq(Byte) /\ y \in Seq(Byte)
      BY <1>1, <1>6, Zenon
    <3>2. (b \o c) \o y = b \o (c \o y)
      BY <3>1, Associative, ZenonT(30)
    <3>3. QED
      BY <2>1, <3>2, Zenon
  <2>5. QED
    BY <2>1, <2>3, <2>4, Zenon
<1>8. x \o y = a \o (b \o (c \o y))
  BY <1>3, <1>7, Zenon
<1>9. (x \o d) \o e = a \o (b \o (c \o (d \o e)))
  BY <1>4, <1>5, <1>8, Zenon
<1>10. QED
  BY <1>2, <1>9, Zenon

\* w is a tagged number, which readUnsignedTag reads whatever follows it.
NumberTagged(w, n) ==
    /\ w \in Seq(Byte)
    /\ \A b \in Seq(Byte) : /\ ReadUnsignedTag(w \o b).ok
                            /\ ReadUnsignedTag(w \o b).value = n
                            /\ ReadUnsignedTag(w \o b).rest = b

\* An enumerated number is one.
LEMMA NumberTag ==
    ASSUME NEW n \in Nat, n < Uint32Values,
           NEW w, w = EncodeApplicationTag(TagEnumerated, EncodeUnsigned(n))
    PROVE  NumberTagged(w, n)
<1>1. n \in Int /\ 0 <= n
  BY SMT
<1>2. w \in Seq(Byte)
  <2>1. TagEnumerated \in {TagUnsignedInt, TagEnumerated}
    OBVIOUS
  <2>2. Transmits(w, Value("uint32", <<n>>))
    BY <1>1, <2>1, UnsignedTransmits, Zenon
  <2>3. QED
    BY <2>2, Zenon DEF Transmits
<1>3. PICK t \in Int : t = TagEnumerated /\ 0 <= t /\ t < 15
  BY SMT DEF TagEnumerated
<1>4. w = EncodeApplicationTag(t, EncodeUnsigned(n))
  BY <1>3
<1>5. ASSUME NEW b \in Seq(Byte), NEW d, d = w \o b
      PROVE  /\ ReadUnsignedTag(d).ok
             /\ ReadUnsignedTag(d).value = n
             /\ ReadUnsignedTag(d).rest = b
  <2>1. Len(d) >= Len(w) /\ Begins(d, w \o b) /\ Drop(d, Len(w)) = b
    BY <1>2, <1>5, WholeBegins
  <2>2. /\ ReadUnsignedTag(d).ok
        /\ ReadUnsignedTag(d).value = n
        /\ ReadUnsignedTag(d).rest = Drop(d, Len(w))
    BY <1>3, <1>4, <2>1, UnsignedTagRead, Zenon
  <2>3. QED
    BY <2>1, <2>2, Zenon
<1>6. QED
  BY <1>2, <1>5, Zenon DEF NumberTagged

\* The device takes the value out of a request as it was put in.
LEMMA ValueFirst ==
    ASSUME NEW v, NEW value, Transmits(v, value), NEW b \in Seq(Byte)
    PROVE  /\ FirstValue(v \o b) = v
           /\ DecodePropertyValue(v \o b) = Decoded(value)
<1>1. v \in Seq(Byte) /\ FirstIs(v \o b, value, Len(v))
  BY Zenon DEF Transmits
<1>2. PICK d : d = v \o b
  OBVIOUS
<1>3. DecodePropertyValue(d) = Decoded(value) /\ ValueEnd(d) = Len(v)
  BY <1>1, <1>2, Zenon DEF FirstIs
<1>4. FirstValue(d) = SubSeq(d, 1, ValueEnd(d))
  BY Zenon DEF FirstValue, ValueEnd
<1>5. SubSeq(d, 1, Len(v)) = v
  BY <1>1, <1>2, SMT
<1>6. QED
  BY <1>2, <1>3, <1>4, <1>5, Zenon

\* The bytes of the priority in a request.
PriorityBytes(p) ==
    IF WithPriority(p) = NoPriority THEN <<>>
    ELSE EncodeContextUnsigned(4, WithPriority(p))

\* The device reads the priority that WithPriority kept.
LEMMA PriorityRead ==
    ASSUME NEW p, NEW b, b = PriorityBytes(p)
    PROVE  /\ b \in Seq(Byte)
           /\ WithPriority(p) = IF Element(b, 4).there
                                THEN DecodeUnsigned(Element(b, 4).payload)
                                ELSE NoPriority
<1>1. PICK n : n = WithPriority(p)
  OBVIOUS
<1>2. n = NoPriority \/ n \in 1..16
  BY <1>1, Zenon DEF WithPriority
<1>3. 4 \in 0..14 /\ <<>> \in Seq(Byte)
  BY SMT
<1>4. CASE n = NoPriority
  <2>1. b = <<>>
    BY <1>1, <1>4, Zenon DEF PriorityBytes
  <2>2. ~Element(<<>>, 4).there
    BY <1>3, NoElement, Zenon
  <2>3. QED
    BY <1>1, <1>3, <1>4, <2>1, <2>2, Zenon
<1>5. CASE n # NoPriority
  <2>1. b = EncodeContextUnsigned(4, n)
    BY <1>1, <1>5, Zenon DEF PriorityBytes
  <2>2. Uint32Number(n)
    BY <1>2, <1>5, SMT DEF Uint32Number
  <2>3. b \in Seq(Byte) /\ NumberIs(b \o <<>>, 4, n, <<>>)
    BY <1>3, <2>1, <2>2, UnsignedElement, Zenon
  <2>4. b \o <<>> = b
    BY <2>3, SMT
  <2>5. QED
    BY <1>1, <2>3, <2>4, Zenon DEF NumberIs
<1>6. QED
  BY <1>4, <1>5

\* What the device reads in a request to write: the property, the value as it
\* was encoded, and the priority.
WriteIs(read, s, v, p) ==
    /\ RequestedSlot(read) = s
    /\ FirstValue(Drop(read.rest, 1)) = v
    /\ LET x == Element(Drop(read.rest, Len(v) + 2), 4)
       IN  WithPriority(p) = IF x.there THEN DecodeUnsigned(x.payload)
                             ELSE NoPriority

\* The device reads the request that WriteProperty wrote.
LEMMA WriteRead ==
    ASSUME NEW s, IsSlot(s), NEW value, IsWritable(value), NEW p
    PROVE  WriteIs(ReadReference(WriteRequest(s, value, p)), s,
                   EncodePropertyValue(value), p)
<1>0. PICK v : v = EncodePropertyValue(value)
  OBVIOUS
<1>1. Transmits(v, Returned(value))
  BY <1>0, WritableTransmits
<1>2. v \in Seq(Byte)
  BY <1>1, Zenon DEF Transmits
<1>3. PICK b : b = PriorityBytes(p)
  OBVIOUS
<1>4. b \in Seq(Byte)
  BY <1>3, PriorityRead
<1>5. PICK d : d = Enclosed(v, b)
  OBVIOUS
<1>6. /\ d \in Seq(Byte) /\ NoIndexAhead(d)
      /\ EncodeClosingTag(3) \o b \in Seq(Byte)
      /\ Drop(d, 1) = v \o (EncodeClosingTag(3) \o b)
      /\ Drop(d, Len(v) + 2) = b
  <2>1. Encloses(Enclosed(v, b), v, b)
    BY <1>2, <1>4, EnclosedRead
  <2>2. QED
    BY <1>5, <2>1, Zenon DEF Encloses
<1>7. PICK w : w = PropertyReference(s)
  OBVIOUS
<1>8. w \in Seq(Byte) /\ References(ReadReference(w \o d), s, d)
  BY <1>6, <1>7, ReferenceRead
<1>9. WriteRequest(s, value, p) = w \o d
  <2>1. PICK o, c : o = EncodeOpeningTag(3) /\ c = EncodeClosingTag(3)
    OBVIOUS
  <2>2. o \in Seq(Byte) /\ c \in Seq(Byte)
    <3>1. 3 \in Int /\ 0 <= 3 /\ 3 < 15
      BY SMT
    <3>2. QED
      BY <2>1, <3>1, MarkerTagInverse, Zenon
  <2>3. WriteRequest(s, value, p) = (((w \o o) \o v) \o c) \o b
    BY <1>0, <1>3, <1>7, <2>1, Zenon DEF WriteRequest, PriorityBytes
  <2>4. d = o \o (v \o (c \o b))
    BY <1>5, <2>1, Zenon DEF Enclosed
  <2>5. (((w \o o) \o v) \o c) \o b = w \o (o \o (v \o (c \o b)))
    <3>1. Parts(w, o, v, c, b)
      BY <1>2, <1>4, <1>8, <2>2, Zenon DEF Parts
    <3>2. QED
      BY <3>1, FiveParts
  <2>6. QED
    BY <2>3, <2>4, <2>5
<1>10. PICK r : r = ReadReference(w \o d)
  OBVIOUS
<1>11. RequestedSlot(r) = s /\ r.rest = d
  BY <1>8, <1>10, Zenon DEF References
<1>12. FirstValue(Drop(r.rest, 1)) = v
  BY <1>1, <1>6, <1>11, ValueFirst, Zenon
<1>13. PICK x : x = Element(Drop(r.rest, Len(v) + 2), 4)
  OBVIOUS
<1>14. x = Element(b, 4)
  BY <1>6, <1>11, <1>13, Zenon
<1>15. WithPriority(p) = IF x.there THEN DecodeUnsigned(x.payload)
                         ELSE NoPriority
  BY <1>3, <1>14, PriorityRead, Zenon
<1>16. WriteIs(r, s, v, p)
  BY <1>11, <1>12, <1>13, <1>15, Zenon DEF WriteIs
<1>17. QED
  BY <1>0, <1>9, <1>10, <1>16, Zenon

\* The device reads a ReadProperty request: the property.
LEMMA ReadRead ==
    ASSUME NEW s, IsSlot(s)
    PROVE  RequestedSlot(ReadReference(PropertyReference(s))) = s
<1>1. PICK w, b : w = PropertyReference(s) /\ b = <<>>
  OBVIOUS
<1>2. b \in Seq(Byte) /\ 2 \in 0..14
  BY <1>1, SMT
<1>3. NoIndexAhead(b)
  BY <1>1, <1>2, NoElement, Zenon DEF NoIndexAhead
<1>4. w \in Seq(Byte) /\ References(ReadReference(w \o b), s, b)
  BY <1>1, <1>3, ReferenceRead
<1>5. w \o b = w
  BY <1>1, <1>4, SMT
<1>6. QED
  BY <1>1, <1>4, <1>5, Zenon DEF References

\* ReadProperty returns the value that the device put into its answer.
LEMMA AnswerRead ==
    ASSUME NEW s, IsSlot(s), NEW v, NEW value, Transmits(v, value)
    PROVE  DecodeReadPropertyResponse(Answer(s, v)) = Decoded(value)
<1>1. v \in Seq(Byte) /\ Len(v) >= 1
  BY Zenon DEF Transmits
<1>2. PICK b : b = <<>>
  OBVIOUS
<1>3. b \in Seq(Byte) /\ Len(b) = 0
  BY <1>2, SMT
<1>4. PICK d : d = Enclosed(v, b)
  OBVIOUS
<1>5. /\ d \in Seq(Byte) /\ Len(d) = 2 + Len(v) + Len(b)
      /\ NoIndexAhead(d) /\ OpensWith(d, 3)
      /\ EncodeClosingTag(3) \o b \in Seq(Byte)
      /\ Drop(d, 1) = v \o (EncodeClosingTag(3) \o b)
  <2>1. Encloses(Enclosed(v, b), v, b)
    BY <1>1, <1>3, EnclosedRead
  <2>2. QED
    BY <1>4, <2>1, Zenon DEF Encloses
<1>6. PICK w : w = PropertyReference(s)
  OBVIOUS
<1>7. /\ w \in Seq(Byte) /\ Len(w) >= 7
      /\ References(ReadReference(w \o d), s, d)
  BY <1>5, <1>6, ReferenceRead
<1>8. Answer(s, v) = w \o d
  <2>1. PICK o, c : o = EncodeOpeningTag(3) /\ c = EncodeClosingTag(3)
    OBVIOUS
  <2>2. o \in Seq(Byte) /\ c \in Seq(Byte)
    <3>1. 3 \in Int /\ 0 <= 3 /\ 3 < 15
      BY SMT
    <3>2. QED
      BY <2>1, <3>1, MarkerTagInverse, Zenon
  <2>3. Answer(s, v) = ((w \o o) \o v) \o c
    BY <1>6, <2>1, Zenon DEF Answer
  <2>4. d = o \o (v \o (c \o b))
    BY <1>4, <2>1, Zenon DEF Enclosed
  <2>5. (((w \o o) \o v) \o c) \o b = w \o (o \o (v \o (c \o b)))
    <3>1. Parts(w, o, v, c, b)
      BY <1>1, <1>3, <1>7, <2>2, Zenon DEF Parts
    <3>2. QED
      BY <3>1, FiveParts
  <2>6. (((w \o o) \o v) \o c) \o b = ((w \o o) \o v) \o c
    BY <1>1, <1>2, <1>7, <2>2, SMT
  <2>7. QED
    BY <2>3, <2>4, <2>5, <2>6
<1>9. PICK x : x = w \o d
  OBVIOUS
<1>10. ~(Len(x) < 8)
  <2>1. Len(x) = Len(w) + Len(d)
    BY <1>5, <1>7, <1>9, Appended
  <2>2. QED
    BY <1>1, <1>3, <1>5, <1>7, <2>1, SMT
<1>11. PICK r : r = ReadReference(x)
  OBVIOUS
<1>12. r.object.there /\ r.property.there /\ r.rest = d
  BY <1>7, <1>9, <1>11, Zenon DEF References
<1>13. DecodePropertyValue(Drop(d, 1)) = Decoded(value)
  BY <1>5, ValueFirst, Zenon
<1>14. DecodeReadPropertyResponse(x) = Decoded(value)
  BY <1>5, <1>10, <1>11, <1>12, <1>13, Zenon DEF DecodeReadPropertyResponse
<1>15. QED
  BY <1>8, <1>9, <1>14

\* The client reads the class and the low eight bits of the code of an Error.
LEMMA ErrorRead ==
    ASSUME NEW n, Uint32Number(n)
    PROVE  DecodeError(ErrorData(2, n)) = [class |-> 2, code |-> n % 256]
<1>1. n \in Nat /\ n \in Int
  BY SMT DEF Uint32Number
<1>2. n < Uint32Values /\ 2 < Uint32Values /\ 2 \in Nat
  <2>1. n < Uint32Values
    BY <1>1, NumberRanges, SMT
  <2>2. QED
    BY <2>1, SMT DEF Uint32Values
<1>3. PICK t : t = TagEnumerated
  OBVIOUS
<1>4. PICK u, w, b : /\ u = EncodeApplicationTag(t, EncodeUnsigned(2))
                     /\ w = EncodeApplicationTag(t, EncodeUnsigned(n))
                     /\ b = <<>>
  OBVIOUS
<1>5. b \in Seq(Byte)
  BY <1>4, SMT
<1>6. NumberTagged(w, n)
  BY <1>1, <1>2, <1>3, <1>4, NumberTag, Zenon
<1>7. NumberTagged(u, 2)
  BY <1>2, <1>3, <1>4, NumberTag, Zenon
<1>8. w \in Seq(Byte) /\ w \o b = w
  BY <1>4, <1>6, SMT DEF NumberTagged
<1>9. ErrorData(2, n) = u \o w
  BY <1>3, <1>4, Zenon DEF ErrorData
<1>10. PICK c, m : c = ReadUnsignedTag(u \o w) /\ m = ReadUnsignedTag(w)
  OBVIOUS
<1>11. c.ok /\ c.value = 2 /\ c.rest = w
  BY <1>7, <1>8, <1>10, Zenon DEF NumberTagged
<1>12. m.ok /\ m.value = n
  BY <1>5, <1>6, <1>8, <1>10, Zenon DEF NumberTagged
<1>13. DecodeError(u \o w) = [class |-> 2 % 256, code |-> n % 256]
  BY <1>10, <1>11, <1>12, Zenon DEF DecodeError
<1>14. 2 % 256 = 2
  BY SMT
<1>15. QED
  BY <1>9, <1>13, <1>14

\* The device holds the bytes WriteProperty sent of each property's value.
Held ==
    /\ last = [s \in Slots |-> last[s]]
    /\ \A s \in Slots : IsWritable(last[s])
    /\ memory = [s \in Slots |-> EncodePropertyValue(last[s])]

\* The call in progress is one that a caller can make.
CallMade ==
    pc # "idle" => /\ call.op \in {"read", "write"}
                   /\ call.slot \in Slots
                   /\ call.op = "write" => IsWritable(call.value)

\* The request on the wire is the one the call in progress wrote.
Requested ==
    /\ pc = "request" /\ call.op = "read" =>
           wire = PropertyReference(call.slot)
    /\ pc = "request" /\ call.op = "write" =>
           wire = WriteRequest(call.slot, call.value, call.priority)

\* The answer on the wire is the device's to the call in progress.
Answered ==
    /\ pc = "answer" /\ refused =>
           code \in ErrorCodes /\ wire = ErrorData(2, code)
    /\ pc = "answer" /\ ~refused /\ call.op = "read" =>
           wire = Answer(call.slot, EncodePropertyValue(last[call.slot]))
    /\ pc = "answer" /\ ~refused /\ call.op = "write" =>
           prio = WithPriority(call.priority)

Control == pc \in {"idle", "request", "answer"} /\ refused \in BOOLEAN

\* The inductive invariant.
PropertyInv ==
    /\ Control
    /\ Held
    /\ CallMade
    /\ Requested
    /\ Answered
    /\ ReadBack
    /\ ErrorReported

\* A null, the value of a property nobody wrote, is a value that can be written.
LEMMA NilWritable ==
    IsWritable(Nil) /\ EncodePropertyValue(Nil) = <<0>>
<1>1. Nil.t = "nil" /\ Nil.v = <<>> /\ Nil = Value(Nil.t, Nil.v)
  BY SMT DEF Nil, Value
<1>2. EncodePropertyValue(Nil) = <<0>>
  BY <1>1, SMT DEF EncodePropertyValue
<1>3. IsWritable(Nil)
  BY <1>1, Zenon DEF IsWritable
<1>4. QED
  BY <1>2, <1>3

\* No error is the answer of a device: class 2 is not NoError's.
LEMMA RefusalIsError ==
    ASSUME NEW n
    PROVE  [class |-> 2, code |-> n] # NoError
BY SMT DEF NoError

\* The three predicates of errors.go tell every code apart.
LEMMA PredicatesDisjoint ==
    ASSUME NEW error, NEW p \in 1..3, NEW q \in 1..3,
           <<IsPropertyNotFound(error), IsDeviceNotFound(error),
             IsAccessDenied(error)>>[p],
           <<IsPropertyNotFound(error), IsDeviceNotFound(error),
             IsAccessDenied(error)>>[q]
    PROVE  p = q
<1>1. PICK a, b, c : /\ a = IsPropertyNotFound(error)
                     /\ b = IsDeviceNotFound(error)
                     /\ c = IsAccessDenied(error)
  OBVIOUS
<1>2. ~(a /\ b) /\ ~(a /\ c) /\ ~(b /\ c)
  <2>1. /\ ~(IsPropertyNotFound(error) /\ IsDeviceNotFound(error))
        /\ ~(IsPropertyNotFound(error) /\ IsAccessDenied(error))
        /\ ~(IsDeviceNotFound(error) /\ IsAccessDenied(error))
    BY SMT DEF IsPropertyNotFound, IsDeviceNotFound, IsAccessDenied,
        ErrorCodeUnknownProperty, ErrorCodeUnknownDevice,
        ErrorCodeUnknownObject, AccessDeniedCodes
  <2>2. QED
    BY <1>1, <2>1, Zenon
<1>3. <<a, b, c>>[p] /\ <<a, b, c>>[q]
  BY <1>1, Zenon
<1>4. /\ (p = 1 /\ a) \/ (p = 2 /\ b) \/ (p = 3 /\ c)
      /\ (q = 1 /\ a) \/ (q = 2 /\ b) \/ (q = 3 /\ c)
  BY <1>3, SMT
<1>5. CASE p = 1 /\ a
  BY <1>2, <1>4, <1>5, SMT
<1>6. CASE p = 2 /\ b
  BY <1>2, <1>4, <1>6, SMT
<1>7. CASE p = 3 /\ c
  BY <1>2, <1>4, <1>7, SMT
<1>8. QED
  BY <1>4, <1>5, <1>6, <1>7

\* Nothing has been read, written or refused at the start.
LEMMA PropertyInitial ==
    Init => PropertyInv
<1> SUFFICES ASSUME Init
             PROVE  PropertyInv
  OBVIOUS
<1>1. Control /\ CallMade /\ Requested /\ Answered
  BY Zenon DEF Init, Control, CallMade, Requested, Answered
<1>2. Held
  <2>1. \A s \in Slots : last[s] = Nil
    BY Zenon DEF Init
  <2>2. last = [s \in Slots |-> last[s]]
    BY SMT DEF Init
  <2>3. memory = [s \in Slots |-> EncodePropertyValue(last[s])]
    BY <2>1, NilWritable, Zenon DEF Init
  <2>4. QED
    BY <2>1, <2>2, <2>3, NilWritable, Zenon DEF Held
<1>3. result.op = "none" /\ result.error = NoError
  BY SMT DEF Init, NoResult
<1>4. ReadBack /\ ErrorReported
  BY <1>3, SMT DEF ReadBack, ErrorReported
<1>5. QED
  BY <1>1, <1>2, <1>4 DEF PropertyInv

\* A device that reads a WriteProperty request stores the value that was
\* written, in the property it was written to.
LEMMA WriteStored ==
    ASSUME PropertyInv, DeviceWrites
    PROVE  /\ Held' /\ prio' = WithPriority(call.priority)
<1>1. /\ pc = "request" /\ call.op = "write" /\ "request" # "idle"
      /\ last' = [last EXCEPT ![call.slot] = call.value]
  BY Zenon DEF DeviceWrites
<1>2. call.slot \in Slots /\ IsWritable(call.value)
  BY <1>1, Zenon DEF PropertyInv, CallMade
<1>3. PICK s, v : s = call.slot /\ v = EncodePropertyValue(call.value)
  OBVIOUS
<1>4. WriteIs(ReadReference(wire), s, v, call.priority)
  <2>1. wire = WriteRequest(call.slot, call.value, call.priority)
    BY <1>1, Zenon DEF PropertyInv, Requested
  <2>2. IsSlot(call.slot)
    BY <1>2, SlotAssumption, Zenon
  <2>3. QED
    BY <1>2, <1>3, <2>1, <2>2, WriteRead
<1>5. memory' = [memory EXCEPT ![s] = v] /\ prio' = WithPriority(call.priority)
  <2>1. PICK read, value, x :
            /\ read = ReadReference(wire)
            /\ value = FirstValue(Drop(read.rest, 1))
            /\ x = Element(Drop(read.rest, Len(value) + 2), 4)
            /\ memory' = [memory EXCEPT ![RequestedSlot(read)] = value]
            /\ prio' = IF x.there THEN DecodeUnsigned(x.payload) ELSE NoPriority
    BY Zenon DEF DeviceWrites
  <2>2. RequestedSlot(read) = s /\ value = v
    BY <1>4, <2>1, Zenon DEF WriteIs
  <2>3. WithPriority(call.priority)
            = IF x.there THEN DecodeUnsigned(x.payload) ELSE NoPriority
    BY <1>4, <2>1, <2>2, Zenon DEF WriteIs
  <2>4. QED
    BY <2>1, <2>2, <2>3, Zenon
<1>6. /\ last = [t \in Slots |-> last[t]]
      /\ \A t \in Slots : IsWritable(last[t])
      /\ memory = [t \in Slots |-> EncodePropertyValue(last[t])]
  BY Zenon DEF PropertyInv, Held
<1>7. \A t \in Slots : last'[t] = IF t = s THEN call.value ELSE last[t]
  BY <1>1, <1>2, <1>3, <1>6, SMT
<1>8. last' = [t \in Slots |-> last'[t]]
  BY <1>1, <1>6, SMT
<1>9. \A t \in Slots : IsWritable(last'[t])
  BY <1>2, <1>6, <1>7, Zenon
<1>10. memory' = [t \in Slots |-> EncodePropertyValue(last'[t])]
  <2>1. memory' = [t \in Slots |-> IF t = s THEN v ELSE memory[t]]
    <3>1. DOMAIN memory = Slots
      BY <1>6, Zenon
    <3>2. memory' = [t \in DOMAIN memory |-> IF t = s THEN v ELSE memory[t]]
      BY <1>5, Zenon
    <3>3. QED
      BY <3>1, <3>2, Zenon
  <2>2. \A t \in Slots : memory[t] = EncodePropertyValue(last[t])
    BY <1>6, SMT
  <2>3. \A t \in Slots : (IF t = s THEN v ELSE memory[t])
                             = EncodePropertyValue(last'[t])
    BY <1>3, <1>7, <2>2, Zenon
  <2>4. QED
    BY <2>1, <2>3, Zenon
<1>11. QED
  BY <1>5, <1>8, <1>9, <1>10, Zenon DEF Held

\* What Return gives a caller whose call the device answered.
LEMMA CallReturns ==
    ASSUME PropertyInv, Return
    PROVE  ReadBack' /\ ErrorReported'
<1>1. /\ pc = "answer" /\ "answer" # "idle" /\ pc' = "idle"
      /\ last' = last /\ code' = code
  BY Zenon DEF Return
<1>2. call.slot \in Slots /\ IsSlot(call.slot)
  BY <1>1, SlotAssumption, Zenon DEF PropertyInv, CallMade
<1>3. CASE refused
  <2>1. wire = ErrorData(2, code) /\ Uint32Number(code)
    BY <1>1, <1>3, ErrorCodesAssumption, Zenon DEF PropertyInv, Answered
  <2>2. DecodeError(wire) = [class |-> 2, code |-> code % 256]
    BY <2>1, ErrorRead
  <2>3. PICK e : e = [class |-> 2, code |-> code % 256]
    OBVIOUS
  <2>4. result' = [op |-> call.op, slot |-> call.slot, ok |-> FALSE,
                   value |-> DecodeFails.value, error |-> e]
    <3>1. DecodeFails.ok = FALSE
      BY SMT DEF DecodeFails
    <3>2. QED
      BY <1>3, <2>2, <2>3, <3>1, Zenon DEF Return
  <2>5. result'.error = e /\ ~result'.ok
    BY <2>4, SMT
  <2>6. e # NoError
    BY <2>3, RefusalIsError
  <2>7. ReadBack'
    BY <2>5, <2>6, Zenon DEF ReadBack
  <2>8. ErrorReported'
    BY <1>1, <2>3, <2>5, PredicatesDisjoint, Zenon DEF ErrorReported
  <2>9. QED
    BY <2>7, <2>8
<1>4. CASE ~refused /\ call.op = "read"
  <2>1. PICK w : w = last[call.slot]
    OBVIOUS
  <2>2. Transmits(EncodePropertyValue(w), Returned(w))
    BY <1>2, <2>1, WritableTransmits, Zenon DEF PropertyInv, Held
  <2>3. wire = Answer(call.slot, EncodePropertyValue(w))
    BY <1>1, <1>4, <2>1, Zenon DEF PropertyInv, Answered
  <2>4. DecodeReadPropertyResponse(wire) = Decoded(Returned(w))
    BY <1>2, <2>2, <2>3, AnswerRead
  <2>5. /\ Decoded(Returned(w)).ok
        /\ Decoded(Returned(w)).value = Returned(w)
    BY SMT DEF Decoded
  <2>6. result' = [op |-> "read", slot |-> call.slot,
                   ok |-> Decoded(Returned(w)).ok, value |-> Returned(w),
                   error |-> NoError]
    BY <1>4, <2>4, <2>5, Zenon DEF Return
  <2>7. /\ result'.slot = call.slot /\ result'.value = Returned(w)
        /\ result'.ok /\ result'.error = NoError
    BY <2>5, <2>6, SMT
  <2>8. ReadBack'
    BY <1>1, <2>1, <2>7, Zenon DEF ReadBack
  <2>9. ErrorReported'
    BY <2>7, Zenon DEF ErrorReported
  <2>10. QED
    BY <2>8, <2>9
<1>5. CASE ~refused /\ call.op = "write"
  <2>1. ~("write" = "read")
    BY SMT
  <2>2. PICK v : /\ v = Decoded(call.value)
                 /\ result' = [op |-> "write", slot |-> call.slot, ok |-> v.ok,
                               value |-> v.value, error |-> NoError]
    BY <1>5, <2>1, Zenon DEF Return
  <2>3. result'.op = "write" /\ result'.error = NoError
    BY <2>2, SMT
  <2>4. QED
    BY <2>1, <2>3, Zenon DEF ReadBack, ErrorReported
<1>6. QED
  BY <1>1, <1>3, <1>4, <1>5, Zenon DEF PropertyInv, CallMade, Control

\* Every step of a caller, of the device and of the client keeps the invariant.
LEMMA PropertyInductive ==
    PropertyInv /\ [Next]_vars => PropertyInv'
<1> SUFFICES ASSUME PropertyInv, [Next]_vars
             PROVE  PropertyInv'
  OBVIOUS
<1>1. /\ "request" # "idle" /\ "answer" # "idle" /\ "request" # "answer"
      /\ "read" # "write"
  BY SMT
<1>2. CASE ReadProperty
  <2>1. /\ pc = "idle" /\ pc' = "request"
        /\ refused' = refused /\ memory' = memory /\ last' = last
    BY <1>2, Zenon DEF ReadProperty
  <2>2. PICK s \in Slots : /\ call' = [op |-> "read", slot |-> s, value |-> Nil,
                                       priority |-> NoPriority]
                           /\ wire' = PropertyReference(s)
    BY <1>2, Zenon DEF ReadProperty
  <2>3. call'.op = "read" /\ call'.slot = s
    BY <2>2, SMT
  <2>4. Control' /\ Held'
    BY <2>1, Zenon DEF PropertyInv, Control, Held
  <2>5. CallMade' /\ Requested' /\ Answered'
    BY <1>1, <2>1, <2>2, <2>3, Zenon DEF CallMade, Requested, Answered
  <2>6. ReadBack' /\ ErrorReported'
    BY <1>1, <2>1, Zenon DEF ReadBack, ErrorReported
  <2>7. QED
    BY <2>4, <2>5, <2>6 DEF PropertyInv
<1>3. CASE WriteProperty
  <2>1. /\ pc = "idle" /\ pc' = "request"
        /\ refused' = refused /\ memory' = memory /\ last' = last
    BY <1>3, Zenon DEF WriteProperty
  <2>2. PICK s \in Slots, v \in Written, p \in Priorities :
            /\ v.t \in Writable
            /\ call' = [op |-> "write", slot |-> s, value |-> v, priority |-> p]
            /\ wire' = WriteRequest(s, v, p)
    BY <1>3, Zenon DEF WriteProperty
  <2>3. /\ call'.op = "write" /\ call'.slot = s /\ call'.value = v
        /\ call'.priority = p
    BY <2>2, SMT
  <2>4. Control' /\ Held'
    BY <2>1, Zenon DEF PropertyInv, Control, Held
  <2>5. CallMade'
    BY <2>2, <2>3, WrittenAssumption, Zenon DEF CallMade
  <2>6. Requested' /\ Answered'
    BY <1>1, <2>1, <2>2, <2>3, Zenon DEF Requested, Answered
  <2>7. ReadBack' /\ ErrorReported'
    BY <1>1, <2>1, Zenon DEF ReadBack, ErrorReported
  <2>8. QED
    BY <2>4, <2>5, <2>6, <2>7 DEF PropertyInv
<1>4. CASE WriteUnsupported
  <2>1. /\ pc = "idle" /\ pc' = pc /\ call' = call /\ wire' = wire
        /\ refused' = refused /\ memory' = memory /\ prio' = prio
        /\ last' = last
    BY <1>4, Zenon DEF WriteUnsupported
  <2>2. PICK s, v : result' = [op |-> "write", slot |-> s, ok |-> FALSE,
                               value |-> v, error |-> NoError]
    BY <1>4, Zenon DEF WriteUnsupported
  <2>3. result'.op = "write" /\ result'.error = NoError
    BY <2>2, SMT
  <2>4. Control' /\ Held'
    BY <2>1, Zenon DEF PropertyInv, Control, Held
  <2>5. CallMade' /\ Requested' /\ Answered'
    BY <1>1, <2>1, Zenon DEF CallMade, Requested, Answered
  <2>6. ReadBack' /\ ErrorReported'
    BY <1>1, <2>3, Zenon DEF ReadBack, ErrorReported
  <2>7. QED
    BY <2>4, <2>5, <2>6 DEF PropertyInv
<1>5. CASE DeviceReads
  <2>1. /\ pc = "request" /\ pc' = "answer" /\ call.op = "read"
        /\ refused' = FALSE /\ call' = call /\ memory' = memory
        /\ last' = last
    BY <1>5, Zenon DEF DeviceReads
  <2>2. call.slot \in Slots /\ wire = PropertyReference(call.slot)
    BY <1>1, <2>1, Zenon DEF PropertyInv, CallMade, Requested
  <2>3. RequestedSlot(ReadReference(wire)) = call.slot
    BY <2>2, SlotAssumption, ReadRead, Zenon
  <2>4. wire' = Answer(call.slot, memory[call.slot])
    BY <1>5, <2>3, Zenon DEF DeviceReads
  <2>5. memory[call.slot] = EncodePropertyValue(last[call.slot])
    BY <2>2, Zenon DEF PropertyInv, Held
  <2>6. Control' /\ Held'
    BY <2>1, Zenon DEF PropertyInv, Control, Held
  <2>7. CallMade' /\ Requested'
    BY <1>1, <2>1, <2>2, Zenon DEF CallMade, Requested
  <2>8. Answered'
    BY <1>1, <2>1, <2>4, <2>5, Zenon DEF Answered
  <2>9. ReadBack' /\ ErrorReported'
    BY <1>1, <2>1, Zenon DEF ReadBack, ErrorReported
  <2>10. QED
    BY <2>6, <2>7, <2>8, <2>9 DEF PropertyInv
<1>6. CASE DeviceWrites
  <2>1. /\ pc = "request" /\ pc' = "answer" /\ call.op = "write"
        /\ refused' = FALSE /\ call' = call
    BY <1>6, Zenon DEF DeviceWrites
  <2>2. Held' /\ prio' = WithPriority(call.priority)
    BY <1>6, WriteStored
  <2>3. Control'
    BY <2>1, Zenon DEF Control
  <2>4. CallMade'
    BY <1>1, <2>1, Zenon DEF PropertyInv, CallMade
  <2>5. Requested' /\ Answered'
    BY <1>1, <2>1, <2>2, Zenon DEF Requested, Answered
  <2>6. ReadBack' /\ ErrorReported'
    BY <1>1, <2>1, Zenon DEF ReadBack, ErrorReported
  <2>7. QED
    BY <2>2, <2>3, <2>4, <2>5, <2>6 DEF PropertyInv
<1>7. CASE DeviceRefuses
  <2>1. /\ pc = "request" /\ pc' = "answer" /\ refused' = TRUE
        /\ call' = call /\ memory' = memory /\ last' = last
    BY <1>7, Zenon DEF DeviceRefuses
  <2>2. code' \in ErrorCodes /\ wire' = ErrorData(2, code')
    BY <1>7, Zenon DEF DeviceRefuses
  <2>3. Control' /\ Held'
    BY <2>1, Zenon DEF PropertyInv, Control, Held
  <2>4. CallMade'
    BY <1>1, <2>1, Zenon DEF PropertyInv, CallMade
  <2>5. Requested' /\ Answered'
    BY <1>1, <2>1, <2>2, Zenon DEF Requested, Answered
  <2>6. ReadBack' /\ ErrorReported'
    BY <1>1, <2>1, Zenon DEF ReadBack, ErrorReported
  <2>7. QED
    BY <2>3, <2>4, <2>5, <2>6 DEF PropertyInv
<1>8. CASE Return
  <2>1. pc' = "idle" /\ refused' = FALSE /\ memory' = memory /\ last' = last
    BY <1>8, Zenon DEF Return
  <2>2. Control' /\ Held'
    BY <2>1, Zenon DEF PropertyInv, Control, Held
  <2>3. CallMade' /\ Requested' /\ Answered'
    BY <1>1, <2>1, Zenon DEF CallMade, Requested, Answered
  <2>4. ReadBack' /\ ErrorReported'
    BY <1>8, CallReturns
  <2>5. QED
    BY <2>2, <2>3, <2>4 DEF PropertyInv
<1>9. CASE UNCHANGED vars
  <2>1. /\ pc' = pc /\ call' = call /\ wire' = wire /\ refused' = refused
        /\ memory' = memory /\ prio' = prio /\ last' = last
        /\ code' = code /\ result' = result
    BY <1>9 DEF vars
  <2>2. Control' /\ Held' /\ CallMade'
    BY <2>1, Zenon DEF PropertyInv, Control, Held, CallMade
  <2>3. Requested' /\ Answered'
    BY <2>1, Zenon DEF PropertyInv, Requested, Answered
  <2>4. ReadBack' /\ ErrorReported'
    BY <2>1, Zenon DEF PropertyInv, ReadBack, ErrorReported
  <2>5. QED
    BY <2>2, <2>3, <2>4 DEF PropertyInv
<1>10. QED
  BY <1>2, <1>3, <1>4, <1>5, <1>6, <1>7, <1>8, <1>9 DEF Next

\* What the invariant says of the device's memory: ReadProperty decodes it to
\* the value last written.
LEMMA DeviceHoldsInvariant ==
    PropertyInv => DeviceHolds
<1> SUFFICES ASSUME PropertyInv
             PROVE  DeviceHolds
  OBVIOUS
<1>1. ASSUME NEW s \in Slots
      PROVE  DecodePropertyValue(memory[s]) = Decoded(Returned(last[s]))
  <2>1. /\ IsWritable(last[s])
        /\ memory[s] = EncodePropertyValue(last[s])
    BY Zenon DEF PropertyInv, Held
  <2>2. QED
    BY <2>1, WritableTransmits, Zenon DEF Transmits
<1>2. pc = "answer" /\ ~refused /\ call.op = "write" =>
          prio = WithPriority(call.priority)
  BY Zenon DEF PropertyInv, Answered
<1>3. QED
  BY <1>1, <1>2, Zenon DEF DeviceHolds, WithPriority

\* The invariant holds in every state of every exchange.
LEMMA PropertyInvariant ==
    Spec => []PropertyInv
<1>1. Init => PropertyInv
  BY PropertyInitial
<1>2. PropertyInv /\ [Next]_vars => PropertyInv'
  BY PropertyInductive
<1>3. QED
  BY <1>1, <1>2, PTL DEF Spec

\* For every set of properties, of values and of priorities: what WriteProperty
\* wrote to a property is what ReadProperty then returns for it.
THEOREM ReadBackCorrect ==
    Spec => []ReadBack
<1>1. PropertyInv => ReadBack
  BY DEF PropertyInv
<1>2. QED
  BY <1>1, PropertyInvariant, PTL

\* A device that reads the requests as the standard says holds in each property
\* the value last written to it, and sees the caller's priority.
THEOREM DeviceHoldsCorrect ==
    Spec => []DeviceHolds
BY DeviceHoldsInvariant, PropertyInvariant, PTL

\* Whatever error a device answers with, the caller gets its class and the low
\* eight bits of its code, and at most one predicate of errors.go holds.
THEOREM ErrorReportedCorrect ==
    Spec => []ErrorReported
<1>1. PropertyInv => ErrorReported
  BY DEF PropertyInv
<1>2. QED
  BY <1>1, PropertyInvariant, PTL

=============================================================================
