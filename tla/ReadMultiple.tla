---------------------------- MODULE ReadMultiple ----------------------------
(***************************************************************************)
(* ReadPropertyMultiple (client.go): the request, grouped by object in the *)
(* order in which Go walks a map, a device's answer, of which the receive  *)
(* buffer may keep only the beginning, and the loops that decode it. One   *)
(* step is one iteration of a loop of decodeReadPropertyMultipleResponse   *)
(* or of skipToContextClosingTag.                                          *)
(***************************************************************************)
EXTENDS Scalars, SequencesExt

CONSTANTS RequestLists,  \* argument lists: [oid, property, index]
          Content        \* what the device has: request -> the elements of
                         \* its value, or Refused

NoIndex == -1
Refused == <<>>

VARIABLES dpc,       \* "idle", "object", "property", "skip", "done"
          requests,  \* the caller's list
          data,      \* service data of the acknowledgement
          cut,       \* TRUE when its end was lost
          offset,
          oid,       \* the object whose results are being read
          want,      \* the closing tag skipped to
          results

vars == <<dpc, requests, data, cut, offset, oid, want, results>>

-----------------------------------------------------------------------------
(***************************************************************************)
(* The request and the device's answer.                                    *)
(***************************************************************************)

\* Mutant: each request replaces the object's earlier ones.
GroupLast(reqs, o) ==
    LET all == SelectSeq(reqs, LAMBDA r : r.oid = o) IN <<Last(all)>>

\* objectRequests[o]: the requests for o, in the caller's order.
Group(reqs, o) == SelectSeq(reqs, LAMBDA r : r.oid = o)

EncodeReference(r, tag) ==
    EncodeContextUnsigned(tag, r.property)
        \o IF r.index = NoIndex THEN <<>>
           ELSE EncodeContextUnsigned(tag + 1, r.index)

\* The request, its objects in the given order.
EncodeRequest(reqs, order) ==
    LET references(o) == [i \in DOMAIN Group(reqs, o) |->
                             EncodeReference(Group(reqs, o)[i], 0)]
        object(o) == EncodeContextObjectIdentifier(0, o) \o EncodeOpeningTag(1)
                         \o FlattenSeq(references(o)) \o EncodeClosingTag(1)
    IN  FlattenSeq([i \in DOMAIN order |-> object(order[i])])

\* The device's result for one reference: its value, or an error.
EncodeResult(r) ==
    EncodeReference(r, 2)
        \o IF Content[r] = Refused
           THEN EncodeOpeningTag(5) \o <<145, 2, 145, 32>> \o EncodeClosingTag(5)
           ELSE EncodeOpeningTag(4) \o Content[r] \o EncodeClosingTag(4)

\* The device walks the request, in the list of the object identifier at k or,
\* when k is -1, between two objects, and answers in the same order.
Answer(request) ==
    LET from[n \in 0..Len(request), k \in -1..Len(request)] ==
            LET rest == Drop(request, n)
                property == Element(rest, 0)
                index == Element(property.rest, 1)
                r == [oid |-> DecodeObjectIdentifier(Drop(request, k)),
                      property |-> DecodeUnsigned(property.payload),
                      index |-> IF index.there
                                THEN DecodeUnsigned(index.payload) ELSE NoIndex]
            IN  IF rest = <<>> THEN <<>>
                ELSE IF k = -1 THEN SubSeq(rest, 1, 6) \o from[n + 6, n + 1]
                ELSE IF rest[1] = EncodeClosingTag(1)[1]
                     THEN <<rest[1]>> \o from[n + 1, -1]
                ELSE EncodeResult(r) \o from[Len(request) - Len(index.rest), k]
    IN  from[0, -1]

-----------------------------------------------------------------------------
Init ==
    /\ dpc = "idle"
    /\ requests = <<>>
    /\ data = <<>>
    /\ cut = FALSE
    /\ offset = 0
    /\ oid = [type |-> 0, instance |-> 0]
    /\ want = 0
    /\ results = <<>>

\* The exchanges there can be: Go walks the map of objects in any order.
Exchanges ==
    UNION {{[requests |-> reqs, data |-> Answer(EncodeRequest(reqs, order))] :
               order \in SetToSeqs({reqs[i].oid : i \in DOMAIN reqs})} :
           reqs \in RequestLists}

ReadPropertyMultiple ==
    /\ dpc = "idle"
    /\ \E x \in Exchanges :
        /\ requests' = x.requests
        /\ data' = x.data
    /\ dpc' = "object"
    /\ UNCHANGED <<cut, offset, oid, want, results>>

Cut ==
    /\ dpc = "object"
    /\ offset = 0
    /\ ~cut
    /\ \E n \in 0..Len(data) - 1 : data' = SubSeq(data, 1, n)
    /\ cut' = TRUE
    /\ UNCHANGED <<dpc, requests, offset, oid, want, results>>

\* data[offset:]
Rest == Drop(data, offset)

\* How far into data a suffix of it begins.
OffsetOf(suffix) == Len(data) - Len(suffix)

\* Object identifier [0] of four bytes and the opening tag [1]; anything else
\* ends the decoding.
ObjectStep ==
    /\ dpc = "object"
    /\ \E object \in {Element(Rest, 0)} :
        IF object.there /\ Len(object.payload) = 4 /\ OpensWith(object.rest, 1)
        THEN /\ dpc' = "property"
             /\ oid' = DecodeObjectIdentifier(object.payload)
             /\ offset' = OffsetOf(object.rest) + 1
        ELSE /\ dpc' = "done"
             /\ UNCHANGED <<oid, offset>>
    /\ UNCHANGED <<requests, data, cut, want, results>>

\* break propertyLoop: the object loop goes on where the property loop stood.
Break(n) ==
    /\ dpc' = "object"
    /\ offset' = n
    /\ UNCHANGED <<want, results>>

\* Mutant: a value that could not be decoded is taken from the result before.
PropertyValueStale(property, index) ==
    LET decoded == DecodePropertyValue(Drop(index.rest, 1))
    IN  [oid |-> oid, property |-> DecodeUnsigned(property.payload),
         index |-> IF index.there THEN DecodeUnsigned(index.payload)
                   ELSE NoIndex,
         value |-> IF decoded.ok \/ results = <<>> THEN decoded.value
                   ELSE Last(results).value]

\* The result appended for a value. An error of the value's decoder is dropped,
\* and the value is then nil.
PropertyValue(property, index) ==
    [oid |-> oid, property |-> DecodeUnsigned(property.payload),
     index |-> IF index.there THEN DecodeUnsigned(index.payload) ELSE NoIndex,
     value |-> DecodePropertyValue(Drop(index.rest, 1)).value]

\* One iteration of the property loop: the closing tag [1], or a property [2],
\* perhaps an index [3], and the opening tag of a value [4] or an error [5].
PropertyStep ==
    /\ dpc = "property"
    /\ \E property \in {Element(Rest, 2)} :
       \E index \in {Element(property.rest, 3)} :
        IF ClosesWith(Rest, 1) THEN Break(offset + 1)
        ELSE IF ~property.there THEN Break(offset)
        ELSE IF ~OpensWith(index.rest, 4) /\ ~OpensWith(index.rest, 5)
        THEN Break(OffsetOf(index.rest))
        ELSE /\ dpc' = "skip"
             /\ offset' = OffsetOf(index.rest) + 1
             /\ want' = IF OpensWith(index.rest, 4) THEN 4 ELSE 5
             /\ results' = IF OpensWith(index.rest, 4)
                           THEN Append(results, PropertyValue(property, index))
                           ELSE results
    /\ UNCHANGED <<requests, data, cut, oid>>

\* Mutant: only payloads are stepped over, not headers.
SkipToNoHeader(tag, n) == n + Max({tag.length, 0})

\* Mutant: a length beyond the end is not noticed.
SkipToUnchecked(tag, n) == n + tag.header + Max({tag.length, 0})

\* Where an iteration of skipToContextClosingTag leaves the offset.
SkipTo(tag, n) ==
    LET next == n + tag.header + Max({tag.length, 0})
    IN  IF next > Len(data) THEN Len(data) ELSE next

\* One iteration of skipToContextClosingTag. Every positive length is stepped
\* over, that of a Boolean, which has no payload, included.
SkipStep ==
    /\ dpc = "skip"
    /\ \E tag \in {DecodeTagNumber(Rest)} :
        IF tag.ok
        THEN /\ offset' = SkipTo(tag, offset)
             /\ dpc' = IF ClosesWith(Rest, want) \/ offset' >= Len(data)
                      THEN "property" ELSE "skip"
        ELSE /\ offset' = Len(data)
             /\ dpc' = "property"
    /\ UNCHANGED <<requests, data, cut, oid, want, results>>

\* decodeReadPropertyMultipleResponse
Decode == ObjectStep \/ PropertyStep \/ SkipStep

Next == ReadPropertyMultiple \/ Cut \/ Decode

\* The decoder is sequential code: it runs until it returns.
Spec == Init /\ [][Next]_vars /\ WF_vars(Decode)

-----------------------------------------------------------------------------
\* The offset stays within the answer, so that no slice is out of range.
TypeOK ==
    /\ dpc \in {"idle", "object", "property", "skip", "done"}
    /\ \A i \in DOMAIN data : data[i] \in 0..255
    /\ offset \in 0..Len(data)
    /\ want \in {0, 4, 5}

\* The result a request should give: what decodePropertyValue makes of the first
\* element of the value, which is nil for a constructed value.
Result(r) ==
    [oid |-> r.oid, property |-> r.property, index |-> r.index,
     value |-> DecodePropertyValue(Content[r]).value]

\* How often x is in the sequence s.
Count(s, x) == Cardinality({i \in DOMAIN s : s[i] = x})

Granted == SelectSeq(requests, LAMBDA r : Content[r] # Refused)

\* Every request the device grants is answered once with the device's value
\* under its own object, property and index, and nothing else is returned, in
\* whichever order the map gave the objects and whatever was refused between.
\* The device's value is what decodePropertyValue makes of it (Codec is about
\* that): a constructed value, which it cannot decode, comes back as nil from a
\* whole answer too.
EveryRequestAnswered ==
    dpc = "done" /\ ~cut =>
        /\ Len(results) = Len(Granted)
        /\ \A i \in DOMAIN Granted :
               Count(results, Result(Granted[i])) = Count(Granted, Granted[i])

\* Every result is the device's value of a property that was asked for, under
\* the object it belongs to, as decodePropertyValue reads it: nil stands for a
\* null and for a constructed value, on a whole answer too. Besides these, only
\* the last result of an answer whose end is lost may be nil, because its
\* decoding failed.
ResultsTrue ==
    \A i \in DOMAIN results :
        \E j \in DOMAIN Granted :
            \/ results[i] = Result(Granted[j])
            \/ /\ cut
               /\ i = Len(results)
               /\ results[i] = [Result(Granted[j]) EXCEPT !.value = Nil]

\* The loops of the decoder end on every answer, whole or cut: none stays at
\* its offset.
DecodingEnds == (dpc = "object") ~> (dpc = "done")

=============================================================================
