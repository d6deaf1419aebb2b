-------------------------- MODULE PropertyService ---------------------------
(***************************************************************************)
(* ReadProperty and WriteProperty (client.go) against a device that keeps  *)
(* the encoded value of each property: the request the client builds, the  *)
(* device's reading of it, its answer, and what the caller gets. The       *)
(* exchange itself is Client's; here it neither loses nor mixes messages.  *)
(***************************************************************************)
EXTENDS Scalars

CONSTANTS Slots,       \* properties: [oid, property, index]
          Written,     \* values callers pass to WriteProperty
          Priorities,  \* arguments of WithPriority, and NoPriority
          ErrorCodes   \* codes a device answers with

NoIndex == -1
NoPriority == -1

\* What the Go types of a call's arguments hold.
IsSlot(s) ==
    /\ s = [oid |-> OID(<<s.oid.type, s.oid.instance>>),
            property |-> s.property, index |-> s.index]
    /\ IsIdentifier(<<s.oid.type, s.oid.instance>>)
    /\ Uint32Number(s.property)
    /\ s.index = NoIndex \/ Uint32Number(s.index)

ASSUME SlotAssumption == \A s \in Slots : IsSlot(s)
ASSUME WrittenAssumption ==
    \A value \in Written : value.t \in Writable => IsWritable(value)
ASSUME ErrorCodesAssumption == \A n \in ErrorCodes : Uint32Number(n)

VARIABLES pc,      \* "idle", "request", "answer"
          call,    \* the call in progress: [op, slot, value, priority]
          wire,    \* service data of the request, then of the answer
          refused, \* TRUE when the answer is an Error PDU
          memory,  \* the device's encoded value of each slot
          prio,    \* the priority in the request, as the device read it
          last,    \* the last value a caller wrote to each slot
          code,    \* the code of the device's Error PDU, 0 if none
          result   \* what the last call returned

vars == <<pc, call, wire, refused, memory, prio, last, code, result>>

-----------------------------------------------------------------------------
\* Mutant: the array index is left out.
PropertyReferenceNoIndex(slot) ==
    EncodeContextObjectIdentifier(0, slot.oid)
        \o EncodeContextUnsigned(1, slot.property)

\* The part that ReadProperty and WriteProperty share.
PropertyReference(slot) ==
    EncodeContextObjectIdentifier(0, slot.oid)
        \o EncodeContextUnsigned(1, slot.property)
        \o IF slot.index = NoIndex THEN <<>>
           ELSE EncodeContextUnsigned(2, slot.index)

\* WithPriority ignores a priority out of range.
WithPriority(priority) == IF priority \in 1..16 THEN priority ELSE NoPriority

WriteRequest(slot, value, priority) ==
    PropertyReference(slot)
        \o EncodeOpeningTag(3) \o EncodePropertyValue(value)
        \o EncodeClosingTag(3)
        \o IF WithPriority(priority) = NoPriority THEN <<>>
           ELSE EncodeContextUnsigned(4, WithPriority(priority))

\* The elements with context tags 0, 1 and 2 at the head of data, in order,
\* and what follows them.
ReadReference(data) ==
    LET object == Element(data, 0)
        property == Element(object.rest, 1)
        index == Element(property.rest, 2)
    IN  [object |-> object, property |-> property, index |-> index,
         rest |-> index.rest]

\* The object, the property and the index in the answer are skipped, not
\* compared with the request.
DecodeReadPropertyResponse(data) ==
    LET read == ReadReference(data)
    IN  IF \/ Len(data) < 8
           \/ ~read.object.there \/ ~read.property.there
        THEN DecodeFails
        ELSE IF ~OpensWith(read.rest, 3) THEN DecodeFails
        ELSE DecodePropertyValue(Drop(read.rest, 1))

\* Stands for every error that is not a BACnetError, and for none.
NoError == [class |-> -1, code |-> -1]

\* Mutant: the code is read where the class is.
DecodeErrorFirst(data) ==
    LET class == ReadUnsignedTag(data)
    IN  IF class.ok
        THEN [class |-> class.value % 256, code |-> class.value % 256]
        ELSE NoError

\* The class and the code are narrowed to eight bits.
DecodeError(data) ==
    LET class == ReadUnsignedTag(data)
        number == ReadUnsignedTag(class.rest)
    IN  IF class.ok /\ number.ok
        THEN [class |-> class.value % 256, code |-> number.value % 256]
        ELSE NoError

ErrorCodeUnknownObject == 31
ErrorCodeUnknownProperty == 32
ErrorCodeUnknownDevice == 70
AccessDeniedCodes == {27, 40}

IsPropertyNotFound(error) == error.code = ErrorCodeUnknownProperty
IsDeviceNotFound(error) ==
    error.code \in {ErrorCodeUnknownDevice, ErrorCodeUnknownObject}
IsAccessDenied(error) == error.code \in AccessDeniedCodes

-----------------------------------------------------------------------------
(***************************************************************************)
(* The device.                                                             *)
(***************************************************************************)

\* Its reading of a request: the property, then the encoded value between
\* the opening and the closing tag.
RequestedSlot(read) ==
    [oid |-> DecodeObjectIdentifier(read.object.payload),
     property |-> DecodeUnsigned(read.property.payload),
     index |-> IF read.index.there THEN DecodeUnsigned(read.index.payload)
               ELSE NoIndex]

FirstValue(data) ==
    LET tag == DecodeTagNumber(data)
    IN  SubSeq(data, 1, tag.header + IF tag.number \in {TagNull, TagBoolean}
                                     THEN 0 ELSE tag.length)

Answer(slot, value) ==
    PropertyReference(slot) \o EncodeOpeningTag(3) \o value
        \o EncodeClosingTag(3)

ErrorData(class, number) ==
    EncodeApplicationTag(TagEnumerated, EncodeUnsigned(class))
        \o EncodeApplicationTag(TagEnumerated, EncodeUnsigned(number))

-----------------------------------------------------------------------------
AnySlot == CHOOSE s \in Slots : TRUE
NoCall == [op |-> "none", slot |-> AnySlot, value |-> Nil,
           priority |-> NoPriority]
NoResult == [op |-> "none", slot |-> AnySlot, ok |-> TRUE, value |-> Nil,
             error |-> NoError]

Init ==
    /\ pc = "idle"
    /\ call = NoCall
    /\ wire = <<>>
    /\ refused = FALSE
    /\ memory = [s \in Slots |-> <<0>>]
    /\ prio = NoPriority
    /\ last = [s \in Slots |-> Nil]
    /\ code = 0
    /\ result = NoResult

ReadProperty ==
    /\ pc = "idle"
    /\ pc' = "request"
    /\ \E s \in Slots :
        /\ call' = [op |-> "read", slot |-> s, value |-> Nil,
                    priority |-> NoPriority]
        /\ wire' = PropertyReference(s)
    /\ result' = NoResult
    /\ code' = 0
    /\ UNCHANGED <<refused, memory, prio, last>>

WriteProperty ==
    /\ pc = "idle"
    /\ pc' = "request"
    /\ \E s \in Slots, v \in Written, p \in Priorities :
        /\ v.t \in Writable
        /\ call' = [op |-> "write", slot |-> s, value |-> v, priority |-> p]
        /\ wire' = WriteRequest(s, v, p)
    /\ result' = NoResult
    /\ code' = 0
    /\ UNCHANGED <<refused, memory, prio, last>>

\* "unsupported value type": nothing is sent.
WriteUnsupported ==
    /\ pc = "idle"
    /\ \E s \in Slots, v \in Written :
        /\ v.t \notin Writable
        /\ result' = [op |-> "write", slot |-> s, ok |-> FALSE, value |-> v,
                      error |-> NoError]
    /\ code' = 0
    /\ UNCHANGED <<pc, call, wire, refused, memory, prio, last>>

DeviceReads ==
    /\ pc = "request"
    /\ call.op = "read"
    /\ \E slot \in Slots \cap {RequestedSlot(ReadReference(wire))} :
           wire' = Answer(slot, memory[slot])
    /\ pc' = "answer"
    /\ refused' = FALSE
    /\ UNCHANGED <<call, memory, prio, last, code, result>>

DeviceWrites ==
    /\ pc = "request"
    /\ call.op = "write"
    /\ \E read \in {ReadReference(wire)} :
       \E value \in {FirstValue(Drop(read.rest, 1))} :
       \E priority \in {Element(Drop(read.rest, Len(value) + 2), 4)} :
           /\ RequestedSlot(read) \in Slots
           /\ memory' = [memory EXCEPT ![RequestedSlot(read)] = value]
           /\ prio' = IF priority.there THEN DecodeUnsigned(priority.payload)
                      ELSE NoPriority
    /\ last' = [last EXCEPT ![call.slot] = call.value]
    /\ wire' = <<>>
    /\ pc' = "answer"
    /\ refused' = FALSE
    /\ UNCHANGED <<call, code, result>>

DeviceRefuses ==
    /\ pc = "request"
    /\ \E n \in ErrorCodes :
        /\ wire' = ErrorData(2, n)
        /\ code' = n
    /\ pc' = "answer"
    /\ refused' = TRUE
    /\ UNCHANGED <<call, memory, prio, last, result>>

Return ==
    /\ pc = "answer"
    /\ \E value \in {IF refused THEN DecodeFails
                     ELSE IF call.op = "read"
                     THEN DecodeReadPropertyResponse(wire)
                     ELSE Decoded(call.value)} :
           result' = [op |-> call.op, slot |-> call.slot, ok |-> value.ok,
                      value |-> value.value,
                      error |-> IF refused THEN DecodeError(wire)
                                ELSE NoError]
    /\ pc' = "idle"
    /\ call' = NoCall
    /\ wire' = <<>>
    /\ refused' = FALSE
    /\ prio' = NoPriority
    /\ UNCHANGED <<memory, last, code>>

Next ==
    \/ ReadProperty
    \/ WriteProperty
    \/ WriteUnsupported
    \/ DeviceReads
    \/ DeviceWrites
    \/ DeviceRefuses
    \/ Return

Spec == Init /\ [][Next]_vars

-----------------------------------------------------------------------------
\* A value written with WriteProperty is the value ReadProperty then returns
\* for the same object, property and index, in the Go type of the tag it was
\* written with, whatever was written elsewhere in between.
ReadBack ==
    pc = "idle" /\ result.op = "read" /\ result.error = NoError =>
        result.ok /\ result.value = Returned(last[result.slot])

\* The device holds in each property what was last written to that property:
\* no request is read as one for another index or object, none is read with
\* part of the value missing, and the priority it sees is the caller's.
DeviceHolds ==
    /\ \A s \in Slots :
           DecodePropertyValue(memory[s]) = Decoded(Returned(last[s]))
    /\ pc = "answer" /\ call.op = "write" /\ ~refused =>
           prio = IF call.priority \in 1..16 THEN call.priority ELSE NoPriority

\* A refusal reaches the caller with the class and the low eight bits of the
\* code that the device answered, and the three predicates of errors.go tell
\* these apart; a vendor's code of 256 or more looks like a standard one.
ErrorReported ==
    pc = "idle" /\ result.error # NoError =>
        /\ ~result.ok
        /\ result.error = [class |-> 2, code |-> code % 256]
        /\ LET told == <<IsPropertyNotFound(result.error),
                          IsDeviceNotFound(result.error),
                          IsAccessDenied(result.error)>>
           IN  \A p, q \in 1..3 : told[p] /\ told[q] => p = q

=============================================================================
