------------------------- MODULE MCPropertyService -------------------------
(* Instances of PropertyService for TLC.                                   *)
EXTENDS PropertyService

Slot(type, instance, property, index) ==
    [oid |-> [type |-> type, instance |-> instance],
     property |-> property, index |-> index]

\* An array element and the whole property, and a proprietary property of an
\* object with the largest identifier.
MCSlots == {Slot(2, 1, 85, NoIndex), Slot(2, 1, 85, 0),
            Slot(1023, 4194303, 70000, NoIndex)}

\* Each type that encodePropertyValue has a case for, and two it has none for.
MCWritten ==
    {Nil, Value("bool", <<1>>), Value("int", <<-200>>), Value("int32", <<7>>),
     Value("string", <<72, 105, 33, 33, 33>>),
     Value("ObjectIdentifier", <<8, 4194303>>),
     Value("float32", <<63, 128, 0, 0>>), Value("uint32", <<70000>>),
     Value("Date", <<2026, 1, 1, 4>>), Value("BitString", <<4, 80>>)}

MCPriorities == {NoPriority, 0, 16, 17}

\* Standard codes, the largest that fits a byte, and one that does not.
MCErrorCodes == {27, 31, 32, 255, 288}

=============================================================================
