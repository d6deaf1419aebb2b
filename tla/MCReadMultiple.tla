--------------------------- MODULE MCReadMultiple ---------------------------
(* Instances of ReadMultiple for TLC.                                      *)
EXTENDS ReadMultiple

Request(o, property, index) == [oid |-> o, property |-> property,
                                index |-> index]

A == [type |-> 0, instance |-> 1]
B == [type |-> 8, instance |-> 4194303]

References == {Request(o, p, i) : o \in {A, B}, p \in {77, 85, 70000},
                                  i \in {NoIndex, 0}}

\* A text, a list of two values, a refusal, Null, a date and FALSE; the two
\* objects have them under different properties.
MCContent ==
    [r \in References |->
        CASE r.property = 77 /\ r.index = NoIndex ->
               EncodePropertyValue(Value("string", <<72, 105, 33, 33, 33>>))
          [] r.property = 77 /\ r.index = 0 -> Refused
          [] r.property = 85 /\ r.index = NoIndex ->
               IF r.oid = A
               THEN EncodePropertyValue(Value("float32", <<66, 151, 0, 0>>))
               ELSE EncodeApplicationTag(TagDate, <<126, 2, 28, 6>>)
          [] r.property = 85 /\ r.index = 0 -> EncodePropertyValue(Nil)
          [] r.property = 70000 /\ r.index = NoIndex ->
               EncodePropertyValue(Value("uint32", <<1>>))
                   \o EncodePropertyValue(Value("uint32", <<300>>))
          [] r.property = 70000 /\ r.index = 0 ->
               IF r.oid = A THEN EncodePropertyValue(Value("bool", <<0>>))
               ELSE EncodeOpeningTag(0) \o EncodeContextUnsigned(1, 9)
                        \o EncodeClosingTag(0)]

\* TRUE in place of FALSE.
TrueContent ==
    [r \in References |->
        IF r = Request(A, 70000, 0)
        THEN EncodePropertyValue(Value("bool", <<1>>)) ELSE MCContent[r]]

MCRequestLists == UNION {[1..n -> References] : n \in 1..2}
    \cup {<<r, Request(B, 85, NoIndex), Request(A, 85, NoIndex), s>> :
              r \in References, s \in {Request(A, 77, 0), Request(B, 77, NoIndex)}}
    \cup {<<r, Request(B, 85, NoIndex), Request(B, 77, NoIndex)>> :
              r \in References}

=============================================================================
