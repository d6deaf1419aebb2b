------------------------------ MODULE MCCodec -------------------------------
(* Instances of Codec for TLC: the ends of every form of every encoding.   *)
EXTENDS Codec

Standard == {0, 1, 2, 3, 4, 12, 14}

MCLengths == {0, 1, 4, 5, 6, 7, 253, 254, 255, 256, 65535, 65536, 16777216}

Unsigned == {0, 1, 127, 128, 255, 256, 32768, 65535, 65536, 8388608,
             16777215, 16777216, 2147483647}
Signed == {0, 1, -1, 127, 128, -128, -129, 32767, 32768, -32768, -32769,
           8388607, 8388608, -8388608, -8388609, 2147483647, -2147483647}

\* Every bit string of at most three bits, and longer ones around a full byte.
Bits == UNION {[1..n -> {0, 1}] : n \in 0..3}
        \cup {[i \in 1..n |-> i % 2] : n \in {4, 7, 8, 9, 15, 16, 17}}
        \cup {[i \in 1..n |-> 1] : n \in {7, 8, 9, 16}}

Dates == {<<1900, 1, 1, 1>>, <<2026, 2, 28, 6>>, <<2154, 12, 31, 4>>,
          <<DateWildcardYear, 255, 255, 255>>, <<2024, 14, 32, 255>>,
          <<2155, 1, 1, 255>>, <<2156, 1, 1, 255>>, <<2200, 1, 1, 255>>,
          <<1899, 1, 1, 255>>, <<2411, 1, 1, 255>>, <<0, 1, 1, 255>>}

MCItems ==
    {Nil, Value("bool", <<0>>), Value("bool", <<1>>),
     Value("float32", <<63, 128, 0, 0>>),
     Value("float64", <<64, 9, 33, 251, 84, 68, 45, 24>>),
     Value("string", <<>>), Value("string", <<72, 105>>),
     Value("string", <<206, 169, 33, 33, 33>>),
     Value("Time", <<23, 59, 255, 99>>)}
    \cup {Value("ObjectIdentifier", <<t, n>>) :
              t \in {0, 3, 4, 8, 1023}, n \in {0, 65535, 65536, 4194303}}
    \cup {Value("uint32", <<n>>) : n \in Unsigned}
    \cup {Value("enum", <<n>>) : n \in {0, 255, 256, 65536}}
    \cup {Value("int32", <<n>>) : n \in Signed}
    \cup {Value("int", <<n>>) : n \in {-129, -1, 0, 300}}
    \cup {Value("signed", <<n>>) : n \in Signed}
    \cup {Value("BitString", b) : b \in Bits}
    \cup {Value("Date", d) : d \in Dates}

\* The first and last character of each width of UTF-8 and of UTF-16.
Characters == {65, 127, 128, 255, 256, 2047, 2048, 65533, 65536, 1114111}
MCTexts == UNION {[1..n -> Characters] : n \in 0..2}

=============================================================================
