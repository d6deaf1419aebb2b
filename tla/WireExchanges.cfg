\* Every item and every datagram, whole and cut.
SPECIFICATION WireSpec
CONSTANTS
    TagNumbers <- Standard
    Lengths <- MCLengths
    Items <- MCItems
    Texts <- MCTexts
    PDUs <- MCPDUs
    Devices <- MCDevices
    OriginIP <- MCOriginIP
    BBMDIP <- MCBBMDIP
    MACs <- MCMACs
INVARIANTS
    TypeOK
    TagRoundTrip
    ValueRoundTrip
    BitsRoundTrip
    TextIndependentOfSet
    CutRejected
    HandlerReached
    DataIsPrefix
    IAmExact
CHECK_DEADLOCK FALSE
