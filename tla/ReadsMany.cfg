\* One call of ReadPropertyMultiple or of GetObjectList.
SPECIFICATION ReadsSpec
CONSTANTS
    RequestLists <- MCRequestLists
    Content <- MCContent
    Objects = {o1, o2, o3}
    Width = 5
    MaxLen = 3
    MaxChanges = 2
INVARIANTS
    TypeOK
    EveryRequestAnswered
    ResultsTrue
    ListedInOrder
PROPERTIES
    DecodingEnds
    Terminates
CHECK_DEADLOCK FALSE
