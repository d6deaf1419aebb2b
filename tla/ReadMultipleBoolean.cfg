SPECIFICATION Spec
CONSTANTS
    RequestLists <- MCRequestLists
    Content <- TrueContent
INVARIANT ResultsTrue
CHECK_DEADLOCK FALSE
