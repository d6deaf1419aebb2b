\* Liveness with one owner.
CONSTANTS
    Calls = {r1, r2}
    Owners = {o1}
    Handlers = {h1}
    IDs = 2
    MaxConnects = 1
    MaxInFlight = 2
    None = None
SPECIFICATION FairSpec
INVARIANT OwnResponse
PROPERTIES CloseReturns CloseUnblocksRegistered
