\* Connect, Close and Connect again, with two calls that share the only ID.
CONSTANTS
    Calls = {r1, r2}
    Owners = {o1}
    Handlers = {h1}
    IDs = 1
    MaxConnects = 2
    MaxInFlight = 2
    None = None
SPECIFICATION Spec
SYMMETRY Symmetry
INVARIANTS TypeOK NoPanic PendingSound QuietAfterClose
PROPERTY KeepsContract
