\* Two handlers and a caller that race for the entries of two devices.
CONSTANTS
    DeviceIDs = {d1, d2}
    Hosts = {a1}
    Ports = {65537}
    DefaultPort = 47808
    Callers = {c1}
    Handlers = {h1, h2}
    None = None
SPECIFICATION Spec
SYMMETRY Symmetry
INVARIANTS TypeOK NotFoundMeansAbsent ResolvedWasHeld NoWhoIsForRegistered CountedOnce
PROPERTY NeverEvicts
