\* Connect after Close on the same client.
CONSTANTS
    Calls = {r1}
    Owners = {o1}
    Handlers = {h1}
    IDs = 2
    MaxConnects = 2
    MaxInFlight = 1
    None = None
SPECIFICATION Spec
SYMMETRY Symmetry
INVARIANT ConnectedIsOpen
