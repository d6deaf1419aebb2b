SPECIFICATION Spec
CONSTANTS
    Callers = {c1, c2}
    Objects = {o1}
    Options = {"default", "confirmed", "lifetime"}
    IDs = 4
    MaxDraws = 6
    None = None
SYMMETRY Symmetry
INVARIANTS
    HandlerKept
    ReuseNeedsWrap
    
    
CHECK_DEADLOCK FALSE
