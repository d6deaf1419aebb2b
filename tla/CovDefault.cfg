\* SubscribeCOV without options.
SPECIFICATION Spec
CONSTANTS
    Callers = {c1}
    Objects = {o1}
    Options = {"default"}
    IDs = 4
    MaxDraws = 4
    None = None
INVARIANT SubscriptionMade
CHECK_DEADLOCK FALSE
