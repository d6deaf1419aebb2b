SPECIFICATION Spec
CONSTANTS
    Slots <- MCSlots
    Written <- MCWritten
    Priorities <- MCPriorities
    ErrorCodes <- MCErrorCodes
INVARIANTS
    ReadBack
    DeviceHolds
    ErrorReported
