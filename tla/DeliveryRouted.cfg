SPECIFICATION DeliverySpec
CONSTANTS
    PDUs <- MCPDUs
    Devices <- MCDevices
    OriginIP <- MCOriginIP
    BBMDIP <- MCBBMDIP
    MACs <- MCMACs
INVARIANT AnnouncementHandled
CHECK_DEADLOCK FALSE
