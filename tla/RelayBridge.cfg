\* Up to two messages each way, of one part, or of two and so over the limit.
CONSTANTS
    Limit = 1
    MaxSent = 2
SPECIFICATION FairSpec
INVARIANTS
    ClosedInOrder
PROPERTIES
    IsChannel
    BridgeIsFreedOrStuck
    AllDelivered
CHECK_DEADLOCK FALSE
