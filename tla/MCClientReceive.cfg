SPECIFICATION FairSpec
CONSTANTS
    MaxConns = 2
    MaxFrames = 2
INVARIANTS
    DeliveredInOrder
    CloseStopsDelivery
PROPERTIES
    ImplementsDelivery
    ReplacedConnectionEnds
    MessagesAreDelivered
CHECK_DEADLOCK FALSE
