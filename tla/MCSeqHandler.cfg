SPECIFICATION FairSpec
CONSTANTS
    MaxEvents = 6
    QueueSize = 3
INVARIANTS TypeOK NothingLostAtClose PostedOnceInOrder
PROPERTIES EventsShipped CloseEnds
CHECK_DEADLOCK FALSE
