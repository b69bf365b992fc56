SPECIFICATION FairSpec
CONSTANTS
    DispatchSize = 1
    BusSize = 1
    MaxConnects = 2
    MaxEvents = 2
    MaxQuotes = 1
CHECK_DEADLOCK FALSE
INVARIANTS
    TypeOK
    NoSendOnClosedChannel
    ShutdownIsOrderly
    ConnectionsDoNotOverlap
PROPERTIES
    QueuesSpec
    ShutdownEnds
