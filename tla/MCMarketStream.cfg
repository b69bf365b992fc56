SPECIFICATION FairSpec
CONSTANTS
    Symbol = {spy, xsp}
    DispatchSize = 2
    BusSize = 1
    StaleAfter = 2
    MaxConnects = 3
    MaxQuotes = 4
CHECK_DEADLOCK FALSE
INVARIANTS
    TypeOK
    NoQuoteLostSilently
    NoSymbolForgotten
PROPERTIES
    AppliedInOrder
    FreshConnectionIsSpared
    StallIsNoticed
