SPECIFICATION FairSpec
CONSTANTS
    Symbol = {spy, qqq}
    Quantity = {1}
    Price = {1, 2}
    AbsenceThreshold = 2
    Capacity = 2
    MaxTrades = 3
INVARIANT
    TypeOK
PROPERTIES
    RemovalNeedsAbsences
    
