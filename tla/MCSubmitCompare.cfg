SPECIFICATION FairSpec
CONSTANTS
    Payload = {p1}
    Odd = Odd
    Unusable = Unusable
    None = None
    Others = {p1}
    PageSize = 1
    Limit = 2
    MaxOrders = 3
CHECK_DEADLOCK FALSE
INVARIANTS
    TypeOK
    FetchIsSound
    
    ReportIsComplete
PROPERTY CompareEnds
