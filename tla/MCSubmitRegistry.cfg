SPECIFICATION FairSpec
CONSTANTS
    s1 = s1
    s2 = s2
    s3 = s3
    buy = buy
    sell = sell
    Submission <- MCSubmission
    Clearing = {c1}
    Order <- MCOrder
    OrderOf <- MCOrderOf
    MaxAttempts = 3
    OneAtATime = TRUE
INVARIANTS
    TypeOK
    AtMostOneUnresolved
    OrdersAreOnRecord
PROPERTIES
    TornFileDeniesAll
    LedgerSpec
    EveryProcessEnds
