SPECIFICATION FairSpec
CONSTANTS
    s1 = s1
    s2 = s2
    buy = buy
    Submission <- MCPair
    Clearing = {}
    Order = {buy}
    OrderOf <- MCPairOrderOf
    MaxAttempts = 1
    OneAtATime = TRUE
    Interval = 1
    MaxAge = 0
    MaxTime = 2
INVARIANTS
    TypeOK
    ApprovalWasFresh
    BlockSeenIsFinal
    
PROPERTY
    EndsOrWaitsForOperator
