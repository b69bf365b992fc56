SPECIFICATION Spec
CONSTANTS
    s1 = s1
    s2 = s2
    s3 = s3
    buy = buy
    sell = sell
    Submission <- MCPair
    Clearing = {c1}
    Order <- MCOrder
    OrderOf <- MCPairOrderOf
    MaxAttempts = 2
    OneAtATime = FALSE
INVARIANT
    AtMostOneUnresolved
