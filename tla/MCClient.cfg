SPECIFICATION FairSpec
CONSTANTS
    a1 = a1
    a2 = a2
    b1 = b1
    p = p
    q = q
    None = None
    Process = {p, q}
    Call <- MCCall
    ClientOf <- MCClientOf
    MaxAttempts = 2
    MaxTokens = 2
INVARIANTS
    TypeOK
    RefreshOnlyWhenAged
    KeychainIsUsable
PROPERTIES
    AccessNeverGoesBack
    RetryUsesNewToken
    EveryCallReturns
CHECK_DEADLOCK FALSE
