SPECIFICATION Spec
CONSTANTS
    s1 = s1
    s2 = s2
    buy = buy
    Submission <- MCOne
    Clearing = {}
    Order = {buy}
    OrderOf <- MCOneOrderOf
    MaxAttempts = 1
    OneAtATime = TRUE
    Interval = 1
    MaxAge = 0
    MaxTime = 2
PROPERTY
    KillHaltsSubmission
