SPECIFICATION Spec
CONSTANTS
    MaxOrders = 2
    Window = 2
    MaxTime = 6
    MaxRestarts = 1
INVARIANTS
    TypeOK
    BreakerIsExact
PROPERTY
    TripIsFinal
