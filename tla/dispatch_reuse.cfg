\* A dispatch() that started before a cancellation ends after it.
CONSTANTS
    r1 = r1
    Deliveries = {d1}
    Riders = {r1}
    Offers = {o1, o2}
    Workers = {w1}
    NoRider = NoRider
    NoDelivery = NoDelivery
    Distance <- MCDistance
    InitialRadius = 2
    Increment = 1
    MaximumRadius = 3
    MaxActive = 1
    Strategy = "NEAREST"
    AutoRedispatch = TRUE
    RowLocks = FALSE
    Crashes = FALSE
SPECIFICATION Spec
PROPERTIES
    ReuseOnlyAfterRestart
