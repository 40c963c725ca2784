\* The default strategy of a dispatch configuration.
CONSTANTS
    r1 = r1
    Deliveries = {d1}
    Riders = {r1, r2}
    Offers = {o1, o2}
    Workers = {w1}
    NoRider = NoRider
    NoDelivery = NoDelivery
    Distance <- MCDistance
    InitialRadius = 2
    Increment = 1
    MaximumRadius = 3
    MaxActive = 1
    Strategy = "BALANCED"
    AutoRedispatch = TRUE
    RowLocks = FALSE
    Crashes = FALSE
SPECIFICATION FairSpec
PROPERTIES
    EveryRiderIsTried
