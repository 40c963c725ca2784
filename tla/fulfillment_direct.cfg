\* A delivery is completed from the lifecycle API.
CONSTANTS
    Deliveries = {f1}
    Riders = {r1}
    Offers = {o1}
    Workers = {w1}
    NoRider = NoRider
    NoDelivery = NoDelivery
    Distance <- MCDistance
    InitialRadius = 1
    Increment = 1
    MaximumRadius = 1
    MaxActive = 1
    Strategy = "NEAREST"
    AutoRedispatch = TRUE
    RowLocks = FALSE
    Crashes = FALSE
    Boxes = {b1}
    ItemCount = 1
    OtpMaxAttempts = 1
SPECIFICATION FulfillmentSpec
INVARIANTS
    CompletedIsConfirmed
