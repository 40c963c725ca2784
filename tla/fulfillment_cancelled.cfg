\* One fulfillment of the order is delivered, the other cancelled.
CONSTANTS
    Deliveries = {f1, f2}
    Riders = {r1}
    Offers = {o1}
    Workers = {w1}
    NoRider = NoRider
    NoDelivery = NoDelivery
    Distance <- MCDistance
    InitialRadius = 1
    Increment = 1
    MaximumRadius = 1
    MaxActive = 1
    Strategy = "NEAREST"
    AutoRedispatch = TRUE
    RowLocks = FALSE
    Crashes = FALSE
    Boxes = {b1}
    ItemCount = 1
    OtpMaxAttempts = 1
SPECIFICATION FulfillmentSpec
INVARIANTS
    AllDeliveredMeansOrder
