\* An order of two fulfillments that share a rider.
CONSTANTS
    Deliveries = {f1, f2}
    Riders = {r1}
    Offers = {o1, o2}
    Workers = {w1}
    NoRider = NoRider
    NoDelivery = NoDelivery
    Distance <- MCDistance
    InitialRadius = 1
    Increment = 1
    MaximumRadius = 1
    MaxActive = 1
    Strategy = "NEAREST"
    AutoRedispatch = TRUE
    RowLocks = FALSE
    Crashes = FALSE
    Boxes = {b1}
    ItemCount = 1
    OtpMaxAttempts = 1
SPECIFICATION FulfillmentSpec
SYMMETRY Symmetry
INVARIANTS
    FulfillmentInStep
    OrderDeliveredMeansAll
PROPERTIES
    DispatchSpec
