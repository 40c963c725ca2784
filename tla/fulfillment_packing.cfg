\* One fulfillment of two items and two packages.
CONSTANTS
    Deliveries = {f1}
    Riders = {r1, r2}
    Offers = {o1, o2}
    Workers = {w1}
    NoRider = NoRider
    NoDelivery = NoDelivery
    Distance <- MCDistance
    InitialRadius = 1
    Increment = 1
    MaximumRadius = 1
    MaxActive = 1
    Strategy = "NEAREST"
    AutoRedispatch = TRUE
    RowLocks = FALSE
    Crashes = TRUE
    Boxes = {b1, b2}
    ItemCount = 2
    OtpMaxAttempts = 2
SPECIFICATION FulfillmentSpec
SYMMETRY Symmetry
INVARIANTS
    FulfillmentTypeOK
    NothingHalfPacked
    OtpWhileOut
PROPERTIES
    FulfillmentMovesForward
