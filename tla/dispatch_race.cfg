\* One delivery, two dispatch() calls that interleave with everything else.
CONSTANTS
    r1 = r1
    Deliveries = {d1}
    Riders = {r1, r2}
    Offers = {o1, o2, o3}
    Workers = {w1, w2}
    NoRider = NoRider
    NoDelivery = NoDelivery
    Distance <- MCDistance
    InitialRadius = 2
    Increment = 1
    MaximumRadius = 3
    MaxActive = 1
    Strategy = "NEAREST"
    AutoRedispatch = TRUE
    RowLocks = FALSE
    Crashes = TRUE
SPECIFICATION Spec
SYMMETRY Symmetry
INVARIANTS
    TypeOK
    PendingOfferOpen
    OnePendingOfferPerRider
    AssignmentAccepted
    StatusesInStepOrReset
PROPERTIES
    AnsweredOfferIsFinal
