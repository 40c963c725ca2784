\* Two deliveries compete for two riders.
CONSTANTS
    r1 = r1
    Deliveries = {d1, d2}
    Riders = {r1, r2}
    Offers = {o1, o2, o3}
    Workers = {w1}
    NoRider = NoRider
    NoDelivery = NoDelivery
    Distance <- MCDistance
    InitialRadius = 3
    Increment = 1
    MaximumRadius = 3
    MaxActive = 1
    Strategy = "NEAREST"
    AutoRedispatch = TRUE
    RowLocks = FALSE
    Crashes = FALSE
SPECIFICATION Spec
SYMMETRY Symmetry
INVARIANTS
    OneActiveAssignmentPerRider
    RiderAvailability
PROPERTIES
    AllocationSpec
