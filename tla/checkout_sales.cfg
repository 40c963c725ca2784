SPECIFICATION CheckoutSpec
CONSTANTS
    Customers = {ada, ben}
    MaxCarts = 1
    small = small
    large = large
    shirt = shirt
    store = store
    size = size
    Rows <- MCRows
    Skus <- MCSkus
    RowsOf <- MCRowsOf
    Options = {size}
    OptionsOf <- MCOptionsOf
    Tracked <- MCSkus
    MaxStock = 2
    MaxQuantity = 1
    Sessions = {s1, s2}
    Callers = {p1}
    Removals <- MCRemovals
    MaxSaves = 1
    NoSession = NoSession
    NoSku = NoSku
INVARIANTS
    CheckoutTypeOK
    ReservedIsHeld
PROPERTIES
    SalesAreAtomic
CHECK_DEADLOCK FALSE
SYMMETRY MCSymmetry
