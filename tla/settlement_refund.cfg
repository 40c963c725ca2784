\* A vendor gives up items after the first refund: violated.
CONSTANTS
    rider = rider
    customer = customer
    Users = {rider, customer}
    WalletCount = 2
    Balances = {1}
    MaxSaves = 1
    EarningCount = 2
    RiderOf <- MCRiderOf
    Fee <- MCFee
    Percentages = {5000, 5001}
    Fulfillments = {f1}
    CustomerOf <- MCCustomerOf
    ItemsOf <- MCItemsOf
    Price <- MCPrice
    Refundable = {"durable", "lamp"}
    Charged <- MCCharged
    Workers = {w1, w2}
    BatchSize = 1
    MaxCrashes = 1
    Callers = {c1}
    Keys = {k1}
    Changes <- MCDebits
SPECIFICATION SettlementSpec
INVARIANTS
    AllLossesRefunded
