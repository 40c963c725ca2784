\* Payments are settled once, by whom they were made, and every charge is recorded.
CONSTANTS
    Orders = {o1, o2}
    MaxAccounts = 2
SPECIFICATION FairPaymentSpec
INVARIANTS
    PaymentTypeOK
    PaidIffSuccessful
    PaidWasCharged
PROPERTIES
    SettledIsFinal
    ChargeIsRecorded
