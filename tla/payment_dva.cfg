\* An account number is stored, and the provider is asked for another one.
CONSTANTS
    Orders = {o1}
    MaxAccounts = 2
SPECIFICATION PaymentSpec
PROPERTIES
    StoredDvaIsReused
