------------------------------ MODULE Payment ------------------------------
(***************************************************************************)
(* Paying for an order: PaymentService (order/services/payment_service.py) *)
(* and the rows CheckoutService leaves to it.                              *)
(*                                                                         *)
(* Every method is one transaction that locks the payment, so each is one  *)
(* action.  The provider (Paystack) is outside: an API call may fail       *)
(* before or after it had its effect there, charge.success webhooks come   *)
(* in any order, any number of times, and nothing says when.               *)
(***************************************************************************)
EXTENDS Naturals, FiniteSets

CONSTANTS
    Orders,           \* the orders that may be placed; each has one OrderPayment
    MaxAccounts       \* bound: virtual accounts the provider makes for an order

ASSUME PaymentAssumption == MaxAccounts \in Nat

VARIABLES
    order,            \* Order.status and whether payment_status is PAID
    payment,          \* the OrderPayment row
    accounts,         \* external: virtual accounts the provider made for an order
    charges           \* external: the charges that succeeded at the provider

paymentVars == <<order, payment, accounts, charges>>

\* WALLET is refused: _settle_wallet_payment passes WalletService.debit a user, which
\* takes a wallet, so the TypeError rolls back every checkout that pays so.
Methods == {"CARD", "BANK_TRANSFER", "CASH"}

\* A charge carries the reference it was made under; metadata.payment_id names the
\* payment, because every request the service makes to the provider says so.
Charges == [order : Orders, ref : {"DVA", "TX"}]

NoPayment == [method |-> "NONE", status |-> "ABSENT", ref |-> "NONE", stored |-> {}]

\* stored: the keys of gateway_response that later calls look for.  "checkout" stands
\* for the three dva_* keys _attach_dva writes.
PaymentRows ==
    [method : Methods \cup {"NONE"}, status : {"ABSENT", "PENDING", "SUCCESSFUL"},
     ref : {"NONE", "DVA", "TX"}, stored : SUBSET {"dva", "checkout", "url"}]

OrderRows == [status : {"ABSENT", "PENDING", "CONFIRMED", "MOVED"}, paid : BOOLEAN]

PaymentTypeOK ==
    /\ order \in [Orders -> OrderRows]
    /\ payment \in [Orders -> PaymentRows]
    /\ accounts \in [Orders -> 0..MaxAccounts]
    /\ charges \subseteq Charges

PaymentInit ==
    /\ order = [o \in Orders |-> [status |-> "ABSENT", paid |-> FALSE]]
    /\ payment = [o \in Orders |-> NoPayment]
    /\ accounts = [o \in Orders |-> 0]
    /\ charges = {}

-----------------------------------------------------------------------------
\* The provider

\* create_dedicated_account: POST, repeated by the client after a timeout, so more than
\* one account may come of it, with the last answer lost or not.
CallCreatesAccounts(o, n) ==
    /\ accounts[o] + n <= MaxAccounts
    /\ accounts' = [accounts EXCEPT ![o] = @ + n]

\* The customer has an account number or a payment page and pays.
CustomerPays(o, ref) ==
    /\ payment[o].stored \cap (IF ref = "DVA" THEN {"dva", "checkout"} ELSE {"url"}) # {}
    /\ charges' = charges \cup {[order |-> o, ref |-> ref]}
    /\ UNCHANGED <<order, payment, accounts>>

-----------------------------------------------------------------------------
\* Checkout

\* Mutant: the account number is saved as the reference.
AttachedPaymentByAccount ==
    [method |-> "CASH", status |-> "PENDING", ref |-> "ACCOUNT", stored |-> {"checkout"}]

\* _attach_dva saves the instance _create_payment made before generate_dva saved its own:
\* the "dva" details are overwritten by the dva_* keys.
AttachedPayment ==
    [method |-> "CASH", status |-> "PENDING", ref |-> "DVA", stored |-> {"checkout"}]

\* The rows create_order leaves.  For CASH it asks for a virtual account and carries on
\* without one when that fails.
PlaceOrder(o, m) ==
    /\ payment[o].status = "ABSENT"
    /\ order' = [order EXCEPT ![o].status = "PENDING"]
    /\ \/ /\ payment' = [payment EXCEPT ![o] = [NoPayment EXCEPT !.method = m, !.status = "PENDING"]]
          /\ IF m = "CASH" THEN \E n \in 0..MaxAccounts : CallCreatesAccounts(o, n)
                           ELSE UNCHANGED accounts
       \/ /\ m = "CASH"
          /\ \E n \in 1..MaxAccounts : CallCreatesAccounts(o, n)
          /\ payment' = [payment EXCEPT ![o] = AttachedPayment]
    /\ UNCHANGED charges

-----------------------------------------------------------------------------
\* PaymentService

\* generate_dva: the stored details are returned if there are any.
GenerateDva(o) ==
    /\ payment[o].status = "PENDING"
    /\ "dva" \notin payment[o].stored
    /\ \/ /\ \E n \in 1..MaxAccounts : CallCreatesAccounts(o, n)
          /\ payment' = [payment EXCEPT ![o].ref = "DVA", ![o].stored = @ \cup {"dva"}]
       \/ /\ \E n \in 0..MaxAccounts : CallCreatesAccounts(o, n)
          /\ UNCHANGED payment
    /\ UNCHANGED <<order, charges>>

\* Mutant: also a payment that was settled meanwhile is initialized.
InitializeAnyTransaction(o) ==
    /\ payment[o].status # "ABSENT"
    /\ "url" \notin payment[o].stored
    /\ payment' = [payment EXCEPT ![o].ref = "TX", ![o].stored = @ \cup {"url"}]
    /\ UNCHANGED <<order, accounts, charges>>

\* initialize_transaction: whatever the method of the payment is.
InitializeTransaction(o) ==
    /\ payment[o].status = "PENDING"
    /\ "url" \notin payment[o].stored
    /\ payment' = [payment EXCEPT ![o].ref = "TX", ![o].stored = @ \cup {"url"}]
    /\ UNCHANGED <<order, accounts, charges>>

\* Mutant: the order of a CASH payment is left for the rider to settle.
SettleCashLater(o) ==
    /\ payment' = [payment EXCEPT ![o].status = "SUCCESSFUL"]
    /\ order' = IF payment[o].method = "CASH" THEN order
                ELSE [order EXCEPT ![o] = [paid |-> TRUE, status |-> "CONFIRMED"]]
    /\ UNCHANGED <<accounts, charges>>

\* _settle_order_payment: the payment and its order, in one transaction.
Settle(o) ==
    /\ payment' = [payment EXCEPT ![o].status = "SUCCESSFUL"]
    /\ order' = IF order[o].paid THEN order
                ELSE [order EXCEPT ![o] =
                        [paid |-> TRUE,
                         status |-> IF @.status = "PENDING" THEN "CONFIRMED" ELSE @.status]]
    /\ UNCHANGED <<accounts, charges>>

\* Mutant: the answer of the provider is not looked at.
VerifyAnything(o) == payment[o].status = "PENDING" /\ payment[o].ref # "NONE" /\ Settle(o)

\* verify_transaction asks the provider for the reference stored last, which a later
\* initialization may have replaced.
VerifyTransaction(o) ==
    /\ payment[o].status = "PENDING"
    /\ [order |-> o, ref |-> payment[o].ref] \in charges
    /\ Settle(o)

\* Mutant: metadata is not looked at.
MatchedByReference(c) == payment[c.order].ref = c.ref

\* The payment a webhook is for: by reference, then by metadata.
Matched(c) == payment[c.order].ref = c.ref \/ payment[c.order].status # "ABSENT"

\* _handle_charge_success; a second one for a settled payment is a replay.
HandleChargeSuccess(c) ==
    /\ c \in charges
    /\ Matched(c)
    /\ payment[c.order].status # "SUCCESSFUL"
    /\ Settle(c.order)

-----------------------------------------------------------------------------
\* The fulfillments of a paid order move on and its status is recalculated, to PENDING
\* too while a part has not been started (_update_order_status; module Fulfillment has
\* the whole of it).
Recalculate(o) ==
    /\ order[o].paid
    /\ \E s \in {"PENDING", "MOVED"} : order' = [order EXCEPT ![o].status = s]
    /\ UNCHANGED <<payment, accounts, charges>>

PaymentStep ==
    \/ \E o \in Orders :
        \/ \E ref \in {"DVA", "TX"} : CustomerPays(o, ref)
        \/ GenerateDva(o)
        \/ InitializeTransaction(o)
        \/ VerifyTransaction(o)
        \/ Recalculate(o)
    \/ \E c \in Charges : HandleChargeSuccess(c)

PaymentNext == PaymentStep \/ \E o \in Orders, m \in Methods : PlaceOrder(o, m)

PaymentSpec == PaymentInit /\ [][PaymentNext]_paymentVars

\* The provider repeats a webhook until it is answered.
FairPaymentSpec == PaymentSpec /\ \A c \in Charges : WF_paymentVars(HandleChargeSuccess(c))

-----------------------------------------------------------------------------
\* Safety

\* _settle_order_payment writes two rows: the order reads PAID exactly if its payment
\* reads SUCCESSFUL, whichever of webhook and verification came first.
PaidIffSuccessful ==
    \A o \in Orders : order[o].paid <=> payment[o].status = "SUCCESSFUL"

\* No order is paid for that nobody was charged for: neither a webhook for another order
\* nor a verification of a reference that was replaced settles it.
PaidWasCharged ==
    \A o \in Orders : order[o].paid => \E c \in charges : c.order = o

\* A settled payment is not touched again: not by a repeated webhook, nor by a
\* verification, initialization or virtual account that was asked for before.
SettledIsFinal ==
    [][\A o \in Orders : payment[o].status = "SUCCESSFUL" => payment'[o] = payment[o]]_paymentVars

\* "if a DVA has already been generated for an OrderPayment, it returns the stored
\* details without calling Paystack again" (payment_service.py:30): while the account
\* number that checkout was given is stored, no other account is asked for.
StoredDvaIsReused ==
    [][\A o \in Orders : payment[o].stored \cap {"dva", "checkout"} # {}
            => accounts'[o] = accounts[o]]_paymentVars

\* Every charge is recorded in the end, under whichever reference it was made and
\* whatever the payment's reference is by then.
ChargeIsRecorded ==
    \A c \in Charges : c \in charges ~> payment[c.order].status = "SUCCESSFUL"

=============================================================================
