--------------------------- MODULE PaymentProofs ---------------------------
(***************************************************************************)
(* Proofs about Payment.  The inductive invariant is the conjunction of    *)
(* the three invariants the runs check: that a paid order was charged      *)
(* rests on the handlers reading the charges of their own payment only.    *)
(***************************************************************************)
EXTENDS Payment, TLAPS

PaymentInv == PaymentTypeOK /\ PaidIffSuccessful /\ PaidWasCharged

\* Everything starts unpaid.
LEMMA PaymentInitInv == PaymentInit => PaymentInv
BY PaymentAssumption DEF PaymentInit, PaymentInv, PaymentTypeOK, PaidIffSuccessful,
    PaidWasCharged, OrderRows, PaymentRows, NoPayment

\* The provider makes no more accounts than the bound.
LEMMA AccountsTyped ==
    ASSUME accounts \in [Orders -> 0..MaxAccounts], NEW o \in Orders,
           NEW n \in Nat, CallCreatesAccounts(o, n)
    PROVE  accounts' \in [Orders -> 0..MaxAccounts]
BY PaymentAssumption DEF CallCreatesAccounts

\* Settling the payment of an order that was charged for keeps the invariant.
LEMMA SettleInv ==
    ASSUME PaymentInv, NEW o \in Orders, Settle(o), \E c \in charges : c.order = o
    PROVE  PaymentInv'
<1> DEFINE paidRow == [paid |-> TRUE, status |-> IF order[o].status = "PENDING" THEN "CONFIRMED"
                                                 ELSE order[o].status]
<1>0. /\ order' = IF order[o].paid THEN order ELSE [order EXCEPT ![o] = paidRow]
      /\ paidRow \in OrderRows
  BY DEF PaymentInv, PaymentTypeOK, Settle, OrderRows
<1>a. order' \in [Orders -> OrderRows]
  <2> HIDE DEF paidRow
  <2>1. QED
    BY <1>0 DEF PaymentInv, PaymentTypeOK
<1>b. payment' \in [Orders -> PaymentRows]
  BY DEF PaymentInv, PaymentTypeOK, Settle, PaymentRows
<1>1. PaymentTypeOK'
  BY <1>a, <1>b DEF PaymentInv, PaymentTypeOK, Settle
<1>2. \A p \in Orders : payment'[p].status = IF p = o THEN "SUCCESSFUL" ELSE payment[p].status
  BY DEF PaymentInv, PaymentTypeOK, PaymentRows, Settle
<1>3. \A p \in Orders : order'[p].paid = IF p = o THEN TRUE ELSE order[p].paid
  BY DEF PaymentInv, PaymentTypeOK, OrderRows, Settle
<1>4. charges' = charges
  BY DEF Settle
<1>5. QED
  BY <1>1, <1>2, <1>3, <1>4 DEF PaymentInv, PaidIffSuccessful, PaidWasCharged

\* Steps that leave status and paid of every row alone keep the invariant.
LEMMA UnsettledInv ==
    ASSUME PaymentInv, PaymentTypeOK', charges \subseteq charges',
           \A p \in Orders : order'[p].paid = order[p].paid,
           \A p \in Orders : (payment'[p].status = "SUCCESSFUL") <=> (payment[p].status = "SUCCESSFUL")
    PROVE  PaymentInv'
BY DEF PaymentInv, PaidIffSuccessful, PaidWasCharged

\* Every step of PaymentStep and PlaceOrder keeps the invariant.
LEMMA PaymentInvStep == PaymentInv /\ [PaymentNext]_paymentVars => PaymentInv'
<1> SUFFICES ASSUME PaymentInv, [PaymentNext]_paymentVars PROVE PaymentInv'
  OBVIOUS
<1> USE DEF PaymentInv
<1>1. ASSUME NEW o \in Orders, NEW ref \in {"DVA", "TX"}, CustomerPays(o, ref)
      PROVE  PaymentInv'
  <2>1. PaymentTypeOK'
    BY <1>1 DEF CustomerPays, PaymentTypeOK, Charges
  <2>2. QED
    BY <2>1, <1>1, UnsettledInv DEF CustomerPays
<1>2. ASSUME NEW o \in Orders, GenerateDva(o) PROVE PaymentInv'
  <2>1. PICK n \in Nat : CallCreatesAccounts(o, n)
    BY <1>2, PaymentAssumption DEF GenerateDva
  <2>2. accounts' \in [Orders -> 0..MaxAccounts]
    BY <2>1, AccountsTyped DEF PaymentTypeOK
  <2>3. /\ order' = order /\ charges' = charges
        /\ \/ payment' = payment
           \/ payment' = [payment EXCEPT ![o].ref = "DVA", ![o].stored = @ \cup {"dva"}]
    BY <1>2 DEF GenerateDva
  <2>4. payment' \in [Orders -> PaymentRows]
    BY <2>3 DEF PaymentTypeOK, PaymentRows
  <2>5. \A p \in Orders : payment'[p].status = payment[p].status
    BY <2>3 DEF PaymentTypeOK, PaymentRows
  <2>6. QED
    BY <2>2, <2>3, <2>4, <2>5, UnsettledInv DEF PaymentTypeOK
<1>3. ASSUME NEW o \in Orders, InitializeTransaction(o) PROVE PaymentInv'
  <2>1. PaymentTypeOK'
    BY <1>3 DEF InitializeTransaction, PaymentTypeOK, PaymentRows
  <2>2. \A p \in Orders : payment'[p].status = payment[p].status
    BY <1>3 DEF InitializeTransaction, PaymentTypeOK, PaymentRows
  <2>3. QED
    BY <2>1, <2>2, <1>3, UnsettledInv DEF InitializeTransaction
<1>4. ASSUME NEW o \in Orders, VerifyTransaction(o) PROVE PaymentInv'
  <2>1. \E c \in charges : c.order = o
    BY <1>4 DEF VerifyTransaction
  <2>2. QED
    BY <2>1, <1>4, SettleInv DEF VerifyTransaction
<1>5. ASSUME NEW o \in Orders, Recalculate(o) PROVE PaymentInv'
  <2>1. PaymentTypeOK'
    BY <1>5 DEF Recalculate, PaymentTypeOK, OrderRows
  <2>2. \A p \in Orders : order'[p].paid = order[p].paid
    BY <1>5 DEF Recalculate, PaymentTypeOK, OrderRows
  <2>3. QED
    BY <2>1, <2>2, <1>5, UnsettledInv DEF Recalculate
<1>6. ASSUME NEW c \in Charges, HandleChargeSuccess(c) PROVE PaymentInv'
  <2>1. c.order \in Orders /\ c \in charges
    BY <1>6 DEF HandleChargeSuccess, Charges
  <2>2. QED
    BY <2>1, <1>6, SettleInv DEF HandleChargeSuccess
<1>7. ASSUME NEW o \in Orders, NEW m \in Methods, PlaceOrder(o, m) PROVE PaymentInv'
  <2>1. accounts' \in [Orders -> 0..MaxAccounts]
    <3>1. CASE UNCHANGED accounts
      BY <3>1 DEF PaymentTypeOK
    <3>2. CASE \E n \in Nat : CallCreatesAccounts(o, n)
      BY <3>2, AccountsTyped DEF PaymentTypeOK
    <3>3. QED
      BY <3>1, <3>2, <1>7, PaymentAssumption DEF PlaceOrder
  <2>a. [NoPayment EXCEPT !.method = m, !.status = "PENDING"]
            \in {row \in PaymentRows : row.status = "PENDING"}
    BY DEF PaymentRows, NoPayment, Methods
  <2>b. AttachedPayment \in {row \in PaymentRows : row.status = "PENDING"}
    BY DEF PaymentRows, AttachedPayment, Methods
  <2>2. \E row \in {r \in PaymentRows : r.status = "PENDING"} : payment' = [payment EXCEPT ![o] = row]
    BY <1>7, <2>a, <2>b DEF PlaceOrder
  <2>3. payment' \in [Orders -> PaymentRows]
    BY <2>2 DEF PaymentTypeOK
  <2>4. \A p \in Orders : payment'[p].status = IF p = o THEN "PENDING" ELSE payment[p].status
    BY <2>2 DEF PaymentTypeOK
  <2>5. payment[o].status = "ABSENT"
    BY <1>7 DEF PlaceOrder
  <2>6. /\ order' \in [Orders -> OrderRows]
        /\ \A p \in Orders : order'[p].paid = order[p].paid
    BY <1>7 DEF PlaceOrder, PaymentTypeOK, OrderRows
  <2>7. charges' = charges
    BY <1>7 DEF PlaceOrder
  <2>8. PaymentTypeOK'
    BY <2>1, <2>3, <2>6, <2>7 DEF PaymentTypeOK
  <2>9. QED
    BY <2>4, <2>5, <2>6, <2>7, <2>8, UnsettledInv
<1>8. CASE UNCHANGED paymentVars
  BY <1>8 DEF paymentVars, PaymentTypeOK, PaidIffSuccessful, PaidWasCharged
<1>9. QED
  BY <1>1, <1>2, <1>3, <1>4, <1>5, <1>6, <1>7, <1>8 DEF PaymentNext, PaymentStep

-----------------------------------------------------------------------------
\* The invariant holds in every state.
LEMMA PaymentInvariant == PaymentSpec => []PaymentInv
<1>1. QED
  BY PaymentInitInv, PaymentInvStep, PTL DEF PaymentSpec

\* Payments, orders and accounts keep their shape, for any number of orders.
THEOREM PaymentShape == PaymentSpec => []PaymentTypeOK
<1>1. PaymentInv => PaymentTypeOK
  BY DEF PaymentInv
<1>2. QED
  BY <1>1, PaymentInvariant, PTL

\* An order reads PAID exactly if its payment reads SUCCESSFUL (_settle_order_payment).
THEOREM PaidInvariant == PaymentSpec => []PaidIffSuccessful
<1>1. PaymentInv => PaidIffSuccessful
  BY DEF PaymentInv
<1>2. QED
  BY <1>1, PaymentInvariant, PTL

\* Whatever webhooks and verifications come, no order is settled that nobody was
\* charged for.
THEOREM ChargedInvariant == PaymentSpec => []PaidWasCharged
<1>1. PaymentInv => PaidWasCharged
  BY DEF PaymentInv
<1>2. QED
  BY <1>1, PaymentInvariant, PTL

\* A settled payment is never written again, by any repeated or late call.
THEOREM SettlementIsFinal == PaymentSpec => SettledIsFinal
<1> DEFINE Kept == \A o \in Orders : payment[o].status = "SUCCESSFUL" => payment'[o] = payment[o]
<1>1. ASSUME PaymentInv, [PaymentNext]_paymentVars PROVE [Kept]_paymentVars
  <2> SUFFICES ASSUME PaymentNext, NEW p \in Orders, payment[p].status = "SUCCESSFUL"
               PROVE  payment'[p] = payment[p]
    BY <1>1
  <2> USE <1>1 DEF PaymentInv, PaymentTypeOK
  <2>1. CASE \E o \in Orders, ref \in {"DVA", "TX"} : CustomerPays(o, ref)
    BY <2>1 DEF CustomerPays
  <2>2. CASE \E o \in Orders : GenerateDva(o)
    BY <2>2 DEF GenerateDva
  <2>3. CASE \E o \in Orders : InitializeTransaction(o)
    BY <2>3 DEF InitializeTransaction
  <2>4. CASE \E o \in Orders : VerifyTransaction(o)
    BY <2>4 DEF VerifyTransaction, Settle
  <2>5. CASE \E o \in Orders : Recalculate(o)
    BY <2>5 DEF Recalculate
  <2>6. CASE \E c \in Charges : HandleChargeSuccess(c)
    BY <2>6 DEF HandleChargeSuccess, Settle, Charges
  <2>7. CASE \E o \in Orders, m \in Methods : PlaceOrder(o, m)
    BY <2>7 DEF PlaceOrder
  <2>8. QED
    BY <2>1, <2>2, <2>3, <2>4, <2>5, <2>6, <2>7 DEF PaymentNext, PaymentStep
<1>2. QED
  BY <1>1, PaymentInvariant, PTL DEF PaymentSpec, SettledIsFinal
=============================================================================
