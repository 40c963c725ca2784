--------------------------- MODULE MCSettlement ---------------------------
(* Instances of Settlement for TLC. *)
EXTENDS Settlement, TLC

CONSTANTS rider, customer

MCRiderOf == [e \in Earnings |-> rider]

\* Half a kobo of the first fee rounds to nothing, a little more to all of it.
MCFee == [e \in Earnings |-> e]
MCCustomerOf == [f \in Fulfillments |-> customer]

\* A perishable item and two that are refunded; the discount exceeds the fees by the
\* price of one of them.
MCItemsOf == [f \in Fulfillments |-> {"fresh", "durable", "lamp"}]
MCPrice == [fresh |-> 2, durable |-> 1, lamp |-> 2]
MCCharged == [f \in Fulfillments |-> -1]

MCDebits == {-1}
MCChanges == {1, -1}

Symmetry == Permutations(Workers) \cup Permutations(Callers)
=============================================================================
