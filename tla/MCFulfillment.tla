--------------------------- MODULE MCFulfillment ---------------------------
(* Instances of Fulfillment for TLC. *)
EXTENDS Fulfillment, TLC

\* Every rider is found in the first radius.
MCDistance == [d \in Deliveries |-> [r \in Riders |-> 1]]

Symmetry == Permutations(Offers) \cup Permutations(Boxes)
=============================================================================
