----------------------------- MODULE MCDispatch -----------------------------
(* Instances of Dispatch for TLC. *)
EXTENDS Dispatch, TLC

CONSTANT r1

\* r1 is found in the first radius of every delivery, r2 only in the second.
MCDistance == [d \in Deliveries |-> [r \in Riders |-> IF r = r1 THEN 1 ELSE 3]]

Symmetry == Permutations(Offers) \cup Permutations(Workers)
=============================================================================
