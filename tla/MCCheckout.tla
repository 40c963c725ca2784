----------------------------- MODULE MCCheckout -----------------------------
(* Two customers; two variants of a product, made of the same option.      *)
EXTENDS Checkout, TLC

CONSTANTS small, large, shirt, store, size

MCSkus == {small, large}
MCRows == MCSkus \cup {shirt, store}
MCRowsOf == [k \in MCSkus |-> <<k, shirt, store>>]
MCOptionsOf == [k \in MCSkus |-> {size}]
MCRemovals == {MCSkus} \cup {{k} : k \in MCSkus}

MCSymmetry == Permutations(Customers) \cup Permutations(Sessions) \cup Permutations(MCSkus)

=============================================================================
