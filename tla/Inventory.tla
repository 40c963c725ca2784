----------------------------- MODULE Inventory -----------------------------
(***************************************************************************)
(* What CheckoutService.create_order promises about stock, without its     *)
(* transactions and locks: an order is placed at one instant, for all of   *)
(* its basket or not at all, at most once for a cart, and only when the    *)
(* variant, product and store of every sku of it are for sale, and the sku *)
(* is in stock, at that instant.  It does not promise that of the options  *)
(* a variant is made of, which create_order reads without a lock.          *)
(***************************************************************************)
EXTENDS Integers, Sequences

CONSTANTS
    Carts,
    Rows,             \* rows a sale depends on: variants, products, stores
    Skus,             \* the rows that are sold: variants, and products without any
    RowsOf,           \* of a sku: its own row, then the product's and the store's
    Tracked,          \* the skus with track_inventory
    MaxStock,         \* bound: units a vendor may state
    MaxQuantity       \* bound: units of a sku in a cart

VARIABLES
    stock,            \* stock_quantity of a sku
    good,             \* whether the flags of a row let its skus be sold
    orders            \* the baskets ordered from a cart

inventoryVars == <<stock, good, orders>>

Baskets == [Skus -> 0..MaxQuantity]

\* The flags of the rows create_order locks: is_active and is_available of a variant,
\* Product.is_available, Store.can_accept_pickup.
Offered(k) == \A i \in 1..Len(RowsOf[k]) : good[RowsOf[k][i]]

\* The units of a sku suffice.
InStock(k, quantity) == k \in Tracked => quantity <= stock[k]

InventoryInit ==
    /\ stock \in [Skus -> 0..MaxStock]
    /\ good \in [Rows -> BOOLEAN]
    /\ orders = [c \in Carts |-> <<>>]

\* The customer's order: all of the basket leaves the stock.
Buy(c, basket) ==
    /\ orders[c] = <<>>
    /\ \A k \in Skus : basket[k] > 0 => Offered(k) /\ InStock(k, basket[k])
    /\ orders' = [orders EXCEPT ![c] = <<basket>>]
    /\ stock' = [k \in Skus |-> IF k \in Tracked THEN stock[k] - basket[k] ELSE stock[k]]
    /\ UNCHANGED good

\* The vendor states a row's stock and flags anew.
Restate(r, quantity, flag) ==
    /\ good' = [good EXCEPT ![r] = flag]
    /\ stock' = [k \in Skus |-> IF k = r THEN quantity ELSE stock[k]]
    /\ UNCHANGED orders

InventoryNext ==
    \/ \E c \in Carts, basket \in Baskets : Buy(c, basket)
    \/ \E r \in Rows, quantity \in 0..MaxStock, flag \in BOOLEAN : Restate(r, quantity, flag)

InventorySpec == InventoryInit /\ [][InventoryNext]_inventoryVars

=============================================================================
