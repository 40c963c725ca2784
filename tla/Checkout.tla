------------------------------ MODULE Checkout ------------------------------
(***************************************************************************)
(* Carts and checkout: CartService (cart/services/cart_service.py) and     *)
(* CheckoutService.create_order (checkout/services/checkout_service.py)    *)
(* with the row locks of PostgreSQL under READ COMMITTED.                  *)
(*                                                                         *)
(* create_order is one transaction: it locks the cart, then for one item   *)
(* after the other the rows of its variant, product and store, and         *)
(* decrements stock as it goes; nothing is visible before it commits and   *)
(* nothing of it remains when it fails.  Two checkouts that took their     *)
(* rows in opposite orders wait for each other until the database aborts   *)
(* one.  A call that edits a cart reads the cart and the product without a *)
(* lock and writes later.  A vendor's save writes a whole row and waits    *)
(* for its lock; the options of a variant are read and saved without one.  *)
(***************************************************************************)
EXTENDS Integers, Sequences, FiniteSets

CONSTANTS
    Customers,
    MaxCarts,         \* bound: carts a customer opens
    Rows, Skus, RowsOf, Tracked, MaxStock, MaxQuantity,  \* as in Inventory
    Options,          \* the options and option values of products
    OptionsOf,        \* of a sku: those a variant is made of
    Sessions,         \* checkouts that may be under way together
    Callers,          \* cart calls that may be under way together
    Removals,         \* bound: the sets of skus that one call removes, a single one or all
    MaxSaves          \* bound: saves of vendors and administrators

CONSTANT NoSession    \* nobody holds the row
CONSTANT NoSku        \* no item is being reserved

Carts == Customers \X (1..MaxCarts)

ASSUME CheckoutAssumption ==
    /\ MaxCarts \in Nat
    /\ MaxStock \in Nat
    /\ MaxQuantity \in Nat
    /\ MaxSaves \in Nat
    /\ Removals \subseteq SUBSET Skus
    /\ Skus \subseteq Rows
    /\ Tracked \subseteq Skus
    /\ RowsOf \in [Skus -> Seq(Rows)]
    /\ \A k \in Skus : Len(RowsOf[k]) > 0 /\ RowsOf[k][1] = k
    /\ OptionsOf \in [Skus -> SUBSET Options]
    /\ Rows \cap Carts = {}
    /\ NoSession \notin Sessions
    /\ NoSku \notin Skus

VARIABLES
    stock,            \* committed stock_quantity of a sku
    good,             \* whether the flags of a row let its skus be sold
    selectable,       \* is_active of an option
    orders,           \* the baskets ordered from a cart
    status,           \* of a cart: not created, is_active or not
    items,            \* of a cart: the quantity of its CartItem for a sku, 0 without one
    holder,           \* the checkout that holds the row lock of a cart, variant, product, store
    checkout,         \* the transactions of create_order
    call,             \* the calls of add_item, remove_item and clear_cart
    saves             \* saves made

checkoutVars == <<stock, good, selectable, orders, status, items, holder, checkout, call, saves>>
cartVars == <<status, items, call, saves>>

INSTANCE Inventory

\* One transaction: RESERVING its basket; left are the skus not reserved yet, item
\* the one whose rows are being locked, locked how many of them are.
Idle == [phase |-> "IDLE"]

Transactions ==
    [phase : {"BEGUN"}, cart : Carts]
        \cup [phase : {"RESERVING"}, cart : Carts, basket : Baskets, left : SUBSET Skus,
              item : Skus \cup {NoSku}, locked : Nat]

\* What a cart call read before it writes; fresh says it found no active cart, missing
\* that the cart had no item of the sku.
Calls ==
    [op : {"ADD"}, cart : Carts, fresh : BOOLEAN, missing : BOOLEAN, sku : Skus,
     quantity : 1..MaxQuantity, seen : 0..MaxStock]
        \cup [op : {"REMOVE"}, cart : Carts, skus : Removals]

NoCall == [op |-> "NONE"]

\* The rows keep their shape; no stock is ever negative and no cart is ordered twice.
CheckoutTypeOK ==
    /\ stock \in [Skus -> 0..MaxStock]
    /\ good \in [Rows -> BOOLEAN]
    /\ selectable \in [Options -> BOOLEAN]
    /\ orders \in [Carts -> {<<>>} \cup {<<b>> : b \in Baskets}]
    /\ status \in [Carts -> {"ABSENT", "ACTIVE", "INACTIVE"}]
    /\ items \in [Carts -> Baskets]
    /\ holder \in [Rows \cup Carts -> Sessions \cup {NoSession}]
    /\ checkout \in [Sessions -> Transactions \cup {Idle}]
    /\ call \in [Callers -> Calls \cup {NoCall}]
    /\ saves \in 0..MaxSaves

CheckoutInit ==
    /\ stock = [k \in Skus |-> MaxStock]
    /\ good = [r \in Rows |-> TRUE]
    /\ selectable = [o \in Options |-> TRUE]
    /\ orders = [c \in Carts |-> <<>>]
    /\ status = [c \in Carts |-> "ABSENT"]
    /\ items = [c \in Carts |-> [k \in Skus |-> 0]]
    /\ holder = [r \in Rows \cup Carts |-> NoSession]
    /\ checkout = [s \in Sessions |-> Idle]
    /\ call = [p \in Callers |-> NoCall]
    /\ saves = 0

-----------------------------------------------------------------------------
\* Cart calls.

\* The cart get_active_cart finds or, when fresh, is about to create.
IsActiveCart(c, fresh) ==
    IF fresh
    THEN /\ \A n \in 1..MaxCarts : status[<<c[1], n>>] # "ACTIVE"
         /\ status[c] = "ABSENT"
         /\ \A n \in 1..(c[2] - 1) : status[<<c[1], n>>] # "ABSENT"
    ELSE status[c] = "ACTIVE"

\* ProductVariant.can_be_purchased, Product.is_available and Store.can_accept_pickup, as
\* far as flags go.
Purchasable(k) == Offered(k) /\ \A o \in OptionsOf[k] : selectable[o]

\* add_item reads the cart, the product and the variant.
BeginAdd(p, c, k, quantity) ==
    /\ call[p] = NoCall
    /\ Purchasable(k)
    /\ InStock(k, 1)
    /\ InStock(k, quantity)
    /\ \E fresh \in BOOLEAN :
        /\ IsActiveCart(c, fresh)
        /\ call' = [call EXCEPT ![p] = [op |-> "ADD", cart |-> c, fresh |-> fresh, sku |-> k,
                                        missing |-> items[c][k] = 0, quantity |-> quantity,
                                        seen |-> stock[k]]]
    /\ UNCHANGED <<stock, good, selectable, orders, status, items, holder, checkout, saves>>

\* The rows a new item references: the cart, the variant and the product, not the store.
Referenced(c, k) == {c} \cup {RowsOf[k][i] : i \in 1..(Len(RowsOf[k]) - 1)}

\* The cart exists: the insert of a new item waits for the locks of the rows it
\* references; the quantity of an item that is there is just raised.
AddTo(c, k, quantity) ==
    /\ items[c][k] + quantity <= MaxQuantity
    /\ items[c][k] = 0 => \A r \in Referenced(c, k) : holder[r] = NoSession
    /\ items' = [items EXCEPT ![c][k] = @ + quantity]

\* It writes, or fails: the stock it saw does not suffice for the sum, or a unique
\* constraint refuses it, another call having created the customer's cart or inserted
\* the item first.
FinishAdd(p) ==
    LET a     == call[p]
        short == a.sku \in Tracked /\ items[a.cart][a.sku] + a.quantity > a.seen
        late  == a.fresh /\ ~IsActiveCart(a.cart, TRUE)
    IN
    /\ a.op = "ADD"
    /\ call' = [call EXCEPT ![p] = NoCall]
    /\ \/ /\ ~late /\ ~short
          /\ AddTo(a.cart, a.sku, a.quantity)
          /\ status' = IF a.fresh THEN [status EXCEPT ![a.cart] = "ACTIVE"] ELSE status
       \/ /\ late \/ short \/ (a.missing /\ items[a.cart][a.sku] > 0)
          /\ UNCHANGED <<status, items>>
    /\ UNCHANGED <<stock, good, selectable, orders, holder, checkout, saves>>

\* remove_item (one sku) and clear_cart (all of them) read the cart ...
BeginRemove(p, c, skus) ==
    /\ call[p] = NoCall
    /\ status[c] = "ACTIVE"
    /\ call' = [call EXCEPT ![p] = [op |-> "REMOVE", cart |-> c, skus |-> skus]]
    /\ UNCHANGED <<stock, good, selectable, orders, status, items, holder, checkout, saves>>

\* ... and delete what it holds of them.
FinishRemove(p) ==
    LET d == call[p] IN
    /\ d.op = "REMOVE"
    /\ call' = [call EXCEPT ![p] = NoCall]
    /\ items' = [items EXCEPT ![d.cart] = [k \in Skus |-> IF k \in d.skus THEN 0 ELSE @[k]]]
    /\ UNCHANGED <<stock, good, selectable, orders, status, holder, checkout, saves>>

-----------------------------------------------------------------------------
\* Checkout.

\* CheckoutView reads the customer's active cart, without a lock.
BeginCheckout(s, c) ==
    /\ checkout[s] = Idle
    /\ status[c] = "ACTIVE"
    /\ checkout' = [checkout EXCEPT ![s] = [phase |-> "BEGUN", cart |-> c]]
    /\ UNCHANGED <<stock, good, selectable, orders, holder, cartVars>>

\* The transaction ends and its row locks with it.
Release(s) ==
    /\ checkout' = [checkout EXCEPT ![s] = Idle]
    /\ holder' = [r \in DOMAIN holder |-> IF holder[r] = s THEN NoSession ELSE holder[r]]

\* Mutant: the view's read of the cart is trusted.
LockCartUnread(s) ==
    LET c == checkout[s].cart IN
    /\ checkout[s].phase = "BEGUN"
    /\ holder[c] = NoSession
    /\ holder' = [holder EXCEPT ![c] = s]
    /\ checkout' = [checkout EXCEPT ![s] =
          [phase |-> "RESERVING", cart |-> c, basket |-> items[c],
           left |-> {k \in Skus : items[c][k] > 0}, item |-> NoSku, locked |-> 0]]
    /\ UNCHANGED <<stock, good, selectable, orders, cartVars>>

\* _lock_cart and _get_cart_items: the cart is read again under its lock; the items
\* are read once and not locked.
LockCart(s) ==
    LET c == checkout[s].cart IN
    /\ checkout[s].phase = "BEGUN"
    /\ holder[c] = NoSession
    /\ IF status[c] = "ACTIVE" /\ \E k \in Skus : items[c][k] > 0
       THEN /\ holder' = [holder EXCEPT ![c] = s]
            /\ checkout' = [checkout EXCEPT ![s] =
                  [phase |-> "RESERVING", cart |-> c, basket |-> items[c],
                   left |-> {k \in Skus : items[c][k] > 0}, item |-> NoSku, locked |-> 0]]
       ELSE Release(s)
    /\ UNCHANGED <<stock, good, selectable, orders, cartVars>>

Reserving(s) == checkout[s].phase = "RESERVING"

\* The next item of _lock_inventory.  Items come in the order they were put into the
\* cart, which the cart does not record here: any order.
NextItem(s, k) ==
    /\ Reserving(s)
    /\ checkout[s].item = NoSku
    /\ k \in checkout[s].left
    /\ checkout' = [checkout EXCEPT ![s].item = k]
    /\ UNCHANGED <<stock, good, selectable, orders, holder, cartVars>>

\* The rows of the item that the checkout has still to lock.
Pending(s) ==
    Reserving(s) /\ checkout[s].item # NoSku /\ checkout[s].locked < Len(RowsOf[checkout[s].item])

NextRow(s) == RowsOf[checkout[s].item][checkout[s].locked + 1]

\* Mutants: get() without select_for_update(), and with of=("self",).
ReadRow(s) ==
    /\ Pending(s)
    /\ holder[NextRow(s)] \in {s, NoSession}
    /\ checkout' = [checkout EXCEPT ![s].locked = @ + 1]
    /\ UNCHANGED <<stock, good, selectable, orders, holder, cartVars>>

LockOwnRow(s) ==
    /\ Pending(s)
    /\ holder[NextRow(s)] \in {s, NoSession}
    /\ holder' = IF NextRow(s) \in Skus THEN [holder EXCEPT ![NextRow(s)] = s] ELSE holder
    /\ checkout' = [checkout EXCEPT ![s].locked = @ + 1]
    /\ UNCHANGED <<stock, good, selectable, orders, cartVars>>

\* SELECT ... FOR UPDATE of the item's variant, product and store, one row at a time.
LockRow(s) ==
    /\ Pending(s)
    /\ holder[NextRow(s)] \in {s, NoSession}
    /\ holder' = [holder EXCEPT ![NextRow(s)] = s]
    /\ checkout' = [checkout EXCEPT ![s].locked = @ + 1]
    /\ UNCHANGED <<stock, good, selectable, orders, cartVars>>

AllLocked(s) ==
    Reserving(s) /\ checkout[s].item # NoSku /\ checkout[s].locked >= Len(RowsOf[checkout[s].item])

\* The checks made once the rows are locked.
Sellable(s) ==
    LET k == checkout[s].item IN
    Purchasable(k) /\ InStock(k, 1) /\ InStock(k, checkout[s].basket[k])

\* The item passes: its units are the transaction's.
Reserve(s) ==
    /\ AllLocked(s)
    /\ Sellable(s)
    /\ checkout' = [checkout EXCEPT ![s].left = @ \ {checkout[s].item}, ![s].item = NoSku,
                                    ![s].locked = 0]
    /\ UNCHANGED <<stock, good, selectable, orders, holder, cartVars>>

\* Mutant: a short item waits for the vendor to restock.
RefuseUnlessShort(s) ==
    /\ AllLocked(s)
    /\ ~Purchasable(checkout[s].item)
    /\ Release(s)
    /\ UNCHANGED <<stock, good, selectable, orders, cartVars>>

\* The item is not for sale or short of stock: ValueError, rollback.
Refuse(s) ==
    /\ AllLocked(s)
    /\ ~Sellable(s)
    /\ Release(s)
    /\ UNCHANGED <<stock, good, selectable, orders, cartVars>>

\* The order, its items and its payment are written, the cart is closed: commit.
PlaceOrder(s) ==
    LET c == checkout[s].cart
        basket == checkout[s].basket IN
    /\ Reserving(s)
    /\ checkout[s].left = {}
    /\ stock' = [k \in Skus |-> IF k \in Tracked THEN stock[k] - basket[k] ELSE stock[k]]
    /\ orders' = [orders EXCEPT ![c] = Append(@, basket)]
    /\ status' = [status EXCEPT ![c] = "INACTIVE"]
    /\ Release(s)
    /\ UNCHANGED <<good, selectable, items, call, saves>>

\* A later step raises (pricing, address, payment) or the process dies: rollback.
Abort(s) ==
    /\ checkout[s] # Idle
    /\ Release(s)
    /\ UNCHANGED <<stock, good, selectable, orders, cartVars>>

\* s waits for a row that t has locked.
WaitsFor(s, t) == s # t /\ Pending(s) /\ holder[NextRow(s)] = t

\* s is part of a circle of waiting checkouts.
Deadlocked(s) ==
    \E D \in SUBSET Sessions :
        /\ s \in D
        /\ \A t \in D : \E u \in D : WaitsFor(t, u)
        /\ \A u \in D : \E t \in D : WaitsFor(t, u)

\* PostgreSQL ends one of them with an error.
DeadlockAbort(s) == Deadlocked(s) /\ Abort(s)

-----------------------------------------------------------------------------
\* A vendor's or an administrator's save of a variant, product or store: it writes
\* every column, those not edited from a read it made before, whatever that was.
SaveRow(r, quantity, flag) ==
    /\ saves < MaxSaves
    /\ saves' = saves + 1
    /\ holder[r] = NoSession
    /\ good' = [good EXCEPT ![r] = flag]
    /\ stock' = [k \in Skus |-> IF k = r THEN quantity ELSE stock[k]]
    /\ UNCHANGED <<selectable, orders, holder, checkout, status, items, call>>

\* Their save of an option or an option value, or its deletion, which frees the variants of
\* it: no checkout has a lock on it.
SaveOption(o, flag) ==
    /\ saves < MaxSaves
    /\ saves' = saves + 1
    /\ selectable' = [selectable EXCEPT ![o] = flag]
    /\ UNCHANGED <<stock, good, orders, holder, checkout, status, items, call>>

-----------------------------------------------------------------------------
CheckoutNext ==
    \/ \E p \in Callers, c \in Carts, k \in Skus, n \in 1..MaxQuantity : BeginAdd(p, c, k, n)
    \/ \E p \in Callers : FinishAdd(p)
    \/ \E p \in Callers, c \in Carts, skus \in Removals : BeginRemove(p, c, skus)
    \/ \E p \in Callers : FinishRemove(p)
    \/ \E s \in Sessions, c \in Carts : BeginCheckout(s, c)
    \/ \E s \in Sessions : LockCart(s)
    \/ \E s \in Sessions, k \in Skus : NextItem(s, k)
    \/ \E s \in Sessions : LockRow(s)
    \/ \E s \in Sessions : Reserve(s)
    \/ \E s \in Sessions : Refuse(s)
    \/ \E s \in Sessions : PlaceOrder(s)
    \/ \E s \in Sessions : Abort(s)
    \/ \E s \in Sessions : DeadlockAbort(s)
    \/ \E r \in Rows, n \in 0..MaxStock, flag \in BOOLEAN : SaveRow(r, n, flag)
    \/ \E o \in Options, flag \in BOOLEAN : SaveOption(o, flag)

CheckoutSpec == CheckoutInit /\ [][CheckoutNext]_checkoutVars

\* A request runs on; the database grants a row to its waiters in turn (so a row that
\* is free again and again is granted) and breaks a circle of waiting.
CheckoutFairness ==
    /\ \A s \in Sessions :
        /\ SF_checkoutVars(LockCart(s))
        /\ WF_checkoutVars(\E k \in Skus : NextItem(s, k))
        /\ SF_checkoutVars(LockRow(s))
        /\ WF_checkoutVars(Reserve(s) \/ Refuse(s) \/ PlaceOrder(s))
    /\ WF_checkoutVars(\E s \in Sessions : DeadlockAbort(s))

FairCheckoutSpec == CheckoutSpec /\ CheckoutFairness

-----------------------------------------------------------------------------
\* What a checkout took under its locks is still there when it commits: its cart is
\* its own, open and not ordered; the rows of every item it reserved are its own, and
\* the variant, product and store of the item are for sale and in stock (create_order
\* checks each item once, long before it places the order).  The options of the variant
\* are in no lock and not in this: see ReservedIsPurchasable.
ReservedIsHeld ==
    \A s \in Sessions : Reserving(s) =>
        LET t == checkout[s] IN
        /\ holder[t.cart] = s
        /\ status[t.cart] = "ACTIVE"
        /\ orders[t.cart] = <<>>
        /\ \A k \in Skus : (t.basket[k] > 0 /\ k \notin t.left) =>
            /\ \A i \in 1..Len(RowsOf[k]) : holder[RowsOf[k][i]] = s
            /\ Offered(k)
            /\ InStock(k, t.basket[k])

\* What ReservedIsHeld leaves out, an option that is turned off between the check and the
\* commit.  The code does not have it: _lock_inventory reads options without a lock.
ReservedIsPurchasable ==
    \A s \in Sessions : Reserving(s) =>
        \A k \in Skus : (checkout[s].basket[k] > 0 /\ k \notin checkout[s].left) => Purchasable(k)

\* create_order sells atomically, however checkouts, cart calls and vendors interleave:
\* as far as variants, products, stores and stock go, for which Inventory stands.
SalesAreAtomic == InventorySpec

\* A checkout that began comes to an end, with an order or without, although checkouts
\* wait for each other's rows.
CheckoutEnds == \A s \in Sessions : checkout[s] # Idle ~> checkout[s] = Idle

\* cart_item.py: "Items cannot be added to an inactive cart." (a cart that was
\* checked out holds no unit that was put into it afterwards)
ClosedCartIsFrozen ==
    [][\A c \in Carts : status[c] = "INACTIVE" =>
        \A k \in Skus : items'[c][k] <= items[c][k]]_checkoutVars

=============================================================================
