--------------------------- MODULE CheckoutProofs ---------------------------
(***************************************************************************)
(* Proofs about Checkout: the rows keep their shape, what a checkout       *)
(* reserved stays its own until it commits, every order is an atomic sale  *)
(* of Inventory, no unit is lost or made by selling, and checkouts that    *)
(* wait for each other are always found, for any number of customers,      *)
(* carts, skus, rows and sessions.                                         *)
(***************************************************************************)
EXTENDS Checkout, FiniteSums, TLAPS

USE CheckoutAssumption

\* The transaction of s has locked the rows of the item it is at, as far as it got.
ItemRowsHeld(s) ==
    /\ checkout[s].item = NoSku => checkout[s].locked = 0
    /\ checkout[s].item # NoSku =>
        \A i \in 1..Len(RowsOf[checkout[s].item]) :
            i <= checkout[s].locked => holder[RowsOf[checkout[s].item][i]] = s

\* What ReservedIsHeld says of one checkout, and the rows of its current item.
Held(s) ==
    Reserving(s) =>
        /\ holder[checkout[s].cart] = s
        /\ status[checkout[s].cart] = "ACTIVE"
        /\ orders[checkout[s].cart] = <<>>
        /\ \A k \in Skus : (checkout[s].basket[k] > 0 /\ k \notin checkout[s].left) =>
            /\ \A i \in 1..Len(RowsOf[k]) : holder[RowsOf[k][i]] = s
            /\ Offered(k)
            /\ InStock(k, checkout[s].basket[k])
        /\ ItemRowsHeld(s)

\* A cart that was ordered is closed.
OrderedIsClosed == \A c \in Carts : orders[c] # <<>> => status[c] = "INACTIVE"

Inv ==
    /\ CheckoutTypeOK
    /\ OrderedIsClosed
    /\ \A s \in Sessions : Held(s)

-----------------------------------------------------------------------------
LEMMA ReservingRecord ==
    ASSUME CheckoutTypeOK, NEW s \in Sessions, Reserving(s)
    PROVE  /\ checkout[s] \in [phase : {"RESERVING"}, cart : Carts, basket : Baskets,
                               left : SUBSET Skus, item : Skus \cup {NoSku}, locked : Nat]
           /\ checkout[s].cart \in Carts
           /\ checkout[s].basket \in Baskets
           /\ checkout[s].left \subseteq Skus
           /\ checkout[s].item \in Skus \cup {NoSku}
           /\ checkout[s].locked \in Nat
<1>1. checkout[s] \in Transactions \cup {Idle}
  BY DEF CheckoutTypeOK
<1>2. checkout[s] \notin [phase : {"BEGUN"}, cart : Carts] /\ checkout[s] # Idle
  BY DEF Reserving, Idle
<1>3. checkout[s] \in [phase : {"RESERVING"}, cart : Carts, basket : Baskets,
                       left : SUBSET Skus, item : Skus \cup {NoSku}, locked : Nat]
  BY <1>1, <1>2 DEF Transactions
<1> QED
  BY <1>3

LEMMA BegunRecord ==
    ASSUME CheckoutTypeOK, NEW s \in Sessions, checkout[s].phase = "BEGUN"
    PROVE  checkout[s].cart \in Carts
<1>1. checkout[s] \in Transactions \cup {Idle}
  BY DEF CheckoutTypeOK
<1> QED
  BY <1>1 DEF Transactions, Idle

LEMMA SkuRows ==
    ASSUME NEW k \in Skus
    PROVE  /\ k \in Rows
           /\ RowsOf[k] \in Seq(Rows)
           /\ Len(RowsOf[k]) \in Nat \ {0}
           /\ RowsOf[k][1] = k
           /\ \A i \in 1..Len(RowsOf[k]) : RowsOf[k][i] \in Rows
<1>1. RowsOf[k] \in Seq(Rows) /\ Len(RowsOf[k]) > 0 /\ RowsOf[k][1] = k
  OBVIOUS
<1> QED
  BY <1>1

LEMMA NextRowIsRow ==
    ASSUME CheckoutTypeOK, NEW s \in Sessions, Pending(s)
    PROVE  /\ NextRow(s) \in Rows
           /\ checkout[s].item \in Skus
           /\ checkout[s].locked + 1 \in 1..Len(RowsOf[checkout[s].item])
<1>1. checkout[s].item \in Skus /\ checkout[s].locked \in Nat
  BY ReservingRecord DEF Pending
<1>2. Len(RowsOf[checkout[s].item]) \in Nat
  BY <1>1, SkuRows
<1>3. checkout[s].locked + 1 \in 1..Len(RowsOf[checkout[s].item])
  BY <1>1, <1>2 DEF Pending
<1> QED
  BY <1>1, <1>3, SkuRows DEF NextRow

\* A step leaves a checkout's reservation alone when it leaves alone its transaction,
\* its cart, its row locks and the rows they protect.
LEMMA Frame ==
    ASSUME Inv, NEW t \in Sessions,
           checkout'[t] = checkout[t],
           \A r \in Rows \cup Carts : holder[r] = t => holder'[r] = t,
           Reserving(t) => status'[checkout[t].cart] = status[checkout[t].cart],
           Reserving(t) => orders'[checkout[t].cart] = orders[checkout[t].cart],
           \A k \in Skus : holder[k] = t => stock'[k] = stock[k],
           \A r \in Rows : holder[r] = t => good'[r] = good[r]
    PROVE  Held(t)'
<1> SUFFICES ASSUME Reserving(t)'
             PROVE  Held(t)'
  BY DEF Held
<1>1. Reserving(t)
  BY DEF Reserving
<1>2. /\ checkout[t].cart \in Carts
      /\ checkout[t].item \in Skus \cup {NoSku}
      /\ checkout[t].basket \in Baskets
  BY <1>1, ReservingRecord DEF Inv
<1>3. /\ holder[checkout[t].cart] = t
      /\ status[checkout[t].cart] = "ACTIVE"
      /\ orders[checkout[t].cart] = <<>>
      /\ ItemRowsHeld(t)
  BY <1>1 DEF Inv, Held
<1>4. ItemRowsHeld(t)'
  <2>0. checkout'[t].item = NoSku => checkout'[t].locked = 0
    BY <1>3 DEF ItemRowsHeld
  <2> SUFFICES ASSUME checkout[t].item # NoSku,
                      NEW i \in 1..Len(RowsOf[checkout[t].item]), i <= checkout[t].locked
               PROVE  holder'[RowsOf[checkout[t].item][i]] = t
    BY <2>0 DEF ItemRowsHeld
  <2>1. RowsOf[checkout[t].item][i] \in Rows
    BY <1>2, SkuRows
  <2> QED
    BY <2>1, <1>3 DEF ItemRowsHeld
<1>5. ASSUME NEW k \in Skus, checkout[t].basket[k] > 0, k \notin checkout[t].left
      PROVE  /\ \A i \in 1..Len(RowsOf[k]) : holder'[RowsOf[k][i]] = t
             /\ Offered(k)'
             /\ InStock(k, checkout[t].basket[k])'
  <2>1. /\ \A i \in 1..Len(RowsOf[k]) : holder[RowsOf[k][i]] = t
        /\ Offered(k)
        /\ InStock(k, checkout[t].basket[k])
    BY <1>1, <1>5 DEF Inv, Held
  <2>2. \A i \in 1..Len(RowsOf[k]) : RowsOf[k][i] \in Rows
    BY SkuRows
  <2>3. holder[k] = t
    BY <2>1, SkuRows
  <2>4. Offered(k)'
    BY <2>1, <2>2 DEF Offered
  <2>5. InStock(k, checkout[t].basket[k])'
    BY <2>1, <2>3 DEF InStock
  <2> QED
    BY <2>1, <2>2, <2>4, <2>5
<1>6. /\ holder'[checkout[t].cart] = t
      /\ status'[checkout[t].cart] = "ACTIVE"
      /\ orders'[checkout[t].cart] = <<>>
  BY <1>1, <1>2, <1>3
<1> QED
  BY <1>4, <1>5, <1>6 DEF Held

-----------------------------------------------------------------------------
\* The end of a transaction disturbs no other one.
LEMMA ReleaseFacts ==
    ASSUME Inv, NEW s \in Sessions, Release(s)
    PROVE  /\ checkout' \in [Sessions -> Transactions \cup {Idle}]
           /\ holder' \in [Rows \cup Carts -> Sessions \cup {NoSession}]
           /\ ~Reserving(s)'
           /\ \A t \in Sessions \ {s} :
                /\ checkout'[t] = checkout[t]
                /\ \A r \in Rows \cup Carts : holder[r] = t => holder'[r] = t
<1>1. /\ checkout \in [Sessions -> Transactions \cup {Idle}]
      /\ holder \in [Rows \cup Carts -> Sessions \cup {NoSession}]
  BY DEF Inv, CheckoutTypeOK
<1>2. checkout' = [checkout EXCEPT ![s] = Idle]
  BY DEF Release
<1>3. holder' = [r \in Rows \cup Carts |-> IF holder[r] = s THEN NoSession ELSE holder[r]]
  BY <1>1 DEF Release
<1>4. checkout' \in [Sessions -> Transactions \cup {Idle}] /\ checkout'[s] = Idle
  BY <1>1, <1>2
<1>5. ~Reserving(s)'
  BY <1>4 DEF Reserving, Idle
<1>6. holder' \in [Rows \cup Carts -> Sessions \cup {NoSession}]
  BY <1>1, <1>3
<1>7. ASSUME NEW t \in Sessions \ {s}
      PROVE  /\ checkout'[t] = checkout[t]
             /\ \A r \in Rows \cup Carts : holder[r] = t => holder'[r] = t
  BY <1>1, <1>2, <1>3
<1> QED
  BY <1>4, <1>5, <1>6, <1>7

\* A transaction that only ends, and changes no committed row.
LEMMA RollbackKeepsInv ==
    ASSUME Inv, NEW s \in Sessions, Release(s),
           UNCHANGED <<stock, good, selectable, orders, cartVars>>
    PROVE  Inv'
<1>1. CheckoutTypeOK'
  BY ReleaseFacts DEF Inv, CheckoutTypeOK, cartVars
<1>2. OrderedIsClosed'
  BY DEF Inv, OrderedIsClosed, cartVars
<1>3. ASSUME NEW t \in Sessions PROVE Held(t)'
  <2>1. CASE t = s
    BY <2>1, ReleaseFacts DEF Held
  <2>2. CASE t # s
    <3>1. /\ checkout'[t] = checkout[t]
          /\ \A r \in Rows \cup Carts : holder[r] = t => holder'[r] = t
      BY <2>2, ReleaseFacts
    <3> QED
      BY <3>1, Frame DEF cartVars
  <2> QED
    BY <2>1, <2>2
<1> QED
  BY <1>1, <1>2, <1>3 DEF Inv

\* A step of s's own transaction that commits nothing and takes at most free rows.
LEMMA OwnStep ==
    ASSUME Inv, NEW s \in Sessions,
           UNCHANGED <<stock, good, selectable, orders, cartVars>>,
           \A t \in Sessions \ {s} :
                /\ checkout'[t] = checkout[t]
                /\ \A r \in Rows \cup Carts : holder[r] = t => holder'[r] = t,
           checkout' \in [Sessions -> Transactions \cup {Idle}],
           holder' \in [Rows \cup Carts -> Sessions \cup {NoSession}],
           Held(s)'
    PROVE  Inv'
<1>1. CheckoutTypeOK'
  BY DEF Inv, CheckoutTypeOK, cartVars
<1>2. OrderedIsClosed'
  BY DEF Inv, OrderedIsClosed, cartVars
<1>3. ASSUME NEW t \in Sessions, t # s PROVE Held(t)'
  BY <1>3, Frame DEF cartVars
<1> QED
  BY <1>1, <1>2, <1>3 DEF Inv

\* A cart call: no transaction, no lock, no stock; a cart it creates was absent.
LEMMA CallStep ==
    ASSUME Inv, UNCHANGED <<stock, good, selectable, orders, holder, checkout, saves>>,
           status' \in [Carts -> {"ABSENT", "ACTIVE", "INACTIVE"}],
           items' \in [Carts -> Baskets],
           call' \in [Callers -> Calls \cup {NoCall}],
           \A c \in Carts : status[c] # "ABSENT" => status'[c] = status[c]
    PROVE  Inv'
<1>1. CheckoutTypeOK'
  BY DEF Inv, CheckoutTypeOK
<1>2. OrderedIsClosed'
  BY DEF Inv, OrderedIsClosed
<1>3. ASSUME NEW t \in Sessions PROVE Held(t)'
  <2>1. Reserving(t) => checkout[t].cart \in Carts /\ status[checkout[t].cart] = "ACTIVE"
    BY ReservingRecord DEF Inv, Held
  <2>2. Reserving(t) => status'[checkout[t].cart] = status[checkout[t].cart]
    BY <2>1
  <2> QED
    BY <2>2, Frame
<1> QED
  BY <1>1, <1>2, <1>3 DEF Inv

LEMMA BeginAddKeepsInv ==
    ASSUME Inv, NEW p \in Callers, NEW c \in Carts, NEW k \in Skus, NEW n \in 1..MaxQuantity,
           BeginAdd(p, c, k, n)
    PROVE  Inv'
<1>1. PICK fresh \in BOOLEAN :
        call' = [call EXCEPT ![p] = [op |-> "ADD", cart |-> c, fresh |-> fresh, sku |-> k,
                                     missing |-> items[c][k] = 0, quantity |-> n,
                                     seen |-> stock[k]]]
  BY DEF BeginAdd
<1>2. stock[k] \in 0..MaxStock
  BY DEF Inv, CheckoutTypeOK
<1> DEFINE none == items[c][k] = 0
<1>3. none \in BOOLEAN
  OBVIOUS
<1>4. call' = [call EXCEPT ![p] = [op |-> "ADD", cart |-> c, fresh |-> fresh, sku |-> k,
                                   missing |-> none, quantity |-> n, seen |-> stock[k]]]
  BY <1>1
<1> HIDE DEF none
<1>5. [op |-> "ADD", cart |-> c, fresh |-> fresh, sku |-> k, missing |-> none, quantity |-> n,
       seen |-> stock[k]] \in Calls
  BY <1>2, <1>3 DEF Calls
<1>6. call' \in [Callers -> Calls \cup {NoCall}]
  BY <1>4, <1>5 DEF Inv, CheckoutTypeOK
<1> QED
  BY <1>6, CallStep DEF BeginAdd, Inv, CheckoutTypeOK

LEMMA FinishAddKeepsInv ==
    ASSUME Inv, NEW p \in Callers, FinishAdd(p)
    PROVE  Inv'
<1> DEFINE a == call[p]
<1>1. call[p] \in Calls \cup {NoCall} /\ a.op = "ADD"
  BY DEF Inv, CheckoutTypeOK, FinishAdd
<1>2. a.cart \in Carts /\ a.sku \in Skus /\ a.quantity \in 1..MaxQuantity /\ a.fresh \in BOOLEAN
  BY <1>1 DEF Calls, NoCall
<1>3. call' \in [Callers -> Calls \cup {NoCall}]
  BY DEF FinishAdd, Inv, CheckoutTypeOK
<1>4. UNCHANGED <<stock, good, selectable, orders, holder, checkout, saves>>
  BY DEF FinishAdd
<1>5. CASE AddTo(a.cart, a.sku, a.quantity) /\ (a.fresh => IsActiveCart(a.cart, TRUE))
           /\ status' = IF a.fresh THEN [status EXCEPT ![a.cart] = "ACTIVE"] ELSE status
  <2>1. items[a.cart][a.sku] \in 0..MaxQuantity
    BY <1>2 DEF Inv, CheckoutTypeOK, Baskets
  <2>2. items[a.cart][a.sku] + a.quantity \in 0..MaxQuantity
    BY <1>2, <1>5, <2>1 DEF AddTo
  <2>3. [items[a.cart] EXCEPT ![a.sku] = @ + a.quantity] \in Baskets
    BY <1>2, <2>2 DEF Inv, CheckoutTypeOK, Baskets
  <2>4. items' = [items EXCEPT ![a.cart] = [items[a.cart] EXCEPT ![a.sku] = @ + a.quantity]]
    BY <1>2, <1>5 DEF AddTo, Inv, CheckoutTypeOK
  <2>5. items' \in [Carts -> Baskets]
    BY <1>2, <2>3, <2>4 DEF Inv, CheckoutTypeOK
  <2>6. status' \in [Carts -> {"ABSENT", "ACTIVE", "INACTIVE"}]
    BY <1>2, <1>5 DEF Inv, CheckoutTypeOK
  <2>7. a.fresh => status[a.cart] = "ABSENT"
    BY <1>5 DEF IsActiveCart
  <2>8. \A c \in Carts : status[c] # "ABSENT" => status'[c] = status[c]
    BY <1>2, <1>5, <2>7 DEF Inv, CheckoutTypeOK
  <2> QED
    BY <1>3, <1>4, <2>5, <2>6, <2>8, CallStep
<1>6. CASE UNCHANGED <<status, items>>
  BY <1>3, <1>4, <1>6, CallStep DEF Inv, CheckoutTypeOK
<1> QED
  BY <1>5, <1>6 DEF FinishAdd

LEMMA RemoveKeepsInv ==
    ASSUME Inv, NEW p \in Callers,
           \/ \E c \in Carts, skus \in Removals : BeginRemove(p, c, skus)
           \/ FinishRemove(p)
    PROVE  Inv'
<1>1. CASE \E c \in Carts, skus \in Removals : BeginRemove(p, c, skus)
  <2>1. PICK c \in Carts, skus \in Removals : BeginRemove(p, c, skus)
    BY <1>1
  <2>2. [op |-> "REMOVE", cart |-> c, skus |-> skus] \in Calls
    BY DEF Calls
  <2>3. call' \in [Callers -> Calls \cup {NoCall}]
    BY <2>1, <2>2 DEF BeginRemove, Inv, CheckoutTypeOK
  <2> QED
    BY <2>1, <2>3, CallStep DEF BeginRemove, Inv, CheckoutTypeOK
<1>2. CASE FinishRemove(p)
  <2>1. call[p] \in Calls \cup {NoCall} /\ call[p].op = "REMOVE"
    BY <1>2 DEF Inv, CheckoutTypeOK, FinishRemove
  <2>2. call[p].cart \in Carts
    BY <2>1 DEF Calls, NoCall
  <2> DEFINE rest == [k \in Skus |-> IF k \in call[p].skus THEN 0 ELSE items[call[p].cart][k]]
  <2>3. items[call[p].cart] \in Baskets
    BY <2>2 DEF Inv, CheckoutTypeOK
  <2>4. rest \in Baskets
    BY <2>3 DEF Baskets
  <2>5. items' = [items EXCEPT ![call[p].cart] = rest]
    BY <1>2, <2>2 DEF FinishRemove, Inv, CheckoutTypeOK
  <2>6. items' \in [Carts -> Baskets]
    BY <2>2, <2>4, <2>5 DEF Inv, CheckoutTypeOK
  <2>7. call' \in [Callers -> Calls \cup {NoCall}]
    BY <1>2 DEF FinishRemove, Inv, CheckoutTypeOK
  <2> QED
    BY <1>2, <2>6, <2>7, CallStep DEF FinishRemove, Inv, CheckoutTypeOK
<1> QED
  BY <1>1, <1>2

-----------------------------------------------------------------------------
LEMMA BeginCheckoutKeepsInv ==
    ASSUME Inv, NEW s \in Sessions, NEW c \in Carts, BeginCheckout(s, c)
    PROVE  Inv'
<1>1. checkout' = [checkout EXCEPT ![s] = [phase |-> "BEGUN", cart |-> c]]
  BY DEF BeginCheckout
<1>2. checkout' \in [Sessions -> Transactions \cup {Idle}]
  BY <1>1 DEF Inv, CheckoutTypeOK, Transactions
<1>3. checkout'[s].phase = "BEGUN"
  BY <1>1 DEF Inv, CheckoutTypeOK
<1>4. Held(s)'
  BY <1>3 DEF Held, Reserving
<1> QED
  BY <1>1, <1>2, <1>4, OwnStep DEF BeginCheckout, Inv, CheckoutTypeOK

LEMMA LockCartKeepsInv ==
    ASSUME Inv, NEW s \in Sessions, LockCart(s)
    PROVE  Inv'
<1> DEFINE c == checkout[s].cart
           t == [phase |-> "RESERVING", cart |-> c, basket |-> items[c],
                 left |-> {k \in Skus : items[c][k] > 0}, item |-> NoSku, locked |-> 0]
<1>1. c \in Carts /\ holder[c] = NoSession
  BY BegunRecord DEF LockCart, Inv
<1>2. CASE Release(s)
  BY <1>2, RollbackKeepsInv DEF LockCart
<1>3. CASE /\ status[c] = "ACTIVE"
           /\ holder' = [holder EXCEPT ![c] = s]
           /\ checkout' = [checkout EXCEPT ![s] = t]
  <2>1. items[c] \in Baskets
    BY <1>1 DEF Inv, CheckoutTypeOK
  <2>2. t \in Transactions
    BY <1>1, <2>1 DEF Transactions
  <2>3. /\ checkout' \in [Sessions -> Transactions \cup {Idle}]
        /\ holder' \in [Rows \cup Carts -> Sessions \cup {NoSession}]
        /\ checkout'[s] = t
        /\ holder'[c] = s
    BY <1>1, <1>3, <2>2 DEF Inv, CheckoutTypeOK
  <2>4. orders[c] = <<>>
    BY <1>1, <1>3 DEF Inv, OrderedIsClosed
  <2>5. status'[c] = "ACTIVE" /\ orders'[c] = <<>>
    BY <1>3, <2>4 DEF LockCart, cartVars
  <2>6. \A k \in Skus : t.basket[k] > 0 => k \in t.left
    OBVIOUS
  <2>7. Held(s)'
    BY <2>3, <2>5, <2>6 DEF Held, ItemRowsHeld
  <2>8. ASSUME NEW u \in Sessions \ {s}
        PROVE  /\ checkout'[u] = checkout[u]
               /\ \A r \in Rows \cup Carts : holder[r] = u => holder'[r] = u
    BY <1>1, <1>3 DEF Inv, CheckoutTypeOK
  <2> QED
    BY <2>3, <2>7, <2>8, OwnStep DEF LockCart
<1> QED
  BY <1>2, <1>3 DEF LockCart

LEMMA NextItemKeepsInv ==
    ASSUME Inv, NEW s \in Sessions, NEW k \in Skus, NextItem(s, k)
    PROVE  Inv'
<1>1. checkout[s] \in [phase : {"RESERVING"}, cart : Carts, basket : Baskets,
                       left : SUBSET Skus, item : Skus \cup {NoSku}, locked : Nat]
  BY ReservingRecord DEF NextItem, Inv
<1> DEFINE t == [checkout[s] EXCEPT !.item = k]
<1>2. checkout' = [checkout EXCEPT ![s] = t]
  BY DEF NextItem
<1>3. t \in Transactions
  BY <1>1 DEF Transactions
<1>4. checkout' \in [Sessions -> Transactions \cup {Idle}] /\ checkout'[s] = t
  BY <1>2, <1>3 DEF Inv, CheckoutTypeOK
<1>5. /\ t.cart = checkout[s].cart /\ t.basket = checkout[s].basket
      /\ t.left = checkout[s].left /\ t.locked = checkout[s].locked /\ t.item = k
  BY <1>1
<1>6. checkout[s].locked = 0
  BY DEF NextItem, Inv, Held, ItemRowsHeld
<1>7. ItemRowsHeld(s)'
  BY <1>4, <1>5, <1>6 DEF ItemRowsHeld
<1>8. UNCHANGED <<stock, good, selectable, orders, holder, cartVars>> /\ Reserving(s)
  BY DEF NextItem
<1>9. Held(s)'
  BY <1>4, <1>5, <1>7, <1>8 DEF Inv, Held, Offered, InStock, cartVars
<1>10. \A u \in Sessions \ {s} : checkout'[u] = checkout[u]
  BY <1>2 DEF Inv, CheckoutTypeOK
<1> QED
  BY <1>4, <1>8, <1>9, <1>10, OwnStep DEF Inv, CheckoutTypeOK

LEMMA LockRowKeepsInv ==
    ASSUME Inv, NEW s \in Sessions, LockRow(s)
    PROVE  Inv'
<1>1. Pending(s) /\ Reserving(s)
  BY DEF LockRow, Pending
<1>2. /\ checkout[s] \in [phase : {"RESERVING"}, cart : Carts, basket : Baskets,
                          left : SUBSET Skus, item : Skus \cup {NoSku}, locked : Nat]
      /\ NextRow(s) \in Rows
      /\ checkout[s].item \in Skus
      /\ checkout[s].locked + 1 \in 1..Len(RowsOf[checkout[s].item])
  BY <1>1, ReservingRecord, NextRowIsRow DEF Inv
<1> DEFINE t == [checkout[s] EXCEPT !.locked = @ + 1]
<1>3. checkout' = [checkout EXCEPT ![s] = t]
  BY DEF LockRow
<1>4. t \in Transactions
  <2>1. checkout[s].locked + 1 \in Nat
    BY <1>2
  <2>2. t \in [phase : {"RESERVING"}, cart : Carts, basket : Baskets,
               left : SUBSET Skus, item : Skus \cup {NoSku}, locked : Nat]
    BY <1>2, <2>1
  <2> QED
    BY <2>2 DEF Transactions
<1>5. checkout' \in [Sessions -> Transactions \cup {Idle}] /\ checkout'[s] = t
  BY <1>3, <1>4 DEF Inv, CheckoutTypeOK
<1>6. /\ t.cart = checkout[s].cart /\ t.basket = checkout[s].basket
      /\ t.left = checkout[s].left /\ t.item = checkout[s].item
      /\ t.locked = checkout[s].locked + 1 /\ t.phase = "RESERVING"
  BY <1>2
<1>7. /\ holder' \in [Rows \cup Carts -> Sessions \cup {NoSession}]
      /\ holder'[NextRow(s)] = s
      /\ \A r \in Rows \cup Carts : holder[r] = s => holder'[r] = s
      /\ \A u \in Sessions \ {s} : \A r \in Rows \cup Carts : holder[r] = u => holder'[r] = u
  BY <1>2 DEF LockRow, Inv, CheckoutTypeOK
<1>8. ItemRowsHeld(s)'
  <2>1. checkout[s].item # NoSku
    BY <1>1 DEF Pending
  <2>2. ASSUME NEW i \in 1..Len(RowsOf[checkout[s].item]), i <= checkout[s].locked + 1
        PROVE  holder'[RowsOf[checkout[s].item][i]] = s
    <3>1. RowsOf[checkout[s].item][i] \in Rows
      BY <1>2, SkuRows
    <3>2. CASE i = checkout[s].locked + 1
      BY <3>2, <1>7 DEF NextRow
    <3>3. CASE i # checkout[s].locked + 1
      <4>1. i <= checkout[s].locked
        BY <1>2, <2>2, <3>3
      <4> QED
        BY <1>1, <1>7, <2>1, <3>1, <4>1 DEF Inv, Held, ItemRowsHeld
    <3> QED
      BY <3>2, <3>3
  <2> QED
    BY <1>5, <1>6, <2>1, <2>2 DEF ItemRowsHeld
<1>9. UNCHANGED <<stock, good, selectable, orders, cartVars>>
  BY DEF LockRow
<1>10. Held(s)'
  <2>1. /\ holder[checkout[s].cart] = s
        /\ status[checkout[s].cart] = "ACTIVE"
        /\ orders[checkout[s].cart] = <<>>
    BY <1>1 DEF Inv, Held
  <2>2. ASSUME NEW k \in Skus, checkout[s].basket[k] > 0, k \notin checkout[s].left
        PROVE  /\ \A i \in 1..Len(RowsOf[k]) : holder'[RowsOf[k][i]] = s
               /\ Offered(k)'
               /\ InStock(k, checkout[s].basket[k])'
    <3>1. /\ \A i \in 1..Len(RowsOf[k]) : holder[RowsOf[k][i]] = s
          /\ Offered(k)
          /\ InStock(k, checkout[s].basket[k])
      BY <1>1, <2>2 DEF Inv, Held
    <3>2. \A i \in 1..Len(RowsOf[k]) : RowsOf[k][i] \in Rows
      BY SkuRows
    <3>3. \A i \in 1..Len(RowsOf[k]) : holder'[RowsOf[k][i]] = s
      BY <1>7, <3>1, <3>2
    <3>4. Offered(k)'
      BY <1>9, <3>1 DEF Offered
    <3>5. InStock(k, checkout[s].basket[k])'
      BY <1>3, <1>5, <1>6, <1>9, <3>1 DEF InStock
    <3> QED
      BY <3>3, <3>4, <3>5
  <2> QED
    BY <1>2, <1>5, <1>6, <1>7, <1>8, <1>9, <2>1, <2>2 DEF Held, InStock, Offered, cartVars
<1>11. \A u \in Sessions \ {s} : checkout'[u] = checkout[u]
  BY <1>3 DEF Inv, CheckoutTypeOK
<1> QED
  BY <1>5, <1>7, <1>9, <1>10, <1>11, OwnStep

LEMMA ReserveKeepsInv ==
    ASSUME Inv, NEW s \in Sessions, Reserve(s)
    PROVE  Inv'
<1> DEFINE k == checkout[s].item
           t == [checkout[s] EXCEPT !.left = @ \ {k}, !.item = NoSku, !.locked = 0]
<1>1. Reserving(s) /\ AllLocked(s) /\ Sellable(s) /\ k # NoSku
  BY DEF Reserve, AllLocked
<1>2. checkout[s] \in [phase : {"RESERVING"}, cart : Carts, basket : Baskets,
                       left : SUBSET Skus, item : Skus \cup {NoSku}, locked : Nat]
  BY <1>1, ReservingRecord DEF Inv
<1>3. checkout' = [checkout EXCEPT ![s] = t]
  BY <1>2 DEF Reserve, Inv, CheckoutTypeOK
<1>4. /\ t.cart = checkout[s].cart /\ t.basket = checkout[s].basket
      /\ t.left = checkout[s].left \ {k} /\ t.item = NoSku /\ t.locked = 0
      /\ t.phase = "RESERVING"
  BY <1>2
<1>5. t \in Transactions
  <2>1. t \in [phase : {"RESERVING"}, cart : Carts, basket : Baskets,
               left : SUBSET Skus, item : Skus \cup {NoSku}, locked : Nat]
    BY <1>2
  <2> QED
    BY <2>1 DEF Transactions
<1>6. checkout' \in [Sessions -> Transactions \cup {Idle}] /\ checkout'[s] = t
  BY <1>3, <1>5 DEF Inv, CheckoutTypeOK
<1>7. UNCHANGED <<stock, good, selectable, orders, holder, cartVars>>
  BY DEF Reserve
<1>8. \A i \in 1..Len(RowsOf[k]) : holder[RowsOf[k][i]] = s
  <2>1. k \in Skus
    BY <1>1, <1>2
  <2>2. Len(RowsOf[k]) \in Nat /\ checkout[s].locked \in Nat
    BY <1>2, <2>1, SkuRows
  <2>3. \A i \in 1..Len(RowsOf[k]) : i <= checkout[s].locked
    BY <1>1, <2>2 DEF AllLocked
  <2> QED
    BY <1>1, <2>3 DEF Inv, Held, ItemRowsHeld
<1>9. Held(s)'
  <2>1. /\ holder[checkout[s].cart] = s
        /\ status[checkout[s].cart] = "ACTIVE"
        /\ orders[checkout[s].cart] = <<>>
    BY <1>1 DEF Inv, Held
  <2>2. ASSUME NEW j \in Skus, checkout[s].basket[j] > 0, j \notin t.left
        PROVE  /\ \A i \in 1..Len(RowsOf[j]) : holder[RowsOf[j][i]] = s
               /\ Offered(j)
               /\ InStock(j, checkout[s].basket[j])
    <3>1. CASE j = k
      BY <1>1, <1>8, <3>1 DEF Sellable, Purchasable
    <3>2. CASE j # k
      <4>1. j \notin checkout[s].left
        BY <1>4, <2>2, <3>2
      <4> QED
        BY <1>1, <2>2, <4>1 DEF Inv, Held
    <3> QED
      BY <3>1, <3>2
  <2>3. ItemRowsHeld(s)'
    BY <1>4, <1>6 DEF ItemRowsHeld
  <2> HIDE DEF t
  <2>4. ASSUME NEW j \in Skus, checkout'[s].basket[j] > 0, j \notin checkout'[s].left
        PROVE  /\ \A i \in 1..Len(RowsOf[j]) : holder'[RowsOf[j][i]] = s
               /\ Offered(j)'
               /\ InStock(j, checkout[s].basket[j])'
    BY <1>4, <1>6, <1>7, <2>2, <2>4 DEF Offered, InStock
  <2> QED
    BY <1>4, <1>6, <1>7, <2>1, <2>3, <2>4 DEF Held, cartVars
<1>10. \A u \in Sessions \ {s} : checkout'[u] = checkout[u]
  BY <1>3 DEF Inv, CheckoutTypeOK
<1> QED
  BY <1>6, <1>7, <1>9, <1>10, OwnStep DEF Inv, CheckoutTypeOK

-----------------------------------------------------------------------------
\* A checkout that reserved its whole basket buys it: the step of Inventory.
LEMMA PlaceOrderBuys ==
    ASSUME Inv, NEW s \in Sessions, PlaceOrder(s)
    PROVE  /\ checkout[s].cart \in Carts
           /\ checkout[s].basket \in Baskets
           /\ Buy(checkout[s].cart, checkout[s].basket)
<1>1. Reserving(s) /\ checkout[s].left = {}
  BY DEF PlaceOrder
<1>2. checkout[s].cart \in Carts /\ checkout[s].basket \in Baskets
  BY <1>1, ReservingRecord DEF Inv
<1>3. orders[checkout[s].cart] = <<>>
  BY <1>1 DEF Inv, Held
<1>4. \A k \in Skus : checkout[s].basket[k] > 0 =>
        Offered(k) /\ InStock(k, checkout[s].basket[k])
  BY <1>1 DEF Inv, Held
<1>5. orders' = [orders EXCEPT ![checkout[s].cart] = <<checkout[s].basket>>]
  <2>1. orders' = [orders EXCEPT ![checkout[s].cart] = Append(<<>>, checkout[s].basket)]
    BY <1>3 DEF PlaceOrder
  <2>2. Append(<<>>, checkout[s].basket) = <<checkout[s].basket>>
    OBVIOUS
  <2> QED
    BY <2>1, <2>2
<1> QED
  BY <1>2, <1>3, <1>4, <1>5 DEF PlaceOrder, Buy

LEMMA PlaceOrderKeepsInv ==
    ASSUME Inv, NEW s \in Sessions, PlaceOrder(s)
    PROVE  Inv'
<1> DEFINE c == checkout[s].cart
           basket == checkout[s].basket
<1>1. /\ Reserving(s) /\ checkout[s].left = {} /\ Release(s)
      /\ stock' = [k \in Skus |-> IF k \in Tracked THEN stock[k] - basket[k] ELSE stock[k]]
      /\ status' = [status EXCEPT ![c] = "INACTIVE"]
      /\ UNCHANGED <<good, selectable, items, call, saves>>
  BY DEF PlaceOrder
<1>2. c \in Carts /\ basket \in Baskets /\ holder[c] = s
  BY <1>1, ReservingRecord DEF Inv, Held
<1>3. orders' = [orders EXCEPT ![c] = <<basket>>]
  BY PlaceOrderBuys DEF Buy
<1>4. ASSUME NEW k \in Skus
      PROVE  /\ stock'[k] \in 0..MaxStock
             /\ stock'[k] # stock[k] => holder[k] = s
  <2>1. stock[k] \in 0..MaxStock /\ basket[k] \in 0..MaxQuantity
    BY <1>2 DEF Inv, CheckoutTypeOK, Baskets
  <2>2. CASE basket[k] > 0 /\ k \in Tracked
    <3>1. /\ \A i \in 1..Len(RowsOf[k]) : holder[RowsOf[k][i]] = s
          /\ InStock(k, basket[k])
      BY <1>1, <2>2 DEF Inv, Held
    <3>2. holder[k] = s
      BY <3>1, SkuRows
    <3>3. stock'[k] = stock[k] - basket[k] /\ basket[k] <= stock[k]
      BY <1>1, <2>2, <3>1 DEF InStock
    <3> QED
      BY <2>1, <3>2, <3>3
  <2>3. CASE ~(basket[k] > 0 /\ k \in Tracked)
    <3>1. stock'[k] = stock[k]
      BY <1>1, <2>1, <2>3
    <3> QED
      BY <2>1, <3>1
  <2> QED
    BY <2>2, <2>3
<1>5. CheckoutTypeOK'
  <2>1. stock' \in [Skus -> 0..MaxStock]
    BY <1>1, <1>4
  <2>2. orders' \in [Carts -> {<<>>} \cup {<<b>> : b \in Baskets}]
    BY <1>2, <1>3 DEF Inv, CheckoutTypeOK
  <2>3. status' \in [Carts -> {"ABSENT", "ACTIVE", "INACTIVE"}]
    BY <1>1, <1>2 DEF Inv, CheckoutTypeOK
  <2> QED
    BY <1>1, <2>1, <2>2, <2>3, ReleaseFacts DEF Inv, CheckoutTypeOK
<1>6. OrderedIsClosed'
  BY <1>1, <1>2, <1>3 DEF Inv, OrderedIsClosed, CheckoutTypeOK
<1>7. ASSUME NEW t \in Sessions PROVE Held(t)'
  <2>1. CASE t = s
    BY <1>1, <2>1, ReleaseFacts DEF Held
  <2>2. CASE t # s
    <3>1. /\ checkout'[t] = checkout[t]
          /\ \A r \in Rows \cup Carts : holder[r] = t => holder'[r] = t
      BY <1>1, <2>2, ReleaseFacts
    <3>2. Reserving(t) => checkout[t].cart \in Carts /\ checkout[t].cart # c
      BY <1>2, <2>2, ReservingRecord DEF Inv, Held
    <3>3. /\ Reserving(t) => status'[checkout[t].cart] = status[checkout[t].cart]
          /\ Reserving(t) => orders'[checkout[t].cart] = orders[checkout[t].cart]
      BY <1>1, <1>3, <3>2 DEF Inv, CheckoutTypeOK
    <3>4. \A k \in Skus : holder[k] = t => stock'[k] = stock[k]
      BY <1>4, <2>2
    <3> QED
      BY <1>1, <3>1, <3>3, <3>4, Frame
  <2> QED
    BY <2>1, <2>2
<1> QED
  BY <1>5, <1>6, <1>7 DEF Inv

LEMMA SaveRowKeepsInv ==
    ASSUME Inv, NEW r \in Rows, NEW n \in 0..MaxStock, NEW flag \in BOOLEAN, SaveRow(r, n, flag)
    PROVE  Inv'
<1>1. /\ holder[r] = NoSession
      /\ good' = [good EXCEPT ![r] = flag]
      /\ stock' = [k \in Skus |-> IF k = r THEN n ELSE stock[k]]
      /\ saves' = saves + 1 /\ saves < MaxSaves
      /\ UNCHANGED <<selectable, orders, holder, checkout, status, items, call>>
  BY DEF SaveRow
<1>2. CheckoutTypeOK'
  <2>1. stock' \in [Skus -> 0..MaxStock]
    BY <1>1 DEF Inv, CheckoutTypeOK
  <2>2. good' \in [Rows -> BOOLEAN]
    BY <1>1 DEF Inv, CheckoutTypeOK
  <2>3. saves' \in 0..MaxSaves
    BY <1>1 DEF Inv, CheckoutTypeOK
  <2> QED
    BY <1>1, <2>1, <2>2, <2>3 DEF Inv, CheckoutTypeOK
<1>3. OrderedIsClosed'
  BY <1>1 DEF Inv, OrderedIsClosed
<1>4. ASSUME NEW t \in Sessions PROVE Held(t)'
  <2>1. \A k \in Skus : holder[k] = t => stock'[k] = stock[k]
    BY <1>1
  <2>2. \A q \in Rows : holder[q] = t => good'[q] = good[q]
    BY <1>1 DEF Inv, CheckoutTypeOK
  <2> QED
    BY <1>1, <2>1, <2>2, Frame
<1> QED
  BY <1>2, <1>3, <1>4 DEF Inv

\* The options of a variant are in no reservation.
LEMMA SaveOptionKeepsInv ==
    ASSUME Inv, NEW o \in Options, NEW flag \in BOOLEAN, SaveOption(o, flag)
    PROVE  Inv'
<1>1. /\ selectable' = [selectable EXCEPT ![o] = flag]
      /\ saves' = saves + 1 /\ saves < MaxSaves
      /\ UNCHANGED <<stock, good, orders, holder, checkout, status, items, call>>
  BY DEF SaveOption
<1>2. CheckoutTypeOK'
  <2>1. selectable' \in [Options -> BOOLEAN]
    BY <1>1 DEF Inv, CheckoutTypeOK
  <2>2. saves' \in 0..MaxSaves
    BY <1>1 DEF Inv, CheckoutTypeOK
  <2> QED
    BY <1>1, <2>1, <2>2 DEF Inv, CheckoutTypeOK
<1>3. OrderedIsClosed'
  BY <1>1 DEF Inv, OrderedIsClosed
<1>4. ASSUME NEW t \in Sessions PROVE Held(t)'
  BY <1>1, Frame
<1> QED
  BY <1>2, <1>3, <1>4 DEF Inv

LEMMA InitInv == CheckoutInit => Inv
<1> SUFFICES ASSUME CheckoutInit PROVE Inv
  OBVIOUS
<1>1. [k \in Skus |-> 0] \in Baskets
  BY DEF Baskets
<1>2. CheckoutTypeOK
  BY <1>1 DEF CheckoutInit, CheckoutTypeOK
<1>3. \A s \in Sessions : ~Reserving(s)
  BY DEF CheckoutInit, Reserving, Idle
<1> QED
  BY <1>2, <1>3 DEF Inv, OrderedIsClosed, Held, CheckoutInit

LEMMA NextKeepsInv == Inv /\ [CheckoutNext]_checkoutVars => Inv'
<1> SUFFICES ASSUME Inv, [CheckoutNext]_checkoutVars PROVE Inv'
  OBVIOUS
<1>1. CASE \E p \in Callers, c \in Carts, k \in Skus, n \in 1..MaxQuantity : BeginAdd(p, c, k, n)
  BY <1>1, BeginAddKeepsInv
<1>2. CASE \E p \in Callers : FinishAdd(p)
  BY <1>2, FinishAddKeepsInv
<1>3. CASE \E p \in Callers, c \in Carts, skus \in Removals : BeginRemove(p, c, skus)
  BY <1>3, RemoveKeepsInv
<1>4. CASE \E p \in Callers : FinishRemove(p)
  BY <1>4, RemoveKeepsInv
<1>5. CASE \E s \in Sessions, c \in Carts : BeginCheckout(s, c)
  BY <1>5, BeginCheckoutKeepsInv
<1>6. CASE \E s \in Sessions : LockCart(s)
  BY <1>6, LockCartKeepsInv
<1>7. CASE \E s \in Sessions, k \in Skus : NextItem(s, k)
  BY <1>7, NextItemKeepsInv
<1>8. CASE \E s \in Sessions : LockRow(s)
  BY <1>8, LockRowKeepsInv
<1>9. CASE \E s \in Sessions : Reserve(s)
  BY <1>9, ReserveKeepsInv
<1>10. CASE \E s \in Sessions : Refuse(s) \/ Abort(s) \/ DeadlockAbort(s)
  BY <1>10, RollbackKeepsInv DEF Refuse, Abort, DeadlockAbort
<1>11. CASE \E s \in Sessions : PlaceOrder(s)
  BY <1>11, PlaceOrderKeepsInv
<1>12. CASE \E r \in Rows, n \in 0..MaxStock, flag \in BOOLEAN : SaveRow(r, n, flag)
  BY <1>12, SaveRowKeepsInv
<1>13. CASE \E o \in Options, flag \in BOOLEAN : SaveOption(o, flag)
  BY <1>13, SaveOptionKeepsInv
<1>14. CASE UNCHANGED checkoutVars
  <2>1. CheckoutTypeOK'
    BY <1>14 DEF checkoutVars, Inv, CheckoutTypeOK
  <2>2. OrderedIsClosed'
    BY <1>14 DEF checkoutVars, Inv, OrderedIsClosed
  <2>3. ASSUME NEW t \in Sessions PROVE Held(t)'
    BY <1>14, Frame DEF checkoutVars
  <2> QED
    BY <2>1, <2>2, <2>3 DEF Inv
<1> QED
  BY <1>1, <1>2, <1>3, <1>4, <1>5, <1>6, <1>7, <1>8, <1>9, <1>10, <1>11, <1>12, <1>13,
     <1>14
  DEF CheckoutNext

\* Every step of a checkout, cart call or vendor is a step of Inventory or invisible to it.
LEMMA NextSells == Inv /\ [CheckoutNext]_checkoutVars => [InventoryNext]_inventoryVars
<1> SUFFICES ASSUME Inv, [CheckoutNext]_checkoutVars PROVE [InventoryNext]_inventoryVars
  OBVIOUS
<1>1. CASE \E s \in Sessions : PlaceOrder(s)
  BY <1>1, PlaceOrderBuys DEF InventoryNext
<1>2. CASE \E r \in Rows, n \in 0..MaxStock, flag \in BOOLEAN : SaveRow(r, n, flag)
  <2>1. PICK r \in Rows, n \in 0..MaxStock, flag \in BOOLEAN : SaveRow(r, n, flag)
    BY <1>2
  <2>2. Restate(r, n, flag)
    BY <2>1 DEF SaveRow, Restate
  <2> QED
    BY <2>2 DEF InventoryNext
<1>3. CASE UNCHANGED <<stock, good, orders>>
  BY <1>3 DEF inventoryVars
<1>4. CASE \E p \in Callers, c \in Carts, k \in Skus, n \in 1..MaxQuantity : BeginAdd(p, c, k, n)
  BY <1>3, <1>4 DEF BeginAdd
<1>5. CASE \E p \in Callers, c \in Carts, skus \in Removals : BeginRemove(p, c, skus)
  BY <1>3, <1>5 DEF BeginRemove
<1>6. CASE \E p \in Callers : FinishAdd(p) \/ FinishRemove(p)
  BY <1>3, <1>6 DEF FinishAdd, FinishRemove
<1>7. CASE \/ \E s \in Sessions, c \in Carts : BeginCheckout(s, c)
           \/ \E s \in Sessions, k \in Skus : NextItem(s, k)
  BY <1>3, <1>7 DEF BeginCheckout, NextItem
<1>8. CASE \E s \in Sessions : LockCart(s) \/ LockRow(s) \/ Reserve(s)
  BY <1>3, <1>8 DEF LockCart, LockRow, Reserve
<1>9. CASE \E s \in Sessions : Refuse(s) \/ Abort(s) \/ DeadlockAbort(s)
  BY <1>3, <1>9 DEF Refuse, Abort, DeadlockAbort
<1>10. CASE \E o \in Options, flag \in BOOLEAN : SaveOption(o, flag)
  BY <1>3, <1>10 DEF SaveOption
<1>11. CASE UNCHANGED checkoutVars
  BY <1>3, <1>11 DEF checkoutVars
<1> QED
  BY <1>1, <1>2, <1>4, <1>5, <1>6, <1>7, <1>8, <1>9, <1>10, <1>11 DEF CheckoutNext

LEMMA InvAlways == CheckoutSpec => []Inv
  BY InitInv, NextKeepsInv, PTL DEF CheckoutSpec

\* The rows keep their shape; no stock becomes negative and no cart is ordered twice.
THEOREM CheckoutShape == CheckoutSpec => []CheckoutTypeOK
<1>1. Inv => CheckoutTypeOK
  BY DEF Inv
<1> QED
  BY <1>1, InvAlways, PTL

\* What a checkout took under its locks is still there when it commits: the cart, and
\* the variant, product, store and stock of every item it checked.  The options of the
\* variant, which _lock_inventory reads without a lock, are not among it.
THEOREM ReservedInvariant == CheckoutSpec => []ReservedIsHeld
<1>1. Inv => ReservedIsHeld
  BY DEF Inv, Held, ReservedIsHeld
<1> QED
  BY <1>1, InvAlways, PTL

\* create_order, with its locks and its unlocked reads, implements the atomic sale of
\* Inventory: at its commit every item is in stock, and its variant, product and store
\* are for sale.  Whether the options of the variant still are, Inventory does not say.
THEOREM SalesRefineInventory == CheckoutSpec => SalesAreAtomic
<1>1. CheckoutInit => InventoryInit
  <2>1. MaxStock \in 0..MaxStock
    OBVIOUS
  <2> QED
    BY <2>1 DEF CheckoutInit, InventoryInit
<1> QED
  BY <1>1, InvAlways, NextSells, PTL DEF CheckoutSpec, SalesAreAtomic, InventorySpec

-----------------------------------------------------------------------------
(* Who holds a row, and who waits.                                          *)

\* Only a checkout that is reserving holds rows.
HoldersReserve ==
    \A r \in Rows \cup Carts : holder[r] # NoSession => Reserving(holder[r])

\* A step that takes rows for reserving checkouts only, and leaves every checkout
\* reserving that keeps one.
LEMMA HoldersStep ==
    ASSUME HoldersReserve,
           \A r \in Rows \cup Carts : holder'[r] # NoSession =>
                \/ checkout'[holder'[r]].phase = "RESERVING"
                \/ holder'[r] = holder[r] /\ checkout'[holder[r]] = checkout[holder[r]]
    PROVE  HoldersReserve'
<1> SUFFICES ASSUME NEW r \in Rows \cup Carts, holder'[r] # NoSession
             PROVE  checkout'[holder'[r]].phase = "RESERVING"
  BY DEF HoldersReserve, Reserving
<1>1. holder'[r] = holder[r] => checkout[holder[r]].phase = "RESERVING"
  BY DEF HoldersReserve, Reserving
<1> QED
  BY <1>1

LEMMA ReleaseHolders ==
    ASSUME Inv, HoldersReserve, NEW s \in Sessions, Release(s)
    PROVE  HoldersReserve'
<1>1. ASSUME NEW r \in Rows \cup Carts, holder'[r] # NoSession
      PROVE  holder'[r] = holder[r] /\ checkout'[holder[r]] = checkout[holder[r]]
  <2>1. holder[r] \in Sessions \cup {NoSession}
    BY DEF Inv, CheckoutTypeOK
  <2>2. holder'[r] = IF holder[r] = s THEN NoSession ELSE holder[r]
    BY DEF Release, Inv, CheckoutTypeOK
  <2>3. holder'[r] = holder[r] /\ holder[r] \in Sessions \ {s}
    BY <1>1, <2>1, <2>2
  <2> QED
    BY <2>3, ReleaseFacts
<1> QED
  BY <1>1, HoldersStep

LEMMA OwnStepHolders ==
    ASSUME Inv, HoldersReserve, NEW s \in Sessions,
           LockCart(s) \/ (\E k \in Skus : NextItem(s, k)) \/ LockRow(s) \/ Reserve(s)
    PROVE  HoldersReserve'
<1>1. /\ checkout \in [Sessions -> Transactions \cup {Idle}]
      /\ holder \in [Rows \cup Carts -> Sessions \cup {NoSession}]
  BY DEF Inv, CheckoutTypeOK
<1>2. CASE LockCart(s) /\ Release(s)
  BY <1>2, ReleaseHolders
<1>3. CASE LockCart(s) /\ ~Release(s)
  <2>1. checkout'[s].phase = "RESERVING" /\ \A t \in Sessions \ {s} : checkout'[t] = checkout[t]
    BY <1>1, <1>3 DEF LockCart
  <2>2. checkout[s].cart \in Carts
    BY <1>3, BegunRecord DEF LockCart, Inv
  <2>3. \A r \in Rows \cup Carts : holder'[r] = s \/ holder'[r] = holder[r]
    BY <1>1, <1>3, <2>2 DEF LockCart
  <2> QED
    BY <1>1, <2>1, <2>3, HoldersStep
<1>4. CASE (\E k \in Skus : NextItem(s, k)) \/ LockRow(s) \/ Reserve(s)
  <2>1. Reserving(s)
    BY <1>4 DEF NextItem, LockRow, Reserve, AllLocked, Pending
  <2>2. checkout[s] \in [phase : {"RESERVING"}, cart : Carts, basket : Baskets,
                         left : SUBSET Skus, item : Skus \cup {NoSku}, locked : Nat]
    BY <2>1, ReservingRecord DEF Inv
  <2>3. checkout'[s].phase = "RESERVING" /\ \A t \in Sessions \ {s} : checkout'[t] = checkout[t]
    <3>1. CASE \E k \in Skus : NextItem(s, k)
      BY <1>1, <2>2, <3>1 DEF NextItem
    <3>2. CASE LockRow(s)
      BY <1>1, <2>2, <3>2 DEF LockRow
    <3>3. CASE Reserve(s)
      BY <1>1, <2>2, <3>3 DEF Reserve
    <3> QED
      BY <1>4, <3>1, <3>2, <3>3
  <2>4. \A r \in Rows \cup Carts : holder'[r] = s \/ holder'[r] = holder[r]
    <3>1. CASE (\E k \in Skus : NextItem(s, k)) \/ Reserve(s)
      BY <3>1 DEF NextItem, Reserve
    <3>2. CASE LockRow(s)
      BY <1>1, <3>2, NextRowIsRow DEF LockRow, Inv
    <3> QED
      BY <1>4, <3>1, <3>2
  <2> QED
    BY <1>1, <2>3, <2>4, HoldersStep
<1> QED
  BY <1>2, <1>3, <1>4

LEMMA NextHolders == Inv /\ HoldersReserve /\ [CheckoutNext]_checkoutVars => HoldersReserve'
<1> SUFFICES ASSUME Inv, HoldersReserve, [CheckoutNext]_checkoutVars PROVE HoldersReserve'
  OBVIOUS
<1>1. CASE UNCHANGED <<holder, checkout>>
  BY <1>1 DEF HoldersReserve, Reserving
<1>2. CASE \E s \in Sessions : LockCart(s) \/ (\E k \in Skus : NextItem(s, k)) \/ LockRow(s) \/ Reserve(s)
  BY <1>2, OwnStepHolders
<1>3. CASE \E s \in Sessions : Release(s)
  BY <1>3, ReleaseHolders
<1>4. CASE \E s \in Sessions, c \in Carts : BeginCheckout(s, c)
  <2>1. PICK s \in Sessions, c \in Carts : BeginCheckout(s, c)
    BY <1>4
  <2>2. ~Reserving(s) /\ holder' = holder /\ \A t \in Sessions \ {s} : checkout'[t] = checkout[t]
    BY <2>1 DEF BeginCheckout, Reserving, Idle, Inv, CheckoutTypeOK
  <2>3. \A r \in Rows \cup Carts : holder[r] # NoSession => holder[r] \in Sessions \ {s}
    BY <2>2 DEF HoldersReserve, Inv, CheckoutTypeOK
  <2> QED
    BY <2>2, <2>3, HoldersStep
<1>5. CASE \/ \E p \in Callers, c \in Carts, k \in Skus, n \in 1..MaxQuantity : BeginAdd(p, c, k, n)
           \/ \E p \in Callers, c \in Carts, skus \in Removals : BeginRemove(p, c, skus)
           \/ \E p \in Callers : FinishAdd(p) \/ FinishRemove(p)
           \/ \E r \in Rows, n \in 0..MaxStock, flag \in BOOLEAN : SaveRow(r, n, flag)
           \/ \E o \in Options, flag \in BOOLEAN : SaveOption(o, flag)
           \/ UNCHANGED checkoutVars
  BY <1>1, <1>5
  DEF BeginAdd, BeginRemove, FinishAdd, FinishRemove, SaveRow, SaveOption, checkoutVars
<1>6. CASE \E s \in Sessions : Refuse(s) \/ PlaceOrder(s) \/ Abort(s) \/ DeadlockAbort(s)
  BY <1>3, <1>6 DEF Refuse, PlaceOrder, Abort, DeadlockAbort
<1> QED
  BY <1>2, <1>4, <1>5, <1>6 DEF CheckoutNext

\* A checkout that has not locked its cart yet, or was refused, or committed, holds no
\* row: only a transaction that is reserving makes others wait (create_order takes its
\* locks inside transaction.atomic and keeps none across it).
THEOREM HoldersInvariant == CheckoutSpec => []HoldersReserve
<1>1. CheckoutInit => HoldersReserve
  BY DEF CheckoutInit, HoldersReserve
<1> QED
  BY <1>1, InvAlways, NextHolders, PTL DEF CheckoutSpec

\* The row a checkout needs for its next step, if it needs one ...
Wanted(s) == IF checkout[s].phase = "BEGUN" THEN checkout[s].cart ELSE NextRow(s)

\* ... and another has: the guard of LockCart or of LockRow is false.
Waiting(s) ==
    /\ checkout[s].phase = "BEGUN" \/ Pending(s)
    /\ holder[Wanted(s)] \notin {s, NoSession}

\* Among checkouts under way that wait for nobody outside, one can go on or is in a
\* circle that the database finds and breaks.
SomeoneMoves ==
    \A D \in SUBSET Sessions :
        (/\ D # {}
         /\ \A s \in D : checkout[s] # Idle /\ (Waiting(s) => holder[Wanted(s)] \in D))
        => \E s \in D : ~Waiting(s) \/ Deadlocked(s)

\* Each waits for one checkout that reserves, so following them from any of them comes
\* to a smallest set that is closed under waiting: a circle.
LEMMA WaitingIsCircular ==
    ASSUME IsFiniteSet(Sessions), Inv, HoldersReserve PROVE SomeoneMoves
<1> SUFFICES ASSUME NEW D \in SUBSET Sessions, D # {},
                    \A s \in D : Waiting(s) /\ holder[Wanted(s)] \in D
             PROVE  \E s \in D : Deadlocked(s)
  BY DEF SomeoneMoves
<1> DEFINE next(s) == holder[Wanted(s)]
           E == {s \in D : Reserving(s)}
           F == {X \in SUBSET E : X # {} /\ \A s \in X : next(s) \in X}
<1>1. ASSUME NEW s \in D PROVE next(s) \in E /\ next(s) # s
  <2>1. Wanted(s) \in Rows \cup Carts
    <3>1. CASE checkout[s].phase = "BEGUN"
      BY <3>1, BegunRecord DEF Wanted, Inv
    <3>2. CASE checkout[s].phase # "BEGUN"
      BY <3>2, NextRowIsRow DEF Wanted, Waiting, Inv
    <3> QED
      BY <3>1, <3>2
  <2>2. next(s) # NoSession /\ next(s) # s
    BY DEF Waiting
  <2>3. Reserving(next(s))
    BY <2>1, <2>2 DEF HoldersReserve
  <2> QED
    BY <2>2, <2>3
<1>2. ASSUME NEW s \in E PROVE WaitsFor(s, next(s))
  <2>1. checkout[s].phase # "BEGUN"
    BY DEF Reserving
  <2> QED
    BY <1>1, <2>1 DEF Waiting, Wanted, WaitsFor
<1>3. E \in F
  BY <1>1
<1>4. F \in SUBSET SUBSET Sessions
  OBVIOUS
<1>5. \A X \in F : X \subseteq E /\ X # {} /\ \A s \in X : next(s) \in X
  OBVIOUS
<1>6. \A X \in SUBSET E : (X # {} /\ \A s \in X : next(s) \in X) => X \in F
  OBVIOUS
<1> HIDE DEF F
<1>7. PICK T \in F : \A U \in F : U \subseteq T => U = T
  BY <1>3, <1>4, MinimalSubset
<1> DEFINE image == {next(s) : s \in T}
<1>8. image \subseteq T /\ image # {} /\ image \subseteq E /\ \A s \in image : next(s) \in image
  BY <1>5
<1>9. image = T
  BY <1>6, <1>7, <1>8
<1>10. /\ \A t \in T : \E u \in T : WaitsFor(t, u)
       /\ \A u \in T : \E t \in T : WaitsFor(t, u)
  <2>1. \A t \in T : next(t) \in T /\ WaitsFor(t, next(t))
    BY <1>2, <1>5
  <2>2. \A u \in T : \E t \in T : u = next(t)
    BY <1>9
  <2> HIDE DEF next
  <2>3. \A t \in T : \E u \in T : WaitsFor(t, u)
    BY <2>1
  <2>4. \A u \in T : \E t \in T : WaitsFor(t, u)
    BY <2>1, <2>2
  <2> QED
    BY <2>3, <2>4
<1>11. T \in SUBSET Sessions /\ T \subseteq D /\ T # {}
  BY <1>5
<1> QED
  BY <1>10, <1>11 DEF Deadlocked

\* Checkouts of a finite number never stand still together: whoever waits waits, over
\* others, for one that can take its next step or for a circle, and a circle is exactly
\* what PostgreSQL finds and ends with an error (_lock_inventory locks rows in the order
\* of the cart's items, so circles do form).
THEOREM WaitingEnds == ASSUME IsFiniteSet(Sessions) PROVE CheckoutSpec => []SomeoneMoves
<1>1. Inv /\ HoldersReserve => SomeoneMoves
  BY WaitingIsCircular
<1> QED
  BY <1>1, InvAlways, HoldersInvariant, PTL

-----------------------------------------------------------------------------
(* The units of a sku.                                                      *)

\* The units of a sku that orders took, over all carts.
Sold ==
    [ordered \in [Carts -> {<<>>} \cup {<<b>> : b \in Baskets}] |-> [k \in Skus |->
        Total([c \in Carts |-> IF ordered[c] = <<>> THEN 0 ELSE ordered[c][1][k]], Carts)]]

\* Until a vendor states a stock anew, every unit is in stock or in an order.
UnitsAccounted ==
    saves = 0 => \A k \in Tracked : stock[k] + Sold[orders][k] = MaxStock

LEMMA UnitsInit == ASSUME IsFiniteSet(Carts) PROVE CheckoutInit => UnitsAccounted
<1> SUFFICES ASSUME CheckoutInit, NEW k \in Tracked PROVE stock[k] + Sold[orders][k] = MaxStock
  BY DEF UnitsAccounted
<1> DEFINE f == [c \in Carts |-> IF orders[c] = <<>> THEN 0 ELSE orders[c][1][k]]
<1>1. orders \in [Carts -> {<<>>} \cup {<<b>> : b \in Baskets}] /\ \A c \in Carts : f[c] = 0
  BY DEF CheckoutInit
<1>2. Sold[orders][k] = Total(f, Carts)
  BY <1>1 DEF Sold
<1> HIDE DEF f
<1>3. Total(f, Carts) = 0
  BY <1>1, TotalZero
<1> QED
  BY <1>2, <1>3 DEF CheckoutInit

LEMMA PlaceOrderAccounts ==
    ASSUME IsFiniteSet(Carts), Inv, UnitsAccounted, NEW s \in Sessions, PlaceOrder(s)
    PROVE  UnitsAccounted'
<1> SUFFICES ASSUME saves = 0, NEW k \in Tracked
             PROVE  stock'[k] + Sold[orders'][k] = MaxStock
  BY DEF UnitsAccounted, PlaceOrder
<1> DEFINE c == checkout[s].cart
           b == checkout[s].basket
           f == [d \in Carts |-> IF orders[d] = <<>> THEN 0 ELSE orders[d][1][k]]
           g == [d \in Carts |-> IF orders'[d] = <<>> THEN 0 ELSE orders'[d][1][k]]
<1>1. c \in Carts /\ b \in Baskets /\ Buy(c, b)
  BY PlaceOrderBuys
<1>2. /\ orders \in [Carts -> {<<>>} \cup {<<x>> : x \in Baskets}]
      /\ orders' \in [Carts -> {<<>>} \cup {<<x>> : x \in Baskets}]
      /\ stock[k] \in Int
  BY PlaceOrderKeepsInv DEF Inv, CheckoutTypeOK
<1>3. stock'[k] = stock[k] - b[k] /\ b[k] \in Int
  BY <1>1 DEF Buy, Baskets
<1>4. orders[c] = <<>> /\ orders'[c] = <<b>> /\ \A d \in Carts \ {c} : orders'[d] = orders[d]
  BY <1>1, <1>2 DEF Buy
<1>5. f[c] = 0 /\ g[c] = b[k] /\ \A d \in Carts \ {c} : f[d] = g[d]
  <2>1. f[c] = 0 /\ \A d \in Carts \ {c} : f[d] = g[d]
    BY <1>1, <1>4
  <2> HIDE DEF b
  <2>2. orders'[c] # <<>> /\ orders'[c][1] = b
    BY <1>4
  <2>3. g[c] = orders'[c][1][k]
    BY <1>1, <2>2
  <2> QED
    BY <2>1, <2>2, <2>3
<1>6. \A d \in Carts : f[d] \in Int /\ g[d] \in Int
  BY <1>2 DEF Baskets
<1>7. Sold[orders][k] = Total(f, Carts) /\ Sold[orders'][k] = Total(g, Carts)
  BY <1>2 DEF Sold
<1> HIDE DEF f, g, b, c
<1>8. Total(g, Carts) = Total(f, Carts) - f[c] + g[c]
  BY <1>1, <1>5, <1>6, TotalUpdate
<1>9. Total(f, Carts) \in Int
  BY <1>6, TotalIsInteger
<1>10. stock[k] + Sold[orders][k] = MaxStock
  BY DEF UnitsAccounted
<1> QED
  BY <1>2, <1>3, <1>5, <1>7, <1>8, <1>9, <1>10

LEMMA NextAccounts ==
    ASSUME IsFiniteSet(Carts)
    PROVE  Inv /\ UnitsAccounted /\ [CheckoutNext]_checkoutVars => UnitsAccounted'
<1> SUFFICES ASSUME Inv, UnitsAccounted, [CheckoutNext]_checkoutVars PROVE UnitsAccounted'
  OBVIOUS
<1>1. CASE \E s \in Sessions : PlaceOrder(s)
  BY <1>1, PlaceOrderAccounts
<1>2. CASE \/ \E r \in Rows, n \in 0..MaxStock, flag \in BOOLEAN : SaveRow(r, n, flag)
           \/ \E o \in Options, flag \in BOOLEAN : SaveOption(o, flag)
  <2>1. saves' = saves + 1 /\ saves \in Nat
    BY <1>2 DEF SaveRow, SaveOption, Inv, CheckoutTypeOK
  <2> QED
    BY <2>1 DEF UnitsAccounted
<1>3. CASE UNCHANGED <<stock, orders, saves>>
  BY <1>3 DEF UnitsAccounted
<1>4. CASE \/ \E p \in Callers, c \in Carts, k \in Skus, n \in 1..MaxQuantity : BeginAdd(p, c, k, n)
           \/ \E p \in Callers, c \in Carts, skus \in Removals : BeginRemove(p, c, skus)
           \/ \E p \in Callers : FinishAdd(p) \/ FinishRemove(p)
           \/ UNCHANGED checkoutVars
  BY <1>3, <1>4 DEF BeginAdd, BeginRemove, FinishAdd, FinishRemove, checkoutVars
<1>5. CASE \/ \E s \in Sessions, c \in Carts : BeginCheckout(s, c)
           \/ \E s \in Sessions, k \in Skus : NextItem(s, k)
           \/ \E s \in Sessions : LockCart(s) \/ LockRow(s) \/ Reserve(s)
           \/ \E s \in Sessions : Refuse(s) \/ Abort(s) \/ DeadlockAbort(s)
  BY <1>3, <1>5
  DEF BeginCheckout, NextItem, LockCart, LockRow, Reserve, Refuse, Abort, DeadlockAbort, cartVars
<1> QED
  BY <1>1, <1>2, <1>4, <1>5 DEF CheckoutNext

\* Selling neither loses nor makes units: as long as no vendor has stated a stock anew,
\* what is in stock and what the orders of all carts took add up to the stock the sku
\* began with (_lock_inventory subtracts quantities and the rollback of a failed
\* checkout puts back all of them).
THEOREM UnitsInvariant == ASSUME IsFiniteSet(Customers) PROVE CheckoutSpec => []UnitsAccounted
<1>1. IsFiniteSet(Carts)
  <2>1. IsFiniteSet(1..MaxCarts)
    BY FS_Interval
  <2> QED
    BY <2>1, FS_Product DEF Carts
<1>2. CheckoutInit => UnitsAccounted
  BY <1>1, UnitsInit
<1>3. Inv /\ UnitsAccounted /\ [CheckoutNext]_checkoutVars => UnitsAccounted'
  BY <1>1, NextAccounts
<1> QED
  BY <1>2, <1>3, InvAlways, PTL DEF CheckoutSpec

====
