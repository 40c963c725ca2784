# SolidTrack, specified

TLA+ specifications of the delivery platform SolidTrack (Django, Celery, PostgreSQL): how a cart
becomes an order, how the order is paid, how a store's part of it is prepared, how a rider is
found for it and hands it over, what happens when somebody gives up on the way, where the money
goes, and what the shop learns about its visitors' addresses. TLC checks the specifications on
small instances; TLAPS proves the invariants for every number of customers, riders, deliveries,
offers, checkouts, votes and so on.

| file | what it is |
|---|---|
| `Dispatch.tla` | finding a rider and the assignment lifecycle (`deliveries/dispatch/`) |
| `RiderAllocation.tla` | what dispatching promises, abstractly; `Dispatch` implements it |
| `DispatchProofs.tla` | theorems about `Dispatch` |
| `Fulfillment.tla` | preparation, handover, cancellation and failure (`order/services/order_fulfillment_service.py`), on top of `Dispatch` |
| `FulfillmentProofs.tla` | theorems about `Fulfillment`, among them that it implements `Dispatch` |
| `Scoring.tla` | what the dispatch strategies read and how riders are ranked (`deliveries/dispatch/strategies/`, `scorer.py`, `rider_ranker.py`); `Dispatch` extends it |
| `Checkout.tla` | carts, stock and `create_order` with its row locks (`cart/`, `checkout/`) |
| `Inventory.tla` | what a sale promises, abstractly; `Checkout` implements it |
| `CheckoutProofs.tla` | theorems about `Checkout`, among them that it implements `Inventory` |
| `Payment.tla`, `PaymentProofs.tla` | virtual accounts, initialisation, verification, webhooks (`order/services/payment_service.py`) |
| `Settlement.tla`, `SettlementProofs.tla` | wallets, rider earnings, refunds (`wallet/`, `riders/services/`, `common/services/refund_service.py`) |
| `Accounts.tla` | what wallets promise, abstractly; `Settlement` implements it |
| `IpLearning.tla`, `IpLearningProofs.tla` | the table of addresses and states (`common/utils/ip_learning.py`) |
| `FiniteSums.tla` | lemmas about sums over finite sets and about finite sets, for the proofs of `Settlement` and `Checkout` |
| `MC*.tla`, `*.cfg` | the instances TLC checks |

To run: `tlc -workers 2 -config dispatch_race.cfg MCDispatch`, `tlapm DispatchProofs.tla`.

## 1. The system

One process type matters: Django request threads and Celery workers, all over one database.
They share nothing but rows. A method decorated `transaction.atomic` commits as a whole and
locks the rows it decides on with `select_for_update`; `transaction.on_commit` callbacks and
Celery tasks run after it, in autocommit.

| component | state | operations | what is hard | what makes it correct |
|---|---|---|---|---|
| **Dispatch** (`coordinator.py`, `pipeline.py`, `eligibility.py`, `matcher.py`, `offer.py`) | `Delivery.status`, `DeliveryOffer` rows, configuration | `delivery_created`, `dispatch`, `respond_to_offer`, `offer_expired`, `cancel_offer`, redispatch | `dispatch()` is not a transaction; several run for one delivery; late answers race the expiry sweep; crashes | an answerable offer is for an open delivery, an answer is final, every rider who can be found is tried |
| **Assignment** (`assignment.py`) | the one `DeliveryAssignment` row of a delivery, `RiderProfile.is_available`, `Delivery.status` | `assign`, `accept` … `complete`, `cancel_by_admin`, `restart_cancelled_assignment`, `cancel_fulfillment` | the row is reused; two rows must move together; a rider has offers of several deliveries | a rider carries one delivery, is available exactly if he carries none, row and delivery agree |
| **Fulfillment** (`order_fulfillment_service.py`) | `OrderFulfillment`, `Package`, `OrderItem`, OTP and its attempts, `Order.status` | processing, packing, packages, ready for dispatch, OTP verification, `cancel`, `vendor_cannot_fulfill` | cascades that swallow their exceptions; vendor, rider and staff act at once; partial failure | never backwards, never half packed, a code only on the way, the order says what its parts say |
| **Payments** (`payment_service.py`) | `OrderPayment`, `Order.payment_status` | `generate_dva`, `initialize_transaction`, `verify_transaction`, webhooks | the provider repeats, delays and half fails; the reference is replaced while a charge is under way | paid exactly if settled, only what was charged, settled once, no charge forgotten |
| **Wallet, earnings, refunds** (`wallet_service.py`, `rider_earning_service.py`, `refund_service.py`, `wallet/tasks.py`) | `Wallet`, `WalletTransaction`, `RiderEarning` | credit, debit, deposit, withdraw, settle, refund, retry | look-up before the lock; overlapping and dying task runs; partial refunds | the ledger replays to the balance, each reference moves money once |
| **Checkout, cart, inventory** (`checkout_service.py`, `cart_service.py`) | `Cart`, `CartItem`, stock, the order's rows, row locks | `create_order`, `add_item`, `remove_item`, `clear_cart`, vendors' saves | stock is taken item by item under locks taken in any order; cart calls act on what they read | no oversell, a cart ordered once and as it stood, every checkout ends |
| **Learned addresses** (`ip_learning.py`, `common/tasks.py`, `common/admin.py`) | `IPStateMapping` | a vote, the daily cleanup, deletion by staff | the order of votes, rows that expire and are learned anew | trust only from enough distinct users, not lost to a few others |
| **Scheduled tasks** (`deliveries/tasks.py`, `order/tasks.py`, `wallet/tasks.py`) | none | expiry sweep (60 s), OTP sweep, scheduled dispatch, refund retry, earnings settlement | overlap with everything else | what they are for eventually happens |
| Pricing, geolocation providers, notifications, history, timeline, analytics, accounts, vendors, customers, communications, chat | records, profiles | CRUD, arithmetic, append | – | – |

How they interact: `create_order` turns the active cart into an order with its fulfillments and
its payment; a settled payment makes the order `PAID`, which is what `start_processing` asks for;
`mark_ready_for_dispatch` creates the delivery in its transaction; the
delivery's `on_commit` hook calls `dispatch()`; an offer's acceptance calls `assign`; `assign` and
`start_delivery` cascade into the fulfillment (`mark_dispatched`, `mark_out_for_delivery`);
`verify_delivery_otp` calls `complete`, closes the fulfillment and recalculates the order;
`cancel` and `vendor_cannot_fulfill` call `cancel_fulfillment`, the latter also the refund;
`complete` creates the rider's earning, which the periodic task credits to his wallet.

## 2. The modules and the code

### Dispatch

| variable | code |
|---|---|
| `delivery[d]` | `Delivery.status`, `"ABSENT"` before the row exists |
| `assignment[d]` | the `DeliveryAssignment` row: `status`, `rider`, `is_active`; `"NONE"` before it exists |
| `offer[o]` | a `DeliveryOffer` row; `late` is `expires_at <= now()`; `"FREE"` identities are rows not created |
| `profile[r]` | `is_available`, and `online` for everything else that matching asks of a rider (online, approved, suspended, location) |
| `worker[w]` | a thread or process inside `dispatch()`: where it is and what it has read |

Handlers that are one transaction are one action. `dispatch()` is none: its statements commit one
by one, so a worker takes it in steps that interleave with all others – `DispatchRead`
(delivery and excluded riders; the row lock ends with the statement),
`SetDeliveryWaitingForRider` (decides on what was read, writes over what is there),
`FindMatches` (one radius per step), `CreateOffer`/`ExcludeRider` (one candidate per step;
`DeliveryOfferService.create` is a transaction of its own), `NoRiderRemains`. `Crash` ends a
worker anywhere. `Redispatch` after a rejection or an expiry runs in the worker that answered.

The matches of a radius are tried in the order of `Ranked`: nearest first, riders at the same distance in
any order. `Strategy` is the configured strategy. `Scoring` names what each one reads from a
`RiderMatch`; all but `NEAREST` read an attribute that class does not have, so a dispatch that
found riders ends there with the delivery still waiting, and only `NEAREST` has an order to model. All runs
but `dispatch_strategy` have `Strategy = "NEAREST"`.

Left open (nondeterministic): when a
rider goes online or offline; which rider, vendor or staff member acts when. Left out: texts,
timestamps but the one comparison with `expires_at`, history, timeline, notifications.

`RowLocks` is the backend. Locks of a delivery row are
`select_for_update().select_related("customer", "vendor", "pickup_store")`
(`coordinator.py:535`, likewise in `offer.py` and `assignment.py`), and vendor and store are
nullable. SQLite (`config/test_settings.py`) ignores `FOR UPDATE`; PostgreSQL
(`config/settings.py`) refuses it on the nullable side of an outer join, and Django refuses it
outside a transaction. With `RowLocks = TRUE` every such handler therefore raises, and nothing
moves (`dispatch_postgres.cfg`). All other runs have `RowLocks = FALSE`; transactions are atomic
there as SQLite, which has one writer, makes them. The proofs do not depend on its value.

### RiderAllocation

Two variables, who carries what and what was carried to its end; three actions, allocate to a
free rider, release, finish. `Dispatch` maps `carrier[d]` to the rider of the active assignment
and `finished` to the completed ones.

### Fulfillment

A fulfillment has one delivery at most, so both are named by the same element of `Deliveries`,
which are the parts of one order.

| variable | code |
|---|---|
| `fulfillment[f]` | `OrderFulfillment`: `status`, whether an OTP is issued (`otp`), `attempts`; `pending`, the order items still `PENDING` |
| `package[f][b]` | `Package.status` |
| `order` | `Order.status`, and whether it is paid |
| `wrong[f]` | wrong codes submitted: history, not a column; counted up to `OtpMaxAttempts` |

Actions are the service's methods with all they call: `ReadyForDispatch` contains
`DeliveryCreated`; `AcceptOfferCascading` and `StartDeliveryCascading` are Dispatch's steps with
their cascade into the fulfillment; `VerifyDeliveryOtp` contains `Complete`; `Cancel` and
`VendorCannotFulfill` contain the cancellation of the delivery. A cascade that is refused is
swallowed, so it changes nothing and the step goes on. Every step is a step of `Dispatch` or
leaves its variables alone: that is `DispatchSpec`, checked and proved, so every invariant of
`Dispatch` holds here too. The money that `vendor_cannot_fulfill` gives back is in `Settlement`; here is what it does
to the items, the fulfillment and the delivery.

### Checkout and Inventory

| variable | code |
|---|---|
| `status[c]`, `items[c]` | `Cart.is_active` and the `CartItem` rows; a cart is named by its customer and its number |
| `stock[k]` | `stock_quantity` of a sku: a variant, or a product without variants |
| `good[r]` | whether the flags of a variant, product or store row let its skus be sold |
| `selectable[o]` | `is_active` of an option or an option value; `OptionsOf[k]` are those a variant is made of |
| `orders[c]` | the baskets ordered from a cart |
| `holder[r]` | the transaction that has the row of a cart, variant, product or store locked |
| `checkout[s]` | a `create_order` under way: its cart, the basket it read, the items left, the item whose rows it is locking |
| `call[p]` | an `add_item`, `remove_item` or `clear_cart` between its read and its write |

`create_order` is one transaction, so what it writes appears at once (`PlaceOrder`) or never (`Refuse`,
`Abort`, `DeadlockAbort`); but it takes its row locks one after the other, and other transactions
run between. So `LockCart`, `NextItem`, `LockRow` and `Reserve` are steps of their own. The
order of the items is the order in which they came into the cart, hence any. PostgreSQL finds a
circle of waiting transactions and ends one; that is the abstraction's one assumption about
the database, besides row locks that are granted in turn. `SaveRow` is a vendor's or an
administrator's save: Django writes all columns, so it may state any stock and any flags,
but it waits for the row's lock. `SaveOption` is their save or deletion of an option or one of its values, which waits for
nothing: `can_be_purchased` reads those rows without a lock, once, when the item is checked (`Purchasable`). `add_item`
inserts with foreign keys to cart, variant and product, whose `FOR KEY SHARE` locks wait for `FOR UPDATE` (`Referenced`); raising the
quantity of an item that is there does not. An insert that another call was first to make fails on its unique constraint
(`missing` is what `add_item` saw); an item removed and inserted anew between those two moments is not told apart.

`Inventory` has no transactions: an order is placed at one instant, for all of its basket, at most
once for a cart, when all of it is in stock and its variants, products and stores are for sale at that instant. The refinement leaves
`stock`, `good` and `orders` as they are; what it says is that the checks made long before the
commit still hold at the commit, as far as they look at rows that are locked. Whether an option was turned off since its check is
no part of `Inventory`: it may be (`checkout_options.cfg`, section 5).

### Payment

`payment[o]` is the `OrderPayment` row: method, status, which kind of reference it carries and which
keys of `gateway_response` later calls look for. `accounts` and `charges` are the provider's: virtual
accounts it made, charges that succeeded. Each method of `PaymentService` locks its payment for
its whole length, so each is one action; the provider's part of it is a choice (an account made and the
answer lost, several accounts made by the client's repeated request, nothing). Charges under a reference stay possible
after the reference was replaced. `HandleChargeSuccess` may take any charge any number of times.
Amounts are not compared by the code and not modelled. Payment by wallet raises in every
checkout (`WalletService.debit` is given a user) and leaves nothing behind.

### Settlement

| variable | code |
|---|---|
| `wallet[w]`, `ledger[w]` | a `Wallet` row, `owner` its unique `user` or `"NONE"` before it exists, and its `WalletTransaction` rows; in each the user it was for then is history |
| `stated[w]`, `saves` | history: the balance staff last saved and the rows there were then; how often they saved |
| `earning[e]` | a `RiderEarning`; numbered by `created_at` |
| `aged` | how many earnings are older than `SETTLEMENT_DELAY_MINUTES` |
| `batch[w]` | the earnings a run of `settle_rider_earnings` has still to settle |
| `unavailable[f]` | the items of a fulfillment its vendor gave up |
| `call[c]` | a `credit` or `debit` between its look-up and its lock |

Amounts are integers in kobo; `RoundedQuotient` is `quantize`, half to even. `settle`, `refund_fulfillment`,
`deposit` and `withdraw` hold the wallet's lock from before they look for their reference, so they
are one step; `credit` and `debit` look first and lock afterwards, so they are two. A run of the task settles its batch in transactions
of their own, may die between two of them, and overlaps with the next run.

`WalletAdmin` is a plain `ModelAdmin` (`wallet/admin.py:5`): its form shows user, balance and `is_active` and writes all of
them, under no lock and without a transaction row, from what it showed when it was opened. So `SaveWallet` may write any
owner without another wallet and any balance. The ledger then explains balances only from the last such save on, which is
what `LedgerReplays` and `BalanceInvariant` say; what the service's docstring says, that every change is recorded, is
`EveryChangeRecorded`, and it does not hold (section 5).

`VendorCannotFulfill` refunds what is unavailable by then, not only what the call adds: as long as that is worth nothing, because it is perishable
or a discount exceeds it, no row is written and the next call computes anew. With the first row the refund of the
fulfillment is closed. `FirstLossIsRefunded` says all of that.

`Accounts` has no locks, look-ups or retries: under a reference money moves at most once, in one account, which it
does not overdraw; besides, staff may state a balance. The refinement (`MoneyMovesOnce`) maps `balance` to the balances of the wallets, `moved` to
what the transactions of all ledgers record, each as reference, wallet and signed change, and `statements` to `saves`.

### IpLearning

`mapping[ip]` is the row: `state`, `confidence_count`, the voters per state (`evidence`), and whether its
last vote is older than `MAPPING_TTL_DAYS` (`stale`). `verified` is `is_phone_verified`. `picks` is
history, not a column: who selected which state on which address while verified. A vote locks its row
throughout, so `RecordSelection` is one step. Private addresses are never recorded and have no
element in `IPs`. The request also saves the selection to `User.state`; nothing here reads it.

## 3. What TLC checks

| run | question | instance | result |
|---|---|---|---|
| `dispatch_race` | two `dispatch()` calls for one delivery interleave statement by statement with answers, expiry, cancellation, restart, crash | 1 delivery, 2 riders, 3 offers, 2 workers | offers stay answerable, unique and final; an assignment comes from an accepted offer; the only status that ever stands wrongly beside an active assignment is a late `WAITING_FOR_RIDER` |
| `dispatch_exclusive` | deliveries compete for riders | 2 deliveries, 2 riders, 3 offers, 1 worker | one delivery per rider, availability exact, `RiderAllocation` implemented |
| `dispatch_live` | does dispatching get anywhere | 1 delivery, 2 riders at different radii, 2 offers, 1 worker, no crash | every created delivery is dispatched, offers are closed, each rider who can be found is tried |
| `dispatch_strategy` | the same with the default strategy | as above, `BALANCED` | **violated**: a rider who is found is never tried |
| `fulfillment_packing` | one fulfillment from payment to delivery, with everything that can go wrong | 2 items, 2 packages, 2 riders, 2 offers, 2 attempts, crashes | nothing half packed, code exactly on the way, never backwards |
| `fulfillment_order` | an order of two fulfillments | 1 item and package each, 1 rider, 2 offers | fulfillment, assignment and order agree; `Dispatch` implemented |
| `checkout_sales` | checkouts, cart calls and a vendor's save interleave over two variants of one product | 2 customers, 2 checkouts, 1 cart call, 2 units of stock, 1 save of a row or an option | what was taken under locks is still there at the commit; sales are atomic |
| `checkout_ends` | do checkouts that wait for each other end | as above, 1 unit, no save | each ends, with an order or without |
| `checkout_cart` | is a closed cart left alone | as above | **violated**: an item lands in a cart that was ordered meanwhile |
| `payment_live` | two orders, the provider repeats, delays and half fails | 2 orders, 2 accounts each | paid exactly if settled, only what was charged, settled once, every charge recorded |
| `settlement` | runs of the task overlap and die, calls repeat a reference, refunds in parts | 2 users, 2 earnings, 2 workers with batches of 1, 1 crash, 1 caller who debits, 1 save by staff, 1 fulfillment with a perishable and two durable items and a discount above its fees | the ledger replays, references are unique, settled exactly if credited, the refund comes with the first loss worth anything and stays, `Accounts` implemented; riders are paid unless starved |
| `ip_learning` | votes in any order, phones verified and unverified, rows expire and are cleared | 5 users, 1 address, 2 states, the code's thresholds (3 votes, margin 3) | one vote per user, trust is earned and kept, no challenger left ahead |

Further instances beside these are not among the runs of `PROJECT.json`. These show observations of section 5; each ends with a counterexample to its one property:
`dispatch_postgres` (`CreatedIsDispatched` with `RowLocks`), `dispatch_reuse` (`ReuseOnlyAfterRestart`),
`fulfillment_otp` (`AttemptsCounted`), `fulfillment_direct` (`CompletedIsConfirmed`), `fulfillment_cancelled`
(`AllDeliveredMeansOrder`), `payment_dva` (`StoredDvaIsReused`), `checkout_options` (`ReservedIsPurchasable`), `settlement_refund`
(`AllLossesRefunded`), `settlement_staff` (`EveryChangeRecorded`). `settlement_credits` is `settlement` with credits and deposits
besides debits, the safety properties only, and passes.

**Bounds.** `Offers` bounds the number of offer rows in a behaviour, `OtpMaxAttempts` the wrong
codes, `MaxCarts`, `MaxQuantity`, `MaxStock` and `MaxSaves` what customers, vendors and staff do, `WalletCount` the wallets, `Balances` what staff enter, `MaxAccounts` the accounts of
an order, `MaxCrashes` the runs that die, `Keys` the references of callers. Nothing else is cut. The properties
of `Dispatch` relate two offers, two deliveries of one rider, or two
workers; three offers allow one that is closed beside two that are open, or a reassignment after
a cancellation with a competing offer left. Two workers are one that is stale and one that
overtakes it; a third could only do what one of them did. Radii 2 and 3 with riders at 1 and 3
make the radius loop find one rider first and the other only at the maximum (`dispatch_exclusive`,
which asks nothing of the radius, searches the maximum at once). Two checkouts over two skus are the
smallest circle of waiting; both lock the store's row as well, so one item locked is enough to
block. A batch of one and two earnings make starvation and overlap possible; commissions of 50 % and a hundredth above round the first fee to all of it and to
nothing. A discount above the fees makes the refund of the first items nothing or negative. `settlement` only debits, which keeps its
liveness within reach; credits are in `settlement_credits` and in the proofs. Five users give an incumbent one vote and a challenger the four it
needs. `ip_learning` leaves larger numbers to the proofs, as all runs do.

Identities without
meaning (offers, workers, packages, callers, customers, users, states) are symmetric, in runs without liveness.
Deadlock is checked in all runs but those of `Checkout`, where a customer who has ordered and has no
cart left is at the end.

**Fairness.** `FairSpec` (`dispatch_live`, `dispatch_strategy`): a running `dispatch()`
goes on (`WF` of its step: there is no wait in it); time passes (`WF DeadlinePasses`); and an offer
whose time has passed is expired (`SF ExpireOffer`): Celery beat starts `expire_stale_offers` every
60 seconds (`config/settings.py`, `CELERY_BEAT_SCHEDULE`), each time it looks at all pending
offers past their time, and a process is idle again and again. Nothing is assumed of riders, vendors or staff.
`EveryRiderIsTried` is conditional: it speaks of a rider who stays findable while nobody takes,
cancels or withdraws the delivery. It does not hold with crashes: a worker that dies in
`dispatch()` leaves a `WAITING_FOR_RIDER` delivery that no task looks for.

`FairPaymentSpec`: the provider repeats a `charge.success` webhook until it is answered. Nothing is assumed of
customers, and nobody has to ask for a verification.

`FairSettlementSpec`: Celery beat starts a run every 15 minutes, time passes, and a run that does not die goes on. `EarningIsPaid`
excepts an earning behind as many older ones of nothing as a batch takes: those are refused by
`RiderEarning.clean` each time, remain the oldest, and fill every batch.

`FairCheckoutSpec`: a request goes on; the database grants a lock that is free again and again
(`SF`: PostgreSQL queues the waiters of a row) and ends one of a circle of waiting checkouts.

## 4. What is proved

For every choice of the constants that satisfies the named assumption of the module
(`ConfigurationAssumption`, `FulfillmentAssumption`, `CheckoutAssumption`, `PaymentAssumption`,
`SettlementAssumption`, `IpAssumption` with `NoMappingAssumption`). Riders, deliveries, offers, wallets and so on may be
infinitely many. What is finite is what a proof counts: the users whose votes are counted (`IpAssumption`), the items of a
fulfillment that are refunded (`SettlementAssumption`; their prices are not negative, which
`OrderItem.clean` demands, `order_item.py:481`), and, as hypotheses of these theorems alone, the checkouts of `WaitingEnds` and the customers
of `UnitsInvariant`.

| theorem | says |
|---|---|
| `ShapeInvariant`, `LinksInvariant` | `TypeOK`, `RowsLinked` |
| `RiderExclusivity`, `AvailabilityInvariant`, `WorkloadIsAtMostOne` | a rider carries one delivery at most; available exactly if none; his workload is 0 or 1 |
| `Refinement` | `Dispatch` implements `RiderAllocation` |
| `OfferInvariant`, `PendingOffersDistinct` | every pending offer is for a delivery that can still be given; no rider has two of one delivery |
| `AnswersAreFinal`, `AcceptedInvariant` | an answered offer never changes; an assignment that lasts rests on its rider's acceptance |
| `InStepOrResetInvariant` | delivery and assignment agree, unless a dispatch put the delivery back |
| `NearestAlone`, `NearestOrder`, `NearestFirst` | only `NEAREST` can score; it ranks by distance; each offer goes to the nearest rider not tried yet |
| `BrokenStrategyOffersNothing`, `LocksStopDispatch` | with any other strategy, and with row locks, no offer is ever made |
| `DispatchImplemented` | `Fulfillment` implements `Dispatch` |
| `FulfillmentShape`, `ForwardOnly` | shape; never backwards |
| `OtpInvariant` | a code exists exactly while the fulfillment is out |
| `InStepInvariant` | a live fulfillment and its assignment agree |
| `PackedInvariant` | nothing half packed |
| `OrderInvariant` | the order reads `DELIVERED` only rightly |
| `ItemsInvariant` | failed exactly with the last item |
| `AttemptsNeverCount` | the stored number of wrong codes stays 0 |
| `UnpaidInvariant`, `DeliveryIsComplete` | nothing moves for an unpaid order; what reads `DELIVERED` is delivered in every other row |
| `NothingIsDelivered` | with a strategy that cannot score, or with row locks, nothing is ever delivered |
| `CheckoutShape` | shape: no stock negative, no cart ordered twice |
| `ReservedInvariant` | what a checkout took under its locks is its own, on sale as far as the locked rows say, and in stock until it ends |
| `SalesRefineInventory` | `Checkout` implements `Inventory` |
| `HoldersInvariant`, `WaitingEnds` | only who is reserving holds locks; checkouts never stand still together |
| `UnitsInvariant` | stock and ordered units add up to the initial stock until a vendor restates one |
| `PaymentShape`, `PaidInvariant`, `ChargedInvariant` | shape; an order is paid exactly if its payment is settled, and only if it was charged |
| `SettlementIsFinal` | a settled payment is not touched again |
| `SettlementShape` | shape: no wallet overdrawn |
| `LedgerInvariant`, `UniqueInvariant` | the ledger replays from what staff last saved to the balance; no reference twice |
| `SettledInvariant` | an earning is settled exactly if it is credited, with its net amount |
| `WalletsImplementAccounts` | `Settlement` implements `Accounts` |
| `FirstLossRefunded`, `RefundInvariant` | the refund comes with the first loss worth anything, is all that is then due and never changes; there is one exactly if what is unavailable is worth something, never above that |
| `BalanceInvariant` | a balance is what staff last saved plus the sum of the changes since |
| `CommissionFits`, `RiderPayInvariant` | the rounded commission is within half a kobo and never above the fee; a rider is paid the fee less such a commission, in his own wallet |
| `EarningsAreFinal` | the amount of an earning never changes, its status not after `SETTLED` or `FAILED` |
| `IpShape`, `VotesAreSingle` | shape; one vote per user and address |
| `TrustInvariant` | a trusted state was picked by `MIN_CONFIDENCE` distinct users, by the history |
| `ChallengerInvariant`, `TrustOnlyGrows` | no challenger left ahead by the margin; confidence falls only with the row |
| `FlipNeedsMajority` | a learned state gives way to another only for threshold plus margin of distinct users |

The arguments:

- **Shape.** `TypeOK` alone is not inductive: the riders a dispatch excludes are those of offer
  rows, and what a worker writes to must exist. The induction is on `TypeOK /\ RowsLinked`,
  regrouped by variable (`Fine`), because most steps touch one variable only.
- **Exclusivity.** Neither half is inductive. `assign` keeps a rider to one delivery partly by
  `is_available`, and `complete` and `cancel_by_admin` make him available again rightly only
  because what he gives up was all he had. `Exclusive`, the conjunction, is.
- **Refinement.** Under `Fine /\ Exclusive` an acceptance is `Allocate`, `complete` is `Finish`,
  `cancel_by_admin` is `Release`, and every other step stutters.
- **Offers.** `PendingOfferOpen` and `OnePendingOfferPerRider` are proved together (`OffersOpen`).
  An acceptance withdraws the offers to other riders but none to the rider himself; that
  none of those is left is what uniqueness says. A stale `WAITING_FOR_RIDER` does no harm because
  that status can receive an offer wherever any status could.
- **Answers.** Every step writes new or pending offers only, so an acceptance is still there while the
  assignment it made lasts (`NextKeeps`, `NextAccepted`).
- **Statuses.** A lifecycle step writes delivery and assignment together or ends the assignment
  (`AdvanceKeepsStep`); only a dispatch with a stale instance writes one alone, and then a status the
  property names (`NextKeepsStep`).
- **Strategies and locks.** Without a strategy that can score no worker gets to the step that offers; with row locks the first
  statement of `dispatch()` raises, as does every other handler that locks a delivery. Either way there is no offer, so no
  assignment (`NextNoCandidates`, `NextLocksRefused`). Composed with `DispatchImplemented` this says that no fulfillment
  gets past `READY_FOR_DISPATCH` (`NothingIsDelivered`).
- **Composition.** Each action of `Fulfillment` is an action of `Dispatch` or leaves its variables
  alone (`StepIsDispatch`), so `Fine` and every theorem about `Dispatch` holds for the whole.
- **Fulfillment.** One lemma (`StepForward`) describes every step by the one row it changes and
  how (`Forward`): shape, `ForwardOnly`, `OtpInvariant` and the second half of `OrderInvariant` (what was
  all delivered stays so) follow from it. `FulfillmentInStep` is inductive given the two shape
  invariants. Its crux is that the cascades, though best effort, are never refused where it matters:
  an offer is accepted only for an existing delivery without an assignment or with a cancelled one,
  which stands beside `READY_FOR_DISPATCH` or `DISPATCHED`; and `PICKED_UP` stands only beside
  `DISPATCHED`. `NothingHalfPacked` holds although `mark_package_packed` and `mark_package_ready` do not
  look at the fulfillment: from `READY_FOR_DISPATCH` on no package is in a status they accept. Only the first steps ask whether
  the order is paid; the later ones need not, because they need what the earlier ones leave (`NothingMovesUnpaid`), and a paid
  order stays paid (`PaidStays`). `DeliveryIsComplete` joins these invariants at the one status that closes the order.
- **Checkout.** `ReservedIsHeld` needs the rows of the item a checkout has got half way through
  (`ItemRowsHeld`): only when the last of them is locked do the checks of `Reserve` hold for all. Two
  checkouts never hold one row, since `holder` is a function, and a vendor's save waits; so nothing that was checked in a locked row changes
  before the commit; options are in no lock, and nothing here speaks of them. With `OrderedIsClosed` a cart that is active was not ordered. `PlaceOrder`
  is then `Buy`, `SaveRow` is `Restate`, and all other steps stutter, `SaveOption` among them.
- **Waiting.** If every checkout waited, and for another, take a smallest nonempty set of checkouts in which each waits for
  one of the set (`MinimalSubset`): it is a circle, which the database breaks (`WaitingIsCircular`). `HoldersReserve` excludes the
  other way to wait for ever, a lock whose holder has ended. `SomeoneMoves` states guards, not `ENABLED`; what
  needs fairness besides is left to `CheckoutEnds`.
- **Units.** `UnitsAccounted` adds a sku's stock and the quantities of all ordered baskets. `PlaceOrder` is the only step that moves units,
  from stock into one cart's orders, a cart that was not ordered; `TotalUpdate` carries that over to the sum.
- **Payment.** The conjunction of the three invariants (`PaymentInv`) is inductive; the crux is that `Settle` is only reached
  from a charge of this very order, also after the reference was replaced.
- **Settlement.** All money moves in `Post`. `PostWrites`, `PostReplays`, `PostAdds` and `PostUnique` say
  what it does to ledgers; the steps show that the reference is new and the balance suffices, which `Apply` asks again under the
  lock, because what `BeginCall` saw may be outdated.
- **Accounts.** No step posts twice: each makes one `Post` or none (`StepPosts`). A posting is `Move` (`PostMoves`), since its
  reference is new in all ledgers, not only in its own (`Used`), and the balance it leaves is not negative. A save by staff is `State`.
- **Refunds.** `Refunds(f)` is what all ledgers hold under the reference of a fulfillment, so it does not matter whose wallet
  staff have meanwhile made of the one refunded into. `RefundsCovered` is inductive: there is a refund exactly if what is
  unavailable is worth something, to the customer and never above that. When more items are given up later the old row must
  still fit: `RefundGrows`, from `TotalMonotone`, says that more items are worth no less. `RefundSteps`
  parts the steps into those that lose something (`LossOf`) and those that leave every refund alone (`RefundsStay`); with
  `RefundsCovered` that gives `FirstLossRefunded`.
- **Balances.** `LedgerReplays` chains the rows of a ledger since the last save by staff. From it `ReplayIsSum` gets the balance after each row as
  the sum of the rows up to it, by the smallest row where that fails.
- **Riders' pay.** Of half-to-even rounding `RoundingIsClose` says that it is within a half; with a percentage up to 100 the
  commission is within the fee. `NetIsAgreed` follows an earning from creation, with the commission then in force, to its settlement.
- **Finite sums.** `FiniteSums` is about `MapThenSumSet`, which the specifications use. The library's induction theorems
  take an operator as a parameter, beyond the installed provers. So each induction is written as its smallest counterexample:
  strict inclusion of finite subsets is well founded, hence the sets that refute a claim have a minimal one, and the claim's
  step refutes that. `TotalStep` unfolds one step of the fold, `TotalRemove` shows that any element may go first.
- **Learned addresses.** A row's votes are distinct users who picked that state, its confidence is the number of
  the incumbent's votes, and nobody is the margin ahead (`RowOK`). After a vote only the state voted for can
  have got ahead, and it then takes over; votes are distinct, so `Len` of the votes bounds the
  cardinality of the users behind them (`DistinctLength`, and `FS_Injection` of the library). The margin is at
  least 1: with 0 every tie would flip the row. A vote that changes the state makes it that of a state ahead of the incumbent's
  confidence by the margin (`TakeoverRow`), which for a trusted row is the threshold at least (`FlipIsOutvoted`).

Theorems whose property no run names (those about strategies, items, units, pay and so on) define it in the proof module; TLC
agreed with each on the instances of section 3 before it was proved.

Only model-checked: what needs fairness (`OfferIsClosed`, `EveryRiderIsTried`, `CreatedIsDispatched`, `ChargeIsRecorded`,
`EarningIsPaid`, `CheckoutEnds`), since liveness and `ENABLED` are beyond the prover; and the violations, which are
counterexamples. No module with theorems has a recursive operator, and nothing is proved by induction but about finite sets and
rows in a ledger.

## 5. Findings

Each is a counterexample of the model that the code confirms at the line named. For 1, 3, 5 and 7 a theorem says that it is so in
every instance (`BrokenStrategyOffersNothing`, `LocksStopDispatch`, `AttemptsNeverCount`, `FirstLossRefunded`). 1 and 2 are runs of
`PROJECT.json`, the others the further instances of section 3.

1. **Six of seven strategies, the default among them, never give a rider an offer** (`dispatch_strategy`, `match.py:6`): they
   read attributes `RiderMatch` does not have; the exception becomes a failed result.
2. **An item lands in a cart that was ordered meanwhile** (`checkout_cart`, `cart_service.py:108`), though "Items cannot be added to an
   inactive cart" (`cart_item.py:250`).
3. **Dispatch cannot lock on PostgreSQL** (`dispatch_postgres`, `coordinator.py:535`).
4. **A stale dispatch takes a delivery out of CANCELLED** (`dispatch_reuse`, `pipeline.py:488`): read,
   cancel, write; the next acceptance reuses the cancelled row without a restart.
5. **Wrong codes are not counted** (`fulfillment_otp`, `order_fulfillment_service.py:701`): the
   increment is rolled back by the exception that reports the wrong code.
6. **Delivery without a code** (`fulfillment_direct`, `views.py:416`): the lifecycle endpoint completes
   the delivery, and the fulfillment stays `OUT_FOR_DELIVERY`.
7. **Items given up after the refund are not refunded** (`settlement_refund`, `refund_service.py:121`), though it is the "sum of
   subtotals of all UNAVAILABLE items" (`refund_service.py:11`). The fees, meanwhile, go back in full with the first of them,
   "because the fulfillment did not complete" (`refund_service.py:25`), also when the rest of it goes on and is delivered.
8. **An order is not delivered when its last open part is cancelled** (`fulfillment_cancelled`,
   `order_fulfillment_service.py:1012`).
9. **The virtual account made at checkout is forgotten** (`payment_dva`, `checkout_service.py:1439`): the details
   `generate_dva` stored are overwritten, and the next call makes another account.
10. **A balance changes without a row** (`settlement_staff`, `wallet/admin.py:5`): a save in the admin writes the balance its form
    was opened with, over credits made since, though `wallet_service.py:4` is "the single entry point for mutating Wallet.balance"
    and "every balance change is recorded".
11. **A variant is sold whose option was turned off** (`checkout_options`, `product_variant.py:374`): `_lock_inventory` checks
    options without locking them, so the check no longer holds at the commit. No document promises that it does.

Met while reading, not shown by a run: `WalletService.debit` is given a user where it takes a wallet, so payment
by wallet always fails; `update_item`, `increase_quantity` and `decrease_quantity` of the cart lock over a
nullable join, which PostgreSQL refuses; changing the default variant is refused by its own unique constraint
(`vendors/views/product_variant.py:91`); stock is not given back when an order is cancelled or fails; `geo.py:6` and
`product_public.py:297` speak of five verified votes where `MIN_CONFIDENCE` is 3; `common/models.py` says that "contradicting votes
never overwrite a mapping", which rule 5 of `ip_learning.py` does once the margin is reached.

## 6. Not modelled, and the plan

Done: all modules of section 2 and their proofs; every invariant and action property that a run checks is a theorem. Not yet:

1. `Gallery` – the primary image of a product and of a variant: unique by constraint, promoted and demoted by two
   services that act on an instance read before; abstractly, a set of images with at most one primary.
2. The payments as an abstract account, as `Accounts` is for wallets: a charge settles its order once.
3. `Pricing` – fee, surcharges and rounding of `deliveries/pricing/` against a reference definition.

Not modelled, because no step of the modelled parts depends on it:

- *Pricing*: decimal arithmetic on configuration rows; the total decides no transition. The cached configuration
  is never invalidated by a save, which a single worker would show.
- *Catalog*: vendors' CRUD of products, variants, options, images and stores, its serializers and the mock-data
  commands, a quarter of the repository's lines; as far as a sale depends on it, it is `SaveRow`.
- *Geolocation providers*: a chain of fallbacks over outside services, without state but a back-off cache.
- *Accounts, vendors, customers*: registration, profiles, permissions; who may call what is the actor of an action.
- *Dispatch engine, events, history, timeline, analytics, notifications, communications*: append-only records and
  messages that no decision reads back.
- *Order tasks*: `retry_failed_refunds` looks for `FAILED` rows, which nothing writes; `sweep_missing_delivery_otps` and
  `dispatch_scheduled_deliveries` look for states that do not occur (`OtpWhileOut`, `FulfillmentInStep`).
- *Locks of fulfillment and delivery*: `cancel` takes them in one order, `assign`, `start_delivery` and
  `verify_delivery_otp` in the other; on PostgreSQL the lock of a delivery raises before anything can wait for it,
  and SQLite has no row locks, so there is no state to model until the query is mended.
- *Rows edited by hand in the Django admin*: `WalletAdmin` (`SaveWallet`), the saves of products, variants, stores and options and
  the deletion of learned addresses are modelled. `DeliveryAssignmentAdmin` (`deliveries/admin.py:7`) edits any column of an assignment, past
  `AssignmentService`, and `WalletTransactionAdmin` (`wallet/admin.py:19`) edits and deletes rows of a ledger; wallets can be deleted
  with theirs, and earnings by a superuser. After such an edit nothing that is checked or proved about those rows need hold.
- `chat`, `payments` and `tracking` are empty apps; `env/` is a checked-in virtual environment.
