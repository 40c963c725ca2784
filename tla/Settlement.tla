---------------------------- MODULE Settlement ----------------------------
(***************************************************************************)
(* Wallets and everything that pays into them: WalletService               *)
(* (wallet/service/wallet_service.py), RiderEarningService with its        *)
(* periodic task (riders/services/rider_earning_service.py,                *)
(* wallet/tasks.py) and RefundService (common/services/refund_service.py). *)
(*                                                                         *)
(* settle, refund_fulfillment, deposit and withdraw hold the wallet's lock *)
(* from before they look for their reference until they commit, so each is *)
(* one step.  credit and debit look for the reference first and lock       *)
(* afterwards: two steps.  A run of the task settles every earning of its  *)
(* batch in a transaction of its own, and runs may overlap.  Staff save a  *)
(* wallet as a whole, owner and balance with it, without any transaction   *)
(* row (WalletAdmin).  Rows edited or deleted by hand, and wallets deleted *)
(* with theirs, are outside the module.                                    *)
(***************************************************************************)
EXTENDS Integers, Sequences, FiniteSets, FiniteSetsExt

CONSTANTS
    Users,            \* riders and customers
    WalletCount,      \* bound: wallets, numbered in the order they are created
    Balances,         \* what staff may enter as a balance
    MaxSaves,         \* bound: wallets saved by staff
    EarningCount,     \* earnings, numbered in the order they are created
    RiderOf, Fee,     \* of an earning: the rider and the delivery fee, in kobo
    Percentages,      \* the commissions that may be in force, in hundredths of a percent
    Fulfillments,
    CustomerOf,       \* of a fulfillment
    ItemsOf,          \* of a fulfillment: the set of its items
    Price, Refundable,\* of an item: subtotal; the items that are not perishable
    Charged,          \* of a fulfillment: delivery, service and insurance fee less discount
    Workers,          \* runs of settle_rider_earnings that may overlap
    BatchSize,        \* earnings a run takes (100 in the code)
    MaxCrashes,       \* bound: runs that die half way
    Callers,          \* concurrent calls of credit and debit
    Keys,             \* references those callers use
    Changes           \* amounts they credit, or debit when negative

Wallets == 1..WalletCount
Earnings == 1..EarningCount
NoUser == "NONE"

ASSUME SettlementAssumption ==
    /\ NoUser \notin Users
    /\ WalletCount \in Nat
    /\ Balances \subseteq Nat
    /\ MaxSaves \in Nat
    /\ EarningCount \in Nat
    /\ BatchSize \in Nat
    /\ MaxCrashes \in Nat
    /\ RiderOf \in [Earnings -> Users]
    /\ Fee \in [Earnings -> Nat]
    /\ CustomerOf \in [Fulfillments -> Users]
    /\ \A f \in Fulfillments : IsFiniteSet(ItemsOf[f]) /\ ItemsOf[f] # {}
    /\ \A f \in Fulfillments : \A i \in ItemsOf[f] : Price[i] \in Nat
    /\ Charged \in [Fulfillments -> Int]
    /\ Percentages \subseteq 0..10000
    /\ Changes \subseteq Int

VARIABLES
    wallet,           \* the Wallet rows
    ledger,           \* the WalletTransaction rows of a wallet, oldest first
    stated,           \* history: the balance staff last saved, and the rows there were then
    saves,            \* wallets saved by staff
    earning,          \* the RiderEarning rows
    aged,             \* earnings that are older than SETTLEMENT_DELAY_MINUTES: 1..aged
    batch,            \* what a run of the task has still to settle
    crashes,          \* runs that died
    unavailable,      \* the items of a fulfillment its vendor gave up
    call              \* what credit or debit is about to write

staffVars == <<stated, saves>>
taskVars == <<aged, batch, crashes>>
settlementVars == <<wallet, ledger, staffVars, earning, taskVars, unavailable, call>>

\* The UNIQUE references of the ledger.
References ==
    ({"EARNING"} \X Earnings) \cup ({"REF-FULFILLMENT"} \X Fulfillments) \cup ({"CALL"} \X Keys)

\* user is no column: whose wallet it was when the row was written.
Transactions == [reference : References, user : Users, change : Int, before : Nat, after : Nat]

Calls == [wallet : Wallets, reference : {"CALL"} \X Keys, change : Int]
Idle == [wallet |-> 0]

Taken(w) == wallet[w].owner \in Users

\* The rows keep their shape; no balance is ever negative; a user has one wallet at most.
SettlementTypeOK ==
    /\ wallet \in [Wallets -> [owner : Users \cup {NoUser}, active : BOOLEAN, balance : Nat]]
    /\ ledger \in [Wallets -> Seq(Transactions)]
    /\ stated \in [Wallets -> [rows : Nat, balance : Nat]]
    /\ saves \in 0..MaxSaves
    /\ earning \in [Earnings -> [status : {"ABSENT", "PENDING", "SETTLED", "FAILED"}, net : Nat]]
    /\ aged \in 0..EarningCount
    /\ batch \in [Workers -> SUBSET Earnings]
    /\ crashes \in 0..MaxCrashes
    /\ unavailable \in [Fulfillments -> SUBSET UNION {ItemsOf[f] : f \in Fulfillments}]
    /\ call \in [Callers -> Calls \cup {Idle}]
    /\ \A v, w \in Wallets : Taken(w) /\ wallet[v].owner = wallet[w].owner => v = w

SettlementInit ==
    /\ wallet = [w \in Wallets |-> [owner |-> NoUser, active |-> TRUE, balance |-> 0]]
    /\ ledger = [w \in Wallets |-> <<>>]
    /\ stated = [w \in Wallets |-> [rows |-> 0, balance |-> 0]]
    /\ saves = 0
    /\ earning = [e \in Earnings |-> [status |-> "ABSENT", net |-> 0]]
    /\ aged = 0
    /\ batch = [w \in Workers |-> {}]
    /\ crashes = 0
    /\ unavailable = [f \in Fulfillments |-> {}]
    /\ call = [c \in Callers |-> Idle]

-----------------------------------------------------------------------------
\* Wallets

Used(reference) ==
    \E w \in Wallets : \E i \in DOMAIN ledger[w] : ledger[w][i].reference = reference

HasWallet(u) == \E w \in Wallets : wallet[w].owner = u

\* The UNIQUE user of a wallet makes it the only one.
WalletOf(u) == CHOOSE w \in Wallets : wallet[w].owner = u

\* A row is written and the balance of the locked wallet saved beside it.
Post(w, reference, change) ==
    /\ ledger' = [ledger EXCEPT ![w] =
            Append(@, [reference |-> reference, user |-> wallet[w].owner, change |-> change,
                       before |-> wallet[w].balance, after |-> wallet[w].balance + change])]
    /\ wallet' = [wallet EXCEPT ![w].balance = @ + change]
    /\ UNCHANGED staffVars

NoPost == UNCHANGED <<wallet, ledger, staffVars>>

\* The signal at signup, get_or_create_wallet later.
CreateWallet(w, u) ==
    /\ ~HasWallet(u)
    /\ ~Taken(w)
    /\ \A v \in Wallets : v < w => Taken(v)
    /\ wallet' = [wallet EXCEPT ![w].owner = u]
    /\ UNCHANGED <<ledger, staffVars, earning, taskVars, unavailable, call>>

\* Staff (WalletAdmin): the form writes what it holds to every column, under no lock, so
\* typed or read long ago; no transaction row tells of it.
SaveWallet(w, u, active, balance) ==
    /\ saves < MaxSaves
    /\ Taken(w)
    /\ wallet[w].owner = u \/ ~HasWallet(u)
    /\ wallet' = [wallet EXCEPT ![w] = [owner |-> u, active |-> active, balance |-> balance]]
    /\ stated' = [stated EXCEPT ![w] = [rows |-> Len(ledger[w]), balance |-> balance]]
    /\ saves' = saves + 1
    /\ UNCHANGED <<ledger, earning, taskVars, unavailable, call>>

\* credit and debit up to the lock; a reference that is known is answered at once.
BeginCall(c, w, k, change) ==
    /\ call[c] = Idle
    /\ Taken(w)
    /\ ~Used(<<"CALL", k>>)
    /\ call' = [call EXCEPT ![c] = [wallet |-> w, reference |-> <<"CALL", k>>, change |-> change]]
    /\ UNCHANGED <<wallet, ledger, staffVars, earning, taskVars, unavailable>>

\* Mutant: the balance is not looked at.
CoveredActive(w, change) == wallet[w].active

Covered(w, change) == wallet[w].active /\ (change > 0 \/ wallet[w].balance + change >= 0)

\* Mutant: the lookup before the lock is relied on.
ApplyLookedUp(c) ==
    /\ call[c] # Idle
    /\ call' = [call EXCEPT ![c] = Idle]
    /\ IF Covered(call[c].wallet, call[c].change)
       THEN Post(call[c].wallet, call[c].reference, call[c].change)
       ELSE NoPost
    /\ UNCHANGED <<earning, taskVars, unavailable>>

\* _apply from the lock on.  A reference used meanwhile fails on the UNIQUE constraint;
\* the query that should then find the row runs in the broken transaction and raises.
Apply(c) ==
    /\ call[c] # Idle
    /\ call' = [call EXCEPT ![c] = Idle]
    /\ IF Covered(call[c].wallet, call[c].change) /\ ~Used(call[c].reference)
       THEN Post(call[c].wallet, call[c].reference, call[c].change)
       ELSE NoPost
    /\ UNCHANGED <<earning, taskVars, unavailable>>

\* deposit and withdraw create the wallet if there is none (CreateWallet), lock it and
\* look up then.
DepositOrWithdraw(u, k, change) ==
    /\ HasWallet(u)
    /\ Covered(WalletOf(u), change)
    /\ ~Used(<<"CALL", k>>)
    /\ Post(WalletOf(u), <<"CALL", k>>, change)
    /\ UNCHANGED <<earning, taskVars, unavailable, call>>

-----------------------------------------------------------------------------
\* Earnings

\* quantize(Decimal("0.01")) rounds half to even.
RoundedQuotient(n, d) ==
    LET q == n \div d
        r == n % d
    IN  IF 2 * r > d \/ (2 * r = d /\ q % 2 = 1) THEN q + 1 ELSE q

Commission(gross, percentage) == RoundedQuotient(gross * percentage, 10000)

\* _create_rider_earning, with the commission in force.  RiderEarning.clean refuses a
\* commission above the gross amount; the exception is swallowed.
CreateRiderEarning(e) ==
    /\ earning[e].status = "ABSENT"
    /\ \A d \in 1..(e - 1) : earning[d].status # "ABSENT"
    /\ \E p \in Percentages :
        LET net == Fee[e] - Commission(Fee[e], p)
        IN  /\ net \in Nat
            /\ earning' = [earning EXCEPT ![e] = [status |-> "PENDING", net |-> net]]
    /\ UNCHANGED <<wallet, ledger, staffVars, taskVars, unavailable, call>>

BecomesDue ==
    /\ aged < EarningCount
    /\ earning[aged + 1].status # "ABSENT"
    /\ aged' = aged + 1
    /\ UNCHANGED <<wallet, ledger, staffVars, earning, batch, crashes, unavailable, call>>

Due == {e \in 1..aged : earning[e].status = "PENDING"}

\* order_by("created_at")[:100]
Oldest(S) == {e \in S : Cardinality({d \in S : d < e}) < BatchSize}

StartRun(w) ==
    /\ batch[w] = {}
    /\ Due # {}
    /\ batch' = [batch EXCEPT ![w] = Oldest(Due)]
    /\ UNCHANGED <<wallet, ledger, staffVars, earning, aged, crashes, unavailable, call>>

Credit(e) == Post(WalletOf(RiderOf[e]), <<"EARNING", e>>, earning[e].net)

\* Mutant: the validation of RiderEarning lets a settled earning go without a transaction.
SettleAnything(e) ==
    IF earning[e].status # "PENDING" \/ ~HasWallet(RiderOf[e])
    THEN NoPost /\ UNCHANGED earning
    ELSE /\ earning' = [earning EXCEPT ![e].status = "SETTLED"]
         /\ IF earning[e].net = 0 THEN NoPost ELSE Credit(e)

\* Mutant: what the batch was made of is settled, as it was when the batch was made.
SettleAgain(e) ==
    IF HasWallet(RiderOf[e]) /\ earning[e].net > 0
    THEN earning' = [earning EXCEPT ![e].status = "SETTLED"] /\ Credit(e)
    ELSE NoPost /\ UNCHANGED earning

\* Mutant: credited as credit does, which refuses an inactive wallet.
SettleIfActive(e) ==
    IF earning[e].status # "PENDING" \/ earning[e].net = 0
    THEN NoPost /\ UNCHANGED earning
    ELSE IF ~HasWallet(RiderOf[e])
    THEN earning' = [earning EXCEPT ![e].status = "FAILED"] /\ NoPost
    ELSE IF ~wallet[WalletOf(RiderOf[e])].active
    THEN NoPost /\ UNCHANGED earning
    ELSE earning' = [earning EXCEPT ![e].status = "SETTLED"] /\ Credit(e)

\* RiderEarningService.settle.  What is not PENDING is left alone.  Without a wallet the
\* earning fails.  An earning of nothing is set SETTLED without a transaction, which
\* RiderEarning.clean refuses: it stays PENDING.  Whether the wallet is active is not asked.
SettleEarning(e) ==
    IF earning[e].status # "PENDING" \/ (HasWallet(RiderOf[e]) /\ earning[e].net = 0)
    THEN NoPost /\ UNCHANGED earning
    ELSE IF ~HasWallet(RiderOf[e])
    THEN earning' = [earning EXCEPT ![e].status = "FAILED"] /\ NoPost
    ELSE /\ earning' = [earning EXCEPT ![e].status = "SETTLED"]
         /\ IF Used(<<"EARNING", e>>) THEN NoPost ELSE Credit(e)

SettleNext(w) ==
    /\ \E e \in batch[w] :
        /\ \A d \in batch[w] : e <= d
        /\ SettleEarning(e)
        /\ batch' = [batch EXCEPT ![w] = @ \ {e}]
    /\ UNCHANGED <<aged, crashes, unavailable, call>>

Crash(w) ==
    /\ batch[w] # {}
    /\ crashes < MaxCrashes
    /\ batch' = [batch EXCEPT ![w] = {}]
    /\ crashes' = crashes + 1
    /\ UNCHANGED <<wallet, ledger, staffVars, earning, aged, unavailable, call>>

-----------------------------------------------------------------------------
\* Refunds

\* compute_refund: the fees in full, the unavailable items that may be refunded.
ComputeRefund(f, items) ==
    Charged[f] + MapThenSumSet(LAMBDA i : Price[i], items \cap Refundable)

\* Mutant: the balance is not saved.
RefundUnsaved(f, items) ==
    LET amount == ComputeRefund(f, items)
        w == WalletOf(CustomerOf[f])
    IN  IF Used(<<"REF-FULFILLMENT", f>>) \/ amount \notin Nat \ {0}
        THEN NoPost
        ELSE /\ ledger' = [ledger EXCEPT ![w] =
                    Append(@, [reference |-> <<"REF-FULFILLMENT", f>>, user |-> CustomerOf[f],
                               change |-> amount, before |-> wallet[w].balance,
                               after |-> wallet[w].balance + amount])]
             /\ UNCHANGED <<wallet, staffVars>>

\* refund_fulfillment, for a customer who has a wallet: once for a fulfillment.
Refund(f, items) ==
    LET amount == ComputeRefund(f, items)
    IN  IF Used(<<"REF-FULFILLMENT", f>>) \/ amount \notin Nat \ {0}
        THEN NoPost
        ELSE Post(WalletOf(CustomerOf[f]), <<"REF-FULFILLMENT", f>>, amount)

\* Mutant: the refund is of the items of this call, not of all that are UNAVAILABLE.
VendorCannotFulfillAlone(f, items) ==
    /\ items # {}
    /\ items \cap unavailable[f] = {}
    /\ HasWallet(CustomerOf[f])
    /\ unavailable' = [unavailable EXCEPT ![f] = @ \cup items]
    /\ Refund(f, items)
    /\ UNCHANGED <<earning, taskVars, call>>

\* vendor_cannot_fulfill, the part that concerns money (Fulfillment has the rest): a
\* missing wallet raises and takes the whole call back, whatever the refund comes to.
VendorCannotFulfill(f, items) ==
    /\ items # {}
    /\ items \cap unavailable[f] = {}
    /\ HasWallet(CustomerOf[f])
    /\ unavailable' = [unavailable EXCEPT ![f] = @ \cup items]
    /\ Refund(f, unavailable'[f])
    /\ UNCHANGED <<earning, taskVars, call>>

\* AdminRefundRetryView, for a fulfillment that FAILED: nothing of it was available.
RetryRefund(f) ==
    /\ unavailable[f] = ItemsOf[f]
    /\ HasWallet(CustomerOf[f])
    /\ Refund(f, unavailable[f])
    /\ UNCHANGED <<earning, taskVars, unavailable, call>>

-----------------------------------------------------------------------------
WalletStep ==
    \/ \E w \in Wallets, u \in Users :
        \/ CreateWallet(w, u)
        \/ \E active \in BOOLEAN, balance \in Balances : SaveWallet(w, u, active, balance)
    \/ \E k \in Keys, change \in Changes :
        \/ \E u \in Users : DepositOrWithdraw(u, k, change)
        \/ \E w \in Wallets, c \in Callers : BeginCall(c, w, k, change)
    \/ \E c \in Callers : Apply(c)

EarningStep ==
    \/ \E e \in Earnings : CreateRiderEarning(e)
    \/ BecomesDue
    \/ \E w \in Workers : StartRun(w) \/ SettleNext(w) \/ Crash(w)

RefundStep ==
    \E f \in Fulfillments :
        \/ \E items \in SUBSET ItemsOf[f] : VendorCannotFulfill(f, items)
        \/ RetryRefund(f)

SettlementNext == WalletStep \/ EarningStep \/ RefundStep

SettlementSpec == SettlementInit /\ [][SettlementNext]_settlementVars

\* Celery beat starts a run every 15 minutes; a run that does not die goes on.
FairSettlementSpec ==
    /\ SettlementSpec
    /\ WF_settlementVars(BecomesDue)
    /\ \A w \in Workers : WF_settlementVars(StartRun(w)) /\ WF_settlementVars(SettleNext(w))

-----------------------------------------------------------------------------
\* Safety

\* The rows of a wallet since staff last saved it lead from the balance they saved, or from
\* zero, to the present one.
Replays(w) ==
    LET rows == Len(ledger[w])
        first == stated[w].rows
    IN  /\ first <= rows
        /\ wallet[w].balance = IF rows = first THEN stated[w].balance ELSE ledger[w][rows].after
        /\ \A i \in (first + 1)..rows :
            /\ ledger[w][i].before = IF i = first + 1 THEN stated[w].balance
                                                      ELSE ledger[w][i - 1].after
            /\ ledger[w][i].after = ledger[w][i].before + ledger[w][i].change

\* "The wallet ledger is fully auditable and replayable" (wallet_service.py:8), as far as
\* it is true: staff saves apart, every balance is explained by rows, whoever wrote them and
\* however calls, runs and refunds overlap.
LedgerReplays == \A w \in Wallets : Replays(w)

\* "Every balance change is recorded" (wallet_service.py:5), staff saves included.  The
\* code does not have it: SaveWallet.
EveryChangeRecorded ==
    \A w \in Wallets :
        wallet[w].balance = IF ledger[w] = <<>> THEN 0 ELSE ledger[w][Len(ledger[w])].after

\* No reference is written twice: not by a replay that overlaps the first call, by two
\* runs of the task that took the same earning, nor by a refund and its retry.
ReferencesUnique ==
    \A v, w \in Wallets : \A i \in DOMAIN ledger[v], j \in DOMAIN ledger[w] :
        ledger[v][i].reference = ledger[w][j].reference => v = w /\ i = j

\* An earning reads SETTLED exactly if its net amount was credited to a wallet that was
\* its rider's.
SettledIsCredited ==
    \A e \in Earnings :
        /\ earning[e].status = "SETTLED" <=> Used(<<"EARNING", e>>)
        /\ \A w \in Wallets : \A i \in DOMAIN ledger[w] :
            ledger[w][i].reference = <<"EARNING", e>> =>
                ledger[w][i].user = RiderOf[e] /\ ledger[w][i].change = earning[e].net

\* What was refunded for a fulfillment, to whom.
Refunds(f) ==
    UNION {{[user |-> ledger[w][i].user, change |-> ledger[w][i].change] :
                i \in {j \in DOMAIN ledger[w] : ledger[w][j].reference = <<"REF-FULFILLMENT", f>>}} :
                w \in Wallets}

\* The refund comes with the loss that makes what is unavailable worth something, perhaps
\* not the first one when a discount eats it up; it is then all that is due, for this
\* loss and the earlier ones, to the customer.  No retry, later loss or staff save adds
\* to it or takes from it.
FirstLossIsRefunded ==
    [][\A f \in Fulfillments :
        LET due == ComputeRefund(f, unavailable'[f])
        IN  Refunds(f)' =
                IF Refunds(f) = {} /\ unavailable'[f] # unavailable[f] /\ due > 0
                THEN {[user |-> CustomerOf[f], change |-> due]}
                ELSE Refunds(f)]_settlementVars

\* "Sum of subtotals of all UNAVAILABLE items" (refund_service.py:12).  The code does not
\* have it: what is lost after the refund stays out of it.
AllLossesRefunded ==
    \A f \in Fulfillments : \A r \in Refunds(f) : r.change = ComputeRefund(f, unavailable[f])

-----------------------------------------------------------------------------
\* What all of it promises together.

\* The movements the ledgers record.
Movements ==
    UNION {{[reference |-> ledger[w][i].reference, account |-> w, change |-> ledger[w][i].change] :
                i \in DOMAIN ledger[w]} : w \in Wallets}

Money == INSTANCE Accounts WITH
    Accounts <- Wallets,
    balance <- [w \in Wallets |-> wallet[w].balance],
    moved <- Movements,
    statements <- saves

\* Whatever replays, overlaps or dies: a reference moves money once, in one wallet, in the
\* step that changes its balance, and no wallet is overdrawn.  Any other change of a
\* balance is a save by staff, of one wallet, and counted.
MoneyMovesOnce == Money!AccountsSpec

-----------------------------------------------------------------------------
\* Liveness

\* As many older earnings of nothing as a run takes, for ever the oldest.
Starved(e) ==
    Cardinality({d \in 1..(e - 1) : earning[d].status = "PENDING" /\ earning[d].net = 0}) >= BatchSize

\* A rider with a wallet is paid in the end, whatever runs overlap or die, unless
\* earnings that can never be settled fill every batch, or staff give the wallet away.
EarningIsPaid ==
    \A e \in Earnings :
        (earning[e].status = "PENDING" /\ earning[e].net > 0 /\ HasWallet(RiderOf[e]))
            ~> (earning[e].status = "SETTLED" \/ Starved(e) \/ ~HasWallet(RiderOf[e]))

=============================================================================
