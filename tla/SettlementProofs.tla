------------------------- MODULE SettlementProofs -------------------------
(***************************************************************************)
(* Proofs about Settlement.  Everything that moves money goes through      *)
(* Post, so one lemma says what Post does to the ledgers, and the steps    *)
(* only show that its assumptions hold: the reference is new and the       *)
(* balance suffices.                                                       *)
(***************************************************************************)
EXTENDS Settlement, FiniteSums, TLAPS

MoneyInv == SettlementTypeOK /\ LedgerReplays /\ ReferencesUnique /\ SettledIsCredited

\* A call under way has a wallet that exists: none is deleted.
CallsHold == \A c \in Callers : call[c] \in Calls => Taken(call[c].wallet)

\* The wallets and ledgers alone.
LedgerTyped ==
    /\ wallet \in [Wallets -> [owner : Users \cup {NoUser}, active : BOOLEAN, balance : Nat]]
    /\ ledger \in [Wallets -> Seq(Transactions)]
    /\ stated \in [Wallets -> [rows : Nat, balance : Nat]]
    /\ saves \in 0..MaxSaves
    /\ \A v, w \in Wallets : Taken(w) /\ wallet[v].owner = wallet[w].owner => v = w

\* The wallet that is chosen for a user is his.
LEMMA WalletOfUser ==
    ASSUME NEW u \in Users, HasWallet(u)
    PROVE  WalletOf(u) \in Wallets /\ wallet[WalletOf(u)].owner = u /\ Taken(WalletOf(u))
BY DEF HasWallet, WalletOf, Taken

\* What Post does: the ledger of w is one row longer, and all others are as before.
LEMMA PostWrites ==
    ASSUME LedgerTyped, NEW w \in Wallets, Taken(w), NEW reference \in References, NEW change \in Int,
           wallet[w].balance + change \in Nat, Post(w, reference, change)
    PROVE  /\ LedgerTyped'
           /\ \A v \in Wallets \ {w} : ledger'[v] = ledger[v] /\ wallet'[v] = wallet[v]
           /\ Len(ledger'[w]) = Len(ledger[w]) + 1
           /\ wallet'[w].balance = wallet[w].balance + change
           /\ \A i \in 1..Len(ledger[w]) : ledger'[w][i] = ledger[w][i]
           /\ ledger'[w][Len(ledger[w]) + 1] =
                [reference |-> reference, user |-> wallet[w].owner, change |-> change,
                 before |-> wallet[w].balance, after |-> wallet[w].balance + change]
<1> DEFINE row == [reference |-> reference, user |-> wallet[w].owner, change |-> change,
                   before |-> wallet[w].balance, after |-> wallet[w].balance + change]
<1>1. row \in Transactions
  BY DEF LedgerTyped, Transactions, Taken
<1>2. /\ ledger' = [ledger EXCEPT ![w] = Append(@, row)]
      /\ wallet' = [wallet EXCEPT ![w].balance = @ + change]
      /\ UNCHANGED <<stated, saves>>
  BY DEF Post, staffVars
<1>3. ledger[w] \in Seq(Transactions)
  BY DEF LedgerTyped
<1> HIDE DEF row
<1>4. /\ Append(ledger[w], row) \in Seq(Transactions)
      /\ Len(Append(ledger[w], row)) = Len(ledger[w]) + 1
      /\ \A i \in 1..Len(ledger[w]) : Append(ledger[w], row)[i] = ledger[w][i]
      /\ Append(ledger[w], row)[Len(ledger[w]) + 1] = row
  BY <1>1, <1>3
<1>5. ledger' \in [Wallets -> Seq(Transactions)] /\ ledger'[w] = Append(ledger[w], row)
  BY <1>2, <1>4 DEF LedgerTyped
<1>6. /\ wallet' \in [Wallets -> [owner : Users \cup {NoUser}, active : BOOLEAN, balance : Nat]]
      /\ \A v \in Wallets : wallet'[v].owner = wallet[v].owner
  BY <1>2 DEF LedgerTyped
<1>7. LedgerTyped'
  BY <1>2, <1>5, <1>6 DEF LedgerTyped, Taken
<1>8. \A v \in Wallets \ {w} : ledger'[v] = ledger[v] /\ wallet'[v] = wallet[v]
  BY <1>2 DEF LedgerTyped
<1>9. wallet'[w].balance = wallet[w].balance + change
  BY <1>2 DEF LedgerTyped
<1>10. QED
  BY <1>4, <1>5, <1>7, <1>8, <1>9 DEF row

\* A new reference on a ledger that replays, and the ledger replays still.
LEMMA PostReplays ==
    ASSUME LedgerTyped, LedgerReplays, NEW w \in Wallets, Taken(w), NEW reference \in References,
           NEW change \in Int, wallet[w].balance + change \in Nat, Post(w, reference, change)
    PROVE  LedgerReplays'
<1>1. stated' = stated
  BY DEF Post, staffVars
<1>2. ASSUME NEW v \in Wallets \ {w} PROVE Replays(v)'
  <2>1. ledger'[v] = ledger[v] /\ wallet'[v] = wallet[v]
    BY PostWrites
  <2>2. Replays(v)
    BY DEF LedgerReplays
  <2>3. QED
    BY <1>1, <2>1, <2>2 DEF Replays
<1>3. Replays(w)'
  <2> DEFINE n == Len(ledger[w])
             k == stated[w].rows
             start == stated[w].balance
  <2>1. n \in Nat /\ k \in Nat /\ Len(ledger'[w]) = n + 1
    <3>1. ledger[w] \in Seq(Transactions) /\ stated[w].rows \in Nat
      BY DEF LedgerTyped
    <3>2. Len(ledger'[w]) = n + 1
      BY PostWrites
    <3>3. n \in Nat
      BY <3>1
    <3>4. QED
      BY <3>1, <3>2, <3>3
  <2>2. ledger'[w][n + 1] = [reference |-> reference, user |-> wallet[w].owner, change |-> change,
                             before |-> wallet[w].balance, after |-> wallet[w].balance + change]
    BY PostWrites
  <2>3. wallet'[w].balance = wallet[w].balance + change
    BY PostWrites
  <2>4. \A i \in 1..n : ledger'[w][i] = ledger[w][i]
    BY PostWrites
  <2>5. /\ k <= n
        /\ wallet[w].balance = IF n = k THEN start ELSE ledger[w][n].after
        /\ \A i \in (k + 1)..n :
                /\ ledger[w][i].before = IF i = k + 1 THEN start ELSE ledger[w][i - 1].after
                /\ ledger[w][i].after = ledger[w][i].before + ledger[w][i].change
    BY DEF LedgerReplays, Replays
  <2> HIDE DEF n, k, start
  <2>6. ASSUME NEW i \in (k + 1)..(n + 1)
        PROVE  /\ ledger'[w][i].before = IF i = k + 1 THEN start ELSE ledger'[w][i - 1].after
               /\ ledger'[w][i].after = ledger'[w][i].before + ledger'[w][i].change
    <3>1. CASE i = n + 1
      <4>1. /\ ledger'[w][i].before = wallet[w].balance
            /\ ledger'[w][i].after = ledger'[w][i].before + ledger'[w][i].change
        BY <3>1, <2>2
      <4>2. CASE n = k
        BY <4>1, <4>2, <3>1, <2>5
      <4>3. CASE n # k
        <5>1. n \in 1..n /\ i - 1 = n /\ i # k + 1
          BY <4>3, <3>1, <2>1, <2>5
        <5>2. ledger'[w][i - 1] = ledger[w][n]
          BY <5>1, <2>4
        <5>3. QED
          BY <4>1, <4>3, <5>1, <5>2, <2>5
      <4>4. QED
        BY <4>2, <4>3
    <3>2. CASE i \in (k + 1)..n
      <4>1. i \in 1..n /\ (i # k + 1 => i - 1 \in 1..n)
        BY <3>2, <2>1
      <4>2. QED
        BY <3>2, <4>1, <2>4, <2>5
    <3>3. QED
      BY <3>1, <3>2, <2>1
  <2>7. wallet'[w].balance = ledger'[w][n + 1].after
    BY <2>2, <2>3
  <2>8. k <= n + 1 /\ n + 1 # k
    BY <2>1, <2>5
  <2>9. QED
    BY <1>1, <2>1, <2>6, <2>7, <2>8 DEF Replays, k, start
<1>4. QED
  BY <1>2, <1>3 DEF LedgerReplays

\* Which rows there are afterwards.
LEMMA PostAdds ==
    ASSUME LedgerTyped, NEW w \in Wallets, Taken(w), NEW reference \in References, NEW change \in Int,
           wallet[w].balance + change \in Nat, Post(w, reference, change)
    PROVE  /\ \A v \in Wallets : \A i \in DOMAIN ledger'[v] :
                \/ i \in DOMAIN ledger[v] /\ ledger'[v][i] = ledger[v][i]
                \/ /\ v = w /\ i = Len(ledger[w]) + 1
                   /\ ledger'[v][i].reference = reference /\ ledger'[v][i].change = change
                   /\ ledger'[v][i].user = wallet[w].owner
           /\ \A v \in Wallets : \A i \in DOMAIN ledger[v] :
                i \in DOMAIN ledger'[v] /\ ledger'[v][i] = ledger[v][i]
           /\ Len(ledger[w]) + 1 \in DOMAIN ledger'[w]
           /\ ledger'[w][Len(ledger[w]) + 1].reference = reference
<1>1. /\ \A v \in Wallets : ledger[v] \in Seq(Transactions)
      /\ \A v \in Wallets : ledger'[v] \in Seq(Transactions)
  BY PostWrites DEF LedgerTyped
<1>2. /\ \A v \in Wallets \ {w} : ledger'[v] = ledger[v]
      /\ Len(ledger'[w]) = Len(ledger[w]) + 1
      /\ \A i \in 1..Len(ledger[w]) : ledger'[w][i] = ledger[w][i]
      /\ ledger'[w][Len(ledger[w]) + 1] =
            [reference |-> reference, user |-> wallet[w].owner, change |-> change,
             before |-> wallet[w].balance, after |-> wallet[w].balance + change]
  BY PostWrites
<1>3. /\ DOMAIN ledger[w] = 1..Len(ledger[w])
      /\ DOMAIN ledger'[w] = 1..(Len(ledger[w]) + 1)
      /\ Len(ledger[w]) \in Nat
  BY <1>1, <1>2
<1>4. /\ ledger'[w][Len(ledger[w]) + 1].reference = reference
      /\ ledger'[w][Len(ledger[w]) + 1].change = change
      /\ ledger'[w][Len(ledger[w]) + 1].user = wallet[w].owner
  BY <1>2
<1>5. ASSUME NEW v \in Wallets, NEW i \in DOMAIN ledger'[v]
      PROVE  \/ i \in DOMAIN ledger[v] /\ ledger'[v][i] = ledger[v][i]
             \/ /\ v = w /\ i = Len(ledger[w]) + 1
                /\ ledger'[v][i].reference = reference /\ ledger'[v][i].change = change
                /\ ledger'[v][i].user = wallet[w].owner
  <2>1. CASE v # w
    BY <2>1, <1>2
  <2>2. CASE v = w
    <3>1. i = Len(ledger[w]) + 1 \/ i \in 1..Len(ledger[w])
      BY <2>2, <1>3
    <3>2. QED
      BY <2>2, <3>1, <1>2, <1>3, <1>4
  <2>3. QED
    BY <2>1, <2>2
<1>6. ASSUME NEW v \in Wallets, NEW i \in DOMAIN ledger[v]
      PROVE  i \in DOMAIN ledger'[v] /\ ledger'[v][i] = ledger[v][i]
  <2>1. CASE v # w
    BY <2>1, <1>2
  <2>2. CASE v = w
    BY <2>2, <1>2, <1>3
  <2>3. QED
    BY <2>1, <2>2
<1>7. Len(ledger[w]) + 1 \in DOMAIN ledger'[w]
  BY <1>3
<1>8. QED
  BY <1>4, <1>5, <1>6, <1>7

\* A reference that is not used yet stays unique.
LEMMA PostUnique ==
    ASSUME LedgerTyped, ReferencesUnique, NEW w \in Wallets, Taken(w), NEW reference \in References,
           NEW change \in Int, wallet[w].balance + change \in Nat, Post(w, reference, change),
           ~Used(reference)
    PROVE  ReferencesUnique' /\ \A r : Used(r)' <=> Used(r) \/ r = reference
<1>1. /\ \A v \in Wallets : \A i \in DOMAIN ledger'[v] :
                \/ i \in DOMAIN ledger[v] /\ ledger'[v][i] = ledger[v][i]
                \/ v = w /\ i = Len(ledger[w]) + 1 /\ ledger'[v][i].reference = reference
      /\ \A v \in Wallets : \A i \in DOMAIN ledger[v] :
                i \in DOMAIN ledger'[v] /\ ledger'[v][i] = ledger[v][i]
      /\ Len(ledger[w]) + 1 \in DOMAIN ledger'[w]
      /\ ledger'[w][Len(ledger[w]) + 1].reference = reference
  BY PostAdds
<1>2. \A v \in Wallets : \A i \in DOMAIN ledger[v] : ledger[v][i].reference # reference
  BY DEF Used
<1>3. ReferencesUnique'
  BY <1>1, <1>2 DEF ReferencesUnique
<1>4. \A r : Used(r)' <=> Used(r) \/ r = reference
  BY <1>1 DEF Used
<1>5. QED
  BY <1>3, <1>4

-----------------------------------------------------------------------------
\* What no step of this kind disturbs: the rows of the ledger and the settled earnings.

\* A posting under another reference than an earning's, earnings untouched.
LEMMA OtherPosted ==
    ASSUME MoneyInv, NEW w \in Wallets, Taken(w), NEW reference \in References, NEW change \in Int,
           wallet[w].balance + change \in Nat, Post(w, reference, change), ~Used(reference),
           \A e \in Earnings : reference # <<"EARNING", e>>, UNCHANGED earning
    PROVE  LedgerTyped' /\ LedgerReplays' /\ ReferencesUnique' /\ SettledIsCredited'
<1>1. LedgerTyped /\ LedgerReplays /\ ReferencesUnique
  BY DEF MoneyInv, SettlementTypeOK, LedgerTyped
<1>2. LedgerTyped'
  BY <1>1, PostWrites
<1>3. LedgerReplays'
  BY <1>1, PostReplays
<1>4. ReferencesUnique' /\ \A r : Used(r)' <=> Used(r) \/ r = reference
  BY <1>1, PostUnique
<1>5. \A e \in Earnings : Used(<<"EARNING", e>>)' <=> Used(<<"EARNING", e>>)
  BY <1>4
<1>6. \A v \in Wallets : \A i \in DOMAIN ledger'[v] :
            \/ i \in DOMAIN ledger[v] /\ ledger'[v][i] = ledger[v][i]
            \/ ledger'[v][i].reference = reference
  BY <1>1, PostAdds
<1>7. \A e \in Earnings : \A v \in Wallets : \A i \in DOMAIN ledger'[v] :
            ledger'[v][i].reference = <<"EARNING", e>> =>
                ledger'[v][i].user = RiderOf[e] /\ ledger'[v][i].change = earning[e].net
  <2> SUFFICES ASSUME NEW e \in Earnings, NEW v \in Wallets, NEW i \in DOMAIN ledger'[v],
                      ledger'[v][i].reference = <<"EARNING", e>>
               PROVE  ledger'[v][i].user = RiderOf[e] /\ ledger'[v][i].change = earning[e].net
    OBVIOUS
  <2>1. i \in DOMAIN ledger[v] /\ ledger'[v][i] = ledger[v][i]
    BY <1>6
  <2>2. ledger[v][i].reference = <<"EARNING", e>>
    BY <2>1
  <2>3. ledger[v][i].user = RiderOf[e] /\ ledger[v][i].change = earning[e].net
    BY <2>1, <2>2 DEF MoneyInv, SettledIsCredited
  <2>4. QED
    BY <2>1, <2>3
<1>8. SettledIsCredited'
  BY <1>5, <1>7 DEF MoneyInv, SettledIsCredited
<1>9. QED
  BY <1>2, <1>3, <1>4, <1>8

\* The ledgers unchanged, and no earning becomes SETTLED or changes its amount.
LEMMA LedgerKept ==
    ASSUME MoneyInv, SettlementTypeOK', LedgerReplays', UNCHANGED ledger,
           \A e \in Earnings : /\ earning'[e].status = "SETTLED" <=> earning[e].status = "SETTLED"
                               /\ earning[e].status = "SETTLED" => earning'[e].net = earning[e].net
    PROVE  MoneyInv'
<1>2. ReferencesUnique'
  BY DEF MoneyInv, ReferencesUnique
<1>3. \A r : Used(r)' <=> Used(r)
  BY DEF Used
<1>4. \A e \in Earnings : \A w \in Wallets : \A i \in DOMAIN ledger[w] :
            ledger[w][i].reference = <<"EARNING", e>> => earning[e].status = "SETTLED"
  BY DEF MoneyInv, SettledIsCredited, Used
<1>5. \A e \in Earnings : earning[e].status = "SETTLED" => earning'[e].net = earning[e].net
  OBVIOUS
<1>6. SettledIsCredited'
  <2>1. \A e \in Earnings : earning'[e].status = "SETTLED" <=> Used(<<"EARNING", e>>)'
    <3> SUFFICES ASSUME NEW e \in Earnings
                 PROVE  earning'[e].status = "SETTLED" <=> Used(<<"EARNING", e>>)'
      OBVIOUS
    <3>1. Used(<<"EARNING", e>>)' <=> Used(<<"EARNING", e>>)
      BY <1>3
    <3>2. earning[e].status = "SETTLED" <=> Used(<<"EARNING", e>>)
      BY DEF MoneyInv, SettledIsCredited
    <3>3. QED
      BY <3>1, <3>2
  <2>2. \A e \in Earnings : \A w \in Wallets : \A i \in DOMAIN ledger'[w] :
            ledger'[w][i].reference = <<"EARNING", e>> =>
                ledger'[w][i].user = RiderOf[e] /\ ledger'[w][i].change = earning'[e].net
    BY <1>4, <1>5 DEF MoneyInv, SettledIsCredited
  <2>3. QED
    BY <2>1, <2>2 DEF SettledIsCredited
<1>7. QED
  BY <1>2, <1>6 DEF MoneyInv

\* Nothing is posted or stated: no balance changes either.
LEMMA NothingPosted ==
    ASSUME MoneyInv, SettlementTypeOK', UNCHANGED <<ledger, stated>>,
           \A w \in Wallets : wallet'[w].balance = wallet[w].balance,
           \A e \in Earnings : /\ earning'[e].status = "SETTLED" <=> earning[e].status = "SETTLED"
                               /\ earning[e].status = "SETTLED" => earning'[e].net = earning[e].net
    PROVE  MoneyInv'
<1>1. LedgerReplays'
  BY DEF MoneyInv, LedgerReplays, Replays
<1>2. QED
  BY <1>1, LedgerKept

-----------------------------------------------------------------------------
\* The steps

LEMMA SettlementInitInv == SettlementInit => MoneyInv
<1> SUFFICES ASSUME SettlementInit PROVE MoneyInv
  OBVIOUS
<1>1. SettlementTypeOK
  <2>1. ledger \in [Wallets -> Seq(Transactions)]
    <3>1. <<>> \in Seq(Transactions)
      OBVIOUS
    <3>2. QED
      BY <3>1 DEF SettlementInit
  <2>2. /\ wallet \in [Wallets -> [owner : Users \cup {NoUser}, active : BOOLEAN, balance : Nat]]
        /\ stated \in [Wallets -> [rows : Nat, balance : Nat]]
    BY DEF SettlementInit
  <2>3. \A w \in Wallets : ~Taken(w)
    BY SettlementAssumption DEF SettlementInit, Taken
  <2>4. /\ saves \in 0..MaxSaves
        /\ aged \in 0..EarningCount
        /\ crashes \in 0..MaxCrashes
    <3>1. MaxSaves \in Nat /\ EarningCount \in Nat /\ MaxCrashes \in Nat
      BY SettlementAssumption
    <3>2. QED
      BY <3>1 DEF SettlementInit
  <2>5. /\ earning \in [Earnings -> [status : {"ABSENT", "PENDING", "SETTLED", "FAILED"}, net : Nat]]
        /\ batch \in [Workers -> SUBSET Earnings]
        /\ unavailable \in [Fulfillments -> SUBSET UNION {ItemsOf[f] : f \in Fulfillments}]
        /\ call \in [Callers -> Calls \cup {Idle}]
    BY DEF SettlementInit
  <2>6. QED
    BY <2>1, <2>2, <2>3, <2>4, <2>5 DEF SettlementTypeOK
<1>2. LedgerReplays
  <2> SUFFICES ASSUME NEW w \in Wallets PROVE Replays(w)
    BY DEF LedgerReplays
  <2>1. /\ ledger[w] = <<>> /\ wallet[w].balance = 0
        /\ stated[w].rows = 0 /\ stated[w].balance = 0
    BY DEF SettlementInit
  <2>2. Len(ledger[w]) = 0
    BY <2>1
  <2>3. QED
    BY <2>1, <2>2 DEF Replays
<1>3. ASSUME NEW w \in Wallets, NEW i \in DOMAIN ledger[w] PROVE FALSE
  <2>1. ledger[w] = <<>>
    BY DEF SettlementInit
  <2>2. DOMAIN ledger[w] = 1..0
    BY <2>1
  <2>3. QED
    BY <2>2
<1>4. ReferencesUnique
  BY <1>3 DEF ReferencesUnique
<1>5. SettledIsCredited
  <2>1. \A e \in Earnings : earning[e].status # "SETTLED"
    BY DEF SettlementInit
  <2>2. QED
    BY <1>3, <2>1 DEF SettledIsCredited, Used
<1>6. QED
  BY <1>1, <1>2, <1>4, <1>5 DEF MoneyInv

\* The parts of the type invariant that are not about money.
OthersTyped ==
    /\ earning \in [Earnings -> [status : {"ABSENT", "PENDING", "SETTLED", "FAILED"}, net : Nat]]
    /\ aged \in 0..EarningCount
    /\ batch \in [Workers -> SUBSET Earnings]
    /\ crashes \in 0..MaxCrashes
    /\ unavailable \in [Fulfillments -> SUBSET UNION {ItemsOf[f] : f \in Fulfillments}]
    /\ call \in [Callers -> Calls \cup {Idle}]

LEMMA TypeParts ==
    /\ SettlementTypeOK => LedgerTyped /\ OthersTyped
    /\ LedgerTyped' /\ OthersTyped' => SettlementTypeOK'
BY DEF SettlementTypeOK, LedgerTyped, OthersTyped

\* Each kind of reference is one, and no two kinds share one.
LEMMA ReferenceKinds ==
    /\ \A e \in Earnings : <<"EARNING", e>> \in References
    /\ \A f \in Fulfillments : <<"REF-FULFILLMENT", f>> \in References
    /\ \A k \in Keys : <<"CALL", k>> \in References
    /\ \A e \in Earnings, f \in Fulfillments : <<"REF-FULFILLMENT", f>> # <<"EARNING", e>>
    /\ \A e \in Earnings, k \in Keys : <<"CALL", k>> # <<"EARNING", e>>
BY DEF References

\* What WalletService does to the money.
LEMMA WalletStepInv ==
    ASSUME MoneyInv, CallsHold, WalletStep PROVE MoneyInv'
<1> USE DEF MoneyInv
<1>0. LedgerTyped /\ OthersTyped
  BY TypeParts
<1>1. ASSUME NEW w \in Wallets, NEW u \in Users, CreateWallet(w, u) PROVE MoneyInv'
  <2>1. wallet' = [wallet EXCEPT ![w].owner = u] /\ ~HasWallet(u)
    BY <1>1 DEF CreateWallet
  <2>2. UNCHANGED <<ledger, stated, saves, earning, aged, batch, crashes, unavailable, call>>
    BY <1>1 DEF CreateWallet, staffVars, taskVars
  <2>3. /\ wallet' \in [Wallets -> [owner : Users \cup {NoUser}, active : BOOLEAN, balance : Nat]]
        /\ \A v \in Wallets : wallet'[v].balance = wallet[v].balance
        /\ \A v \in Wallets : wallet'[v].owner = IF v = w THEN u ELSE wallet[v].owner
    BY <1>0, <2>1 DEF LedgerTyped
  <2>4. \A v \in Wallets : wallet[v].owner # u
    BY <2>1 DEF HasWallet
  <2>5. ASSUME NEW v \in Wallets, NEW x \in Wallets, wallet'[x].owner \in Users,
               wallet'[v].owner = wallet'[x].owner
        PROVE  v = x
    BY <1>0, <2>3, <2>4, <2>5 DEF LedgerTyped, Taken
  <2>6. LedgerTyped'
    BY <1>0, <2>2, <2>3, <2>5 DEF LedgerTyped, Taken
  <2>7. OthersTyped'
    BY <1>0, <2>2 DEF OthersTyped
  <2>8. QED
    BY <2>2, <2>3, <2>6, <2>7, TypeParts, NothingPosted
<1>2. ASSUME NEW w \in Wallets, NEW u \in Users, NEW active \in BOOLEAN, NEW balance \in Balances,
             SaveWallet(w, u, active, balance)
      PROVE  MoneyInv'
  <2> DEFINE row == [owner |-> u, active |-> active, balance |-> balance]
             now == [rows |-> Len(ledger[w]), balance |-> balance]
  <2>1. /\ wallet' = [wallet EXCEPT ![w] = row]
        /\ stated' = [stated EXCEPT ![w] = now]
        /\ saves < MaxSaves /\ saves' = saves + 1
        /\ wallet[w].owner = u \/ ~HasWallet(u)
    BY <1>2 DEF SaveWallet
  <2>2. UNCHANGED <<ledger, earning, aged, batch, crashes, unavailable, call>>
    BY <1>2 DEF SaveWallet, taskVars
  <2>3. balance \in Nat /\ Len(ledger[w]) \in Nat
    <3>1. balance \in Nat
      BY SettlementAssumption
    <3>2. ledger[w] \in Seq(Transactions)
      BY <1>0 DEF LedgerTyped
    <3>3. QED
      BY <3>1, <3>2
  <2>4. /\ row \in [owner : Users \cup {NoUser}, active : BOOLEAN, balance : Nat]
        /\ now \in [rows : Nat, balance : Nat]
        /\ row.owner = u /\ row.balance = balance
        /\ now.rows = Len(ledger[w]) /\ now.balance = balance
    BY <2>3
  <2> HIDE DEF row, now
  <2>5. /\ wallet' \in [Wallets -> [owner : Users \cup {NoUser}, active : BOOLEAN, balance : Nat]]
        /\ \A v \in Wallets : wallet'[v] = IF v = w THEN row ELSE wallet[v]
    BY <1>0, <2>1, <2>4 DEF LedgerTyped
  <2>6. /\ stated' \in [Wallets -> [rows : Nat, balance : Nat]]
        /\ \A v \in Wallets : stated'[v] = IF v = w THEN now ELSE stated[v]
    BY <1>0, <2>1, <2>4 DEF LedgerTyped
  <2>7. ASSUME NEW v \in Wallets, NEW x \in Wallets, wallet'[x].owner \in Users,
               wallet'[v].owner = wallet'[x].owner
        PROVE  v = x
    <3>1. \A y \in Wallets \ {w} : wallet[y].owner # u
      BY <1>0, <2>1 DEF HasWallet, LedgerTyped, Taken
    <3>2. \A y \in Wallets : wallet'[y].owner = IF y = w THEN u ELSE wallet[y].owner
      BY <2>4, <2>5
    <3>3. CASE v # w /\ x # w
      BY <1>0, <2>7, <3>2, <3>3 DEF LedgerTyped, Taken
    <3>4. CASE v = w \/ x = w
      BY <2>7, <3>1, <3>2, <3>4
    <3>5. QED
      BY <3>3, <3>4
  <2>8. saves' \in 0..MaxSaves
    BY <1>0, <2>1, SettlementAssumption DEF LedgerTyped
  <2>9. LedgerTyped'
    BY <1>0, <2>2, <2>5, <2>6, <2>7, <2>8 DEF LedgerTyped, Taken
  <2>10. OthersTyped'
    BY <1>0, <2>2 DEF OthersTyped
  <2>11. LedgerReplays'
    <3> SUFFICES ASSUME NEW v \in Wallets PROVE Replays(v)'
      BY DEF LedgerReplays
    <3>1. CASE v = w
      <4>1. \A i \in (Len(ledger[w]) + 1)..Len(ledger[w]) : FALSE
        BY <2>3
      <4>2. QED
        BY <2>2, <2>3, <2>4, <2>5, <2>6, <3>1, <4>1 DEF Replays
    <3>2. CASE v # w
      BY <2>2, <2>5, <2>6, <3>2 DEF LedgerReplays, Replays
    <3>3. QED
      BY <3>1, <3>2
  <2>12. QED
    BY <2>2, <2>9, <2>10, <2>11, TypeParts, LedgerKept
<1>3. ASSUME NEW u \in Users, NEW k \in Keys, NEW change \in Changes, DepositOrWithdraw(u, k, change)
      PROVE  MoneyInv'
  <2> DEFINE w == WalletOf(u)
  <2>1. change \in Int
    BY SettlementAssumption
  <2>2. /\ Post(w, <<"CALL", k>>, change) /\ ~Used(<<"CALL", k>>)
        /\ Covered(w, change)
        /\ UNCHANGED earning
    BY <1>3 DEF DepositOrWithdraw
  <2>3. w \in Wallets /\ Taken(w)
    BY <1>3, WalletOfUser DEF DepositOrWithdraw
  <2> HIDE DEF w
  <2>4. wallet[w].balance \in Nat
    BY <1>0, <2>3 DEF LedgerTyped
  <2>5. wallet[w].balance + change \in Nat
    BY <2>1, <2>2, <2>4 DEF Covered
  <2>6. LedgerTyped' /\ LedgerReplays' /\ ReferencesUnique' /\ SettledIsCredited'
    BY <2>1, <2>2, <2>3, <2>5, OtherPosted, ReferenceKinds
  <2>7. OthersTyped'
    BY <1>0, <1>3 DEF DepositOrWithdraw, OthersTyped, taskVars
  <2>8. QED
    BY <2>6, <2>7, TypeParts
<1>4. ASSUME NEW w \in Wallets, NEW k \in Keys, NEW change \in Changes, NEW c \in Callers,
             BeginCall(c, w, k, change)
      PROVE  MoneyInv'
  <2>a. change \in Int
    BY SettlementAssumption
  <2>1. [wallet |-> w, reference |-> <<"CALL", k>>, change |-> change] \in Calls
    BY <2>a DEF Calls
  <2>2. OthersTyped' /\ UNCHANGED <<wallet, ledger, stated, saves, earning>>
    BY <1>0, <1>4, <2>1 DEF BeginCall, OthersTyped, taskVars, staffVars
  <2>3. LedgerTyped'
    BY <1>0, <2>2 DEF LedgerTyped, Taken
  <2>4. QED
    BY <2>2, <2>3, TypeParts, NothingPosted
<1>5. ASSUME NEW c \in Callers, Apply(c) PROVE MoneyInv'
  <2> DEFINE w == call[c].wallet
  <2>1. call[c] \in Calls /\ Taken(w)
    BY <1>0, <1>5 DEF Apply, OthersTyped, CallsHold
  <2>2. PICK k \in Keys : call[c].reference = <<"CALL", k>>
    BY <2>1 DEF Calls
  <2>3. w \in Wallets /\ call[c].change \in Int
    BY <2>1 DEF Calls
  <2>4. OthersTyped' /\ UNCHANGED earning
    BY <1>0, <1>5 DEF Apply, OthersTyped, taskVars
  <2>5. CASE Covered(w, call[c].change) /\ ~Used(call[c].reference)
    <3>1. Post(w, <<"CALL", k>>, call[c].change) /\ ~Used(<<"CALL", k>>)
      BY <1>5, <2>2, <2>5 DEF Apply
    <3> HIDE DEF w
    <3>2. wallet[w].balance \in Nat
      BY <1>0, <2>3 DEF LedgerTyped
    <3>3. wallet[w].balance + call[c].change \in Nat
      BY <2>3, <2>5, <3>2 DEF Covered
    <3>4. LedgerTyped' /\ LedgerReplays' /\ ReferencesUnique' /\ SettledIsCredited'
      BY <2>1, <2>3, <2>4, <3>1, <3>3, OtherPosted, ReferenceKinds
    <3>5. QED
      BY <2>4, <3>4, TypeParts
  <2>6. CASE ~(Covered(w, call[c].change) /\ ~Used(call[c].reference))
    <3>1. UNCHANGED <<wallet, ledger, stated, saves>>
      BY <1>5, <2>6 DEF Apply, NoPost, staffVars
    <3>2. LedgerTyped'
      BY <1>0, <3>1 DEF LedgerTyped, Taken
    <3>3. QED
      BY <2>4, <3>1, <3>2, TypeParts, NothingPosted
  <2>7. QED
    BY <2>5, <2>6
<1>6. QED
  BY <1>1, <1>2, <1>3, <1>4, <1>5 DEF WalletStep

\* A fulfillment is refunded under its own reference.
LEMMA RefundInv ==
    ASSUME MoneyInv, NEW f \in Fulfillments, NEW items, Refund(f, items), UNCHANGED earning,
           HasWallet(CustomerOf[f]), OthersTyped'
    PROVE  MoneyInv'
<1> USE DEF MoneyInv
<1> DEFINE amount == ComputeRefund(f, items)
           w == WalletOf(CustomerOf[f])
<1>0. LedgerTyped
  BY TypeParts
<1>1. CASE Used(<<"REF-FULFILLMENT", f>>) \/ amount \notin Nat \ {0}
  <2>1. UNCHANGED <<wallet, ledger, stated, saves>>
    BY <1>1 DEF Refund, NoPost, staffVars
  <2>2. LedgerTyped'
    BY <1>0, <2>1 DEF LedgerTyped, Taken
  <2>3. QED
    BY <2>1, <2>2, TypeParts, NothingPosted
<1>2. CASE ~Used(<<"REF-FULFILLMENT", f>>) /\ amount \in Nat \ {0}
  <2>1. Post(w, <<"REF-FULFILLMENT", f>>, amount)
    BY <1>2 DEF Refund
  <2>2. w \in Wallets /\ Taken(w)
    BY WalletOfUser, SettlementAssumption
  <2> HIDE DEF amount, w
  <2>3. wallet[w].balance \in Nat
    BY <1>0, <2>2 DEF LedgerTyped, Taken
  <2>4. amount \in Int /\ wallet[w].balance + amount \in Nat
    BY <1>2, <2>3
  <2>5. LedgerTyped' /\ LedgerReplays' /\ ReferencesUnique' /\ SettledIsCredited'
    BY <1>2, <2>1, <2>2, <2>4, OtherPosted, ReferenceKinds
  <2>6. QED
    BY <2>5, TypeParts
<1>3. QED
  BY <1>1, <1>2

LEMMA RefundStepInv ==
    ASSUME MoneyInv, RefundStep PROVE MoneyInv'
<1>0. OthersTyped
  BY TypeParts DEF MoneyInv
<1>1. ASSUME NEW f \in Fulfillments, NEW items \in SUBSET ItemsOf[f], VendorCannotFulfill(f, items)
      PROVE  MoneyInv'
  <2>1. UNCHANGED <<earning, aged, batch, crashes, call>>
    BY <1>1 DEF VendorCannotFulfill, taskVars
  <2>2. unavailable' = [unavailable EXCEPT ![f] = @ \cup items]
    BY <1>1 DEF VendorCannotFulfill
  <2>3. OthersTyped'
    BY <1>0, <2>1, <2>2 DEF OthersTyped
  <2>4. QED
    BY <1>1, <2>1, <2>3, RefundInv DEF VendorCannotFulfill
<1>2. ASSUME NEW f \in Fulfillments, RetryRefund(f) PROVE MoneyInv'
  <2>1. OthersTyped' /\ UNCHANGED earning
    BY <1>0, <1>2 DEF RetryRefund, OthersTyped, taskVars
  <2>2. QED
    BY <1>2, <2>1, RefundInv DEF RetryRefund
<1>3. QED
  BY <1>1, <1>2 DEF RefundStep

\* settle credits what it marks SETTLED and nothing else.
LEMMA SettleEarningInv ==
    ASSUME MoneyInv, NEW e \in Earnings, SettleEarning(e),
           UNCHANGED <<aged, crashes, unavailable, call>>, batch' \in [Workers -> SUBSET Earnings]
    PROVE  MoneyInv'
<1> USE DEF MoneyInv
<1>0. LedgerTyped /\ OthersTyped
  BY TypeParts
<1>1. earning[e] \in [status : {"ABSENT", "PENDING", "SETTLED", "FAILED"}, net : Nat]
  BY <1>0 DEF OthersTyped
<1>2. CASE earning[e].status # "PENDING" \/ (HasWallet(RiderOf[e]) /\ earning[e].net = 0)
  <2>1. UNCHANGED <<wallet, ledger, stated, saves, earning>>
    BY <1>2 DEF SettleEarning, NoPost, staffVars
  <2>2. LedgerTyped' /\ OthersTyped'
    BY <1>0, <2>1 DEF LedgerTyped, OthersTyped, Taken
  <2>3. QED
    BY <2>1, <2>2, TypeParts, NothingPosted
<1>3. CASE earning[e].status = "PENDING" /\ ~HasWallet(RiderOf[e])
  <2>1. /\ earning' = [earning EXCEPT ![e].status = "FAILED"]
        /\ UNCHANGED <<wallet, ledger, stated, saves>>
    BY <1>3 DEF SettleEarning, NoPost, staffVars
  <2>2. LedgerTyped' /\ OthersTyped'
    BY <1>0, <2>1 DEF LedgerTyped, OthersTyped, Taken
  <2>3. \A d \in Earnings : /\ earning'[d].status = "SETTLED" <=> earning[d].status = "SETTLED"
                            /\ earning[d].status = "SETTLED" => earning'[d].net = earning[d].net
    BY <1>0, <1>3, <2>1 DEF OthersTyped
  <2>4. QED
    BY <2>1, <2>2, <2>3, TypeParts, NothingPosted
<1>4. CASE earning[e].status = "PENDING" /\ HasWallet(RiderOf[e]) /\ earning[e].net # 0
  <2>1. ~Used(<<"EARNING", e>>)
    BY <1>4 DEF SettledIsCredited
  <2>2. earning' = [earning EXCEPT ![e].status = "SETTLED"]
    BY <1>4 DEF SettleEarning
  <2> DEFINE w == WalletOf(RiderOf[e])
  <2>3. Post(w, <<"EARNING", e>>, earning[e].net)
    BY <1>4, <2>1 DEF SettleEarning, Credit
  <2>4. w \in Wallets /\ Taken(w) /\ wallet[w].owner = RiderOf[e]
    BY <1>4, WalletOfUser, SettlementAssumption
  <2> HIDE DEF w
  <2>5. wallet[w].balance \in Nat
    BY <1>0, <2>4 DEF LedgerTyped
  <2>6. earning[e].net \in Int /\ wallet[w].balance + earning[e].net \in Nat
    BY <1>1, <2>5
  <2>7. <<"EARNING", e>> \in References
    BY ReferenceKinds
  <2>8. LedgerTyped'
    BY <1>0, <2>3, <2>4, <2>6, <2>7, PostWrites
  <2>9. LedgerReplays'
    BY <1>0, <2>3, <2>4, <2>6, <2>7, PostReplays
  <2>10. ReferencesUnique' /\ \A r : Used(r)' <=> Used(r) \/ r = <<"EARNING", e>>
    BY <1>0, <2>1, <2>3, <2>4, <2>6, <2>7, PostUnique
  <2>11. \A v \in Wallets : \A i \in DOMAIN ledger'[v] :
            \/ i \in DOMAIN ledger[v] /\ ledger'[v][i] = ledger[v][i]
            \/ /\ ledger'[v][i].reference = <<"EARNING", e>>
               /\ ledger'[v][i].change = earning[e].net
               /\ ledger'[v][i].user = RiderOf[e]
    BY <1>0, <2>3, <2>4, <2>6, <2>7, PostAdds
  <2>12. \A d \in Earnings : /\ earning'[d].status = IF d = e THEN "SETTLED" ELSE earning[d].status
                             /\ earning'[d].net = earning[d].net
    BY <1>0, <2>2 DEF OthersTyped
  <2>13. ASSUME NEW d \in Earnings PROVE earning'[d].status = "SETTLED" <=> Used(<<"EARNING", d>>)'
    <3>1. Used(<<"EARNING", d>>)' <=> Used(<<"EARNING", d>>) \/ d = e
      <4>1. <<"EARNING", d>> = <<"EARNING", e>> <=> d = e
        OBVIOUS
      <4>2. QED
        BY <2>10, <4>1
    <3>2. earning[d].status = "SETTLED" <=> Used(<<"EARNING", d>>)
      BY DEF SettledIsCredited
    <3>3. QED
      BY <3>1, <3>2, <2>12
  <2>14. ASSUME NEW d \in Earnings, NEW v \in Wallets, NEW i \in DOMAIN ledger'[v],
                ledger'[v][i].reference = <<"EARNING", d>>
         PROVE  ledger'[v][i].user = RiderOf[d] /\ ledger'[v][i].change = earning'[d].net
    <3>1. CASE i \in DOMAIN ledger[v] /\ ledger'[v][i] = ledger[v][i]
      <4>1. ledger[v][i].reference = <<"EARNING", d>>
        BY <3>1, <2>14
      <4>2. ledger[v][i].user = RiderOf[d] /\ ledger[v][i].change = earning[d].net
        BY <3>1, <4>1 DEF SettledIsCredited
      <4>3. QED
        BY <3>1, <4>2, <2>12
    <3>2. CASE /\ ledger'[v][i].reference = <<"EARNING", e>>
               /\ ledger'[v][i].change = earning[e].net
               /\ ledger'[v][i].user = RiderOf[e]
      <4>1. <<"EARNING", d>> = <<"EARNING", e>>
        BY <3>2, <2>14
      <4>2. d = e
        BY <4>1
      <4>3. QED
        BY <3>2, <4>2, <2>12
    <3>3. QED
      BY <3>1, <3>2, <2>11
  <2>15. SettledIsCredited'
    BY <2>13, <2>14 DEF SettledIsCredited
  <2>16. OthersTyped'
    BY <1>0, <2>2 DEF OthersTyped
  <2>17. QED
    BY <2>8, <2>9, <2>10, <2>15, <2>16, TypeParts
<1>5. QED
  BY <1>1, <1>2, <1>3, <1>4

LEMMA EarningStepInv ==
    ASSUME MoneyInv, EarningStep PROVE MoneyInv'
<1> USE DEF MoneyInv
<1>0. LedgerTyped /\ OthersTyped
  BY TypeParts
<1>1. ASSUME NEW e \in Earnings, CreateRiderEarning(e) PROVE MoneyInv'
  <2>1. PICK net \in Nat : earning' = [earning EXCEPT ![e] = [status |-> "PENDING", net |-> net]]
    BY <1>1 DEF CreateRiderEarning, staffVars
  <2>2. earning[e].status = "ABSENT" /\ UNCHANGED <<wallet, ledger, stated, saves>>
    BY <1>1 DEF CreateRiderEarning, staffVars
  <2>3. LedgerTyped'
    BY <1>0, <2>2 DEF LedgerTyped, Taken
  <2>4. OthersTyped'
    BY <1>0, <1>1, <2>1 DEF OthersTyped, CreateRiderEarning, taskVars
  <2>5. \A d \in Earnings : /\ earning'[d].status = "SETTLED" <=> earning[d].status = "SETTLED"
                            /\ earning[d].status = "SETTLED" => earning'[d].net = earning[d].net
    BY <1>0, <2>1, <2>2 DEF OthersTyped
  <2>6. QED
    BY <2>2, <2>3, <2>4, <2>5, TypeParts, NothingPosted
<1>2. CASE BecomesDue
  <2>1. OthersTyped'
    <3>1. aged' \in 0..EarningCount
      <4>1. EarningCount \in Nat
        BY SettlementAssumption
      <4>2. QED
        BY <1>0, <1>2, <4>1 DEF BecomesDue, OthersTyped
    <3>2. UNCHANGED <<earning, batch, crashes, unavailable, call>>
      BY <1>2 DEF BecomesDue, staffVars
    <3>3. QED
      BY <1>0, <3>1, <3>2 DEF OthersTyped
  <2>2. UNCHANGED <<wallet, ledger, stated, saves, earning>>
    BY <1>2 DEF BecomesDue, staffVars
  <2>3. LedgerTyped'
    BY <1>0, <2>2 DEF LedgerTyped, Taken
  <2>4. QED
    BY <2>1, <2>2, <2>3, TypeParts, NothingPosted
<1>3. ASSUME NEW w \in Workers, StartRun(w) \/ Crash(w) PROVE MoneyInv'
  <2>1. Oldest(Due) \subseteq Earnings
    <3>1. aged \in 0..EarningCount /\ EarningCount \in Nat
      BY <1>0, SettlementAssumption DEF OthersTyped
    <3>2. 1..aged \subseteq Earnings
      BY <3>1 DEF Earnings
    <3>3. QED
      BY <3>2 DEF Oldest, Due
  <2>2. batch' \in [Workers -> SUBSET Earnings]
    BY <1>0, <1>3, <2>1 DEF StartRun, Crash, OthersTyped
  <2>3. crashes' \in 0..MaxCrashes
    <3>1. crashes' = crashes \/ (crashes < MaxCrashes /\ crashes' = crashes + 1)
      BY <1>3 DEF StartRun, Crash
    <3>2. crashes \in 0..MaxCrashes
      BY <1>0 DEF OthersTyped
    <3>3. MaxCrashes \in Nat
      BY SettlementAssumption
    <3>4. CASE crashes' = crashes
      BY <3>2, <3>4
    <3>5. CASE crashes < MaxCrashes /\ crashes' = crashes + 1
      BY <3>2, <3>3, <3>5
    <3>6. QED
      BY <3>1, <3>4, <3>5
  <2>4. UNCHANGED <<wallet, ledger, stated, saves, earning, aged, unavailable, call>>
    BY <1>3 DEF StartRun, Crash, staffVars
  <2>5. OthersTyped'
    BY <1>0, <2>2, <2>3, <2>4 DEF OthersTyped
  <2>6. LedgerTyped'
    BY <1>0, <2>4 DEF LedgerTyped, Taken
  <2>7. QED
    BY <2>4, <2>5, <2>6, TypeParts, NothingPosted
<1>4. ASSUME NEW w \in Workers, SettleNext(w) PROVE MoneyInv'
  <2>1. PICK e \in batch[w] : SettleEarning(e) /\ batch' = [batch EXCEPT ![w] = @ \ {e}]
    BY <1>4 DEF SettleNext
  <2>2. e \in Earnings /\ batch' \in [Workers -> SUBSET Earnings]
    BY <1>0, <2>1 DEF OthersTyped
  <2>3. UNCHANGED <<aged, crashes, unavailable, call>>
    BY <1>4 DEF SettleNext
  <2>4. QED
    BY <2>1, <2>2, <2>3, SettleEarningInv
<1>5. QED
  BY <1>1, <1>2, <1>3, <1>4 DEF EarningStep

LEMMA MoneyInvStep == MoneyInv /\ CallsHold /\ [SettlementNext]_settlementVars => MoneyInv'
<1> SUFFICES ASSUME MoneyInv, CallsHold, [SettlementNext]_settlementVars PROVE MoneyInv'
  OBVIOUS
<1>1. CASE UNCHANGED settlementVars
  <2>1. UNCHANGED <<wallet, ledger, stated, saves, earning, aged, batch, crashes, unavailable, call>>
    BY <1>1 DEF settlementVars, staffVars, taskVars
  <2>2. SettlementTypeOK'
    BY <2>1 DEF MoneyInv, SettlementTypeOK, Taken
  <2>3. QED
    BY <2>1, <2>2, NothingPosted
<1>2. QED
  BY <1>1, WalletStepInv, EarningStepInv, RefundStepInv DEF SettlementNext

\* No step takes a wallet from everybody.
LEMMA WalletsStay ==
    ASSUME MoneyInv, [SettlementNext]_settlementVars, NEW w \in Wallets, Taken(w)
    PROVE  Taken(w)'
<1>0. LedgerTyped
  BY TypeParts DEF MoneyInv
<1>1. ASSUME NEW v, NEW reference, NEW change, Post(v, reference, change) \/ NoPost
      PROVE  Taken(w)'
  <2>1. CASE NoPost
    BY <2>1 DEF NoPost, Taken
  <2>2. CASE wallet' = [wallet EXCEPT ![v].balance = @ + change]
    BY <1>0, <2>2 DEF LedgerTyped, Taken
  <2>3. QED
    BY <1>1, <2>1, <2>2 DEF Post
<1>2. CASE UNCHANGED wallet
  BY <1>2 DEF Taken
<1>3. ASSUME NEW v \in Wallets, NEW u \in Users,
             \/ CreateWallet(v, u)
             \/ \E active \in BOOLEAN, balance \in Balances : SaveWallet(v, u, active, balance)
      PROVE  Taken(w)'
  <2>1. CASE CreateWallet(v, u)
    BY <1>0, <2>1 DEF CreateWallet, LedgerTyped, Taken
  <2>2. ASSUME NEW active, NEW balance,
               wallet' = [wallet EXCEPT ![v] = [owner |-> u, active |-> active, balance |-> balance]]
        PROVE  Taken(w)'
    BY <1>0, <2>2 DEF LedgerTyped, Taken
  <2>3. QED
    BY <1>3, <2>1, <2>2 DEF SaveWallet
<1>4. CASE \/ \E u \in Users, k \in Keys, change \in Changes : DepositOrWithdraw(u, k, change)
           \/ \E c \in Callers : Apply(c)
  BY <1>1, <1>4 DEF DepositOrWithdraw, Apply
<1>5. CASE WalletStep
  BY <1>2, <1>3, <1>4, <1>5 DEF WalletStep, BeginCall
<1>6. CASE EarningStep
  <2>1. CASE \E v \in Workers : SettleNext(v)
    BY <1>1, <2>1 DEF SettleNext, SettleEarning, Credit
  <2>2. QED
    BY <1>2, <1>6, <2>1 DEF EarningStep, CreateRiderEarning, BecomesDue, StartRun, Crash
<1>7. CASE RefundStep
  BY <1>1, <1>7 DEF RefundStep, VendorCannotFulfill, RetryRefund, Refund
<1>8. CASE UNCHANGED settlementVars
  BY <1>2, <1>8 DEF settlementVars
<1>9. QED
  BY <1>5, <1>6, <1>7, <1>8 DEF SettlementNext

LEMMA CallsHoldStep ==
    MoneyInv /\ CallsHold /\ [SettlementNext]_settlementVars => CallsHold'
<1> SUFFICES ASSUME MoneyInv, CallsHold, [SettlementNext]_settlementVars,
                    NEW c \in Callers, call'[c] \in Calls
             PROVE  Taken(call[c].wallet)'
  BY DEF CallsHold
<1>1. CASE call'[c] = call[c]
  <2>1. Taken(call[c].wallet) /\ call[c].wallet \in Wallets
    BY <1>1 DEF CallsHold, Calls
  <2>2. QED
    BY <1>1, <2>1, WalletsStay DEF Taken
<1>2. call \in [Callers -> Calls \cup {Idle}]
  BY DEF MoneyInv, SettlementTypeOK
<1>3. ASSUME NEW d \in Callers, NEW w \in Wallets, NEW k \in Keys, NEW change \in Changes,
             BeginCall(d, w, k, change)
      PROVE  Taken(call[c].wallet)'
  <2>1. CASE c = d
    <3>1. call'[c].wallet = w
      BY <1>2, <1>3, <2>1 DEF BeginCall
    <3>2. Taken(w)'
      BY <1>3, WalletsStay DEF BeginCall
    <3>3. QED
      BY <3>1, <3>2 DEF Taken
  <2>2. CASE c # d
    BY <1>1, <1>2, <1>3, <2>2 DEF BeginCall
  <2>3. QED
    BY <2>1, <2>2
<1>4. ASSUME NEW d \in Callers, Apply(d) PROVE Taken(call[c].wallet)'
  <2>1. CASE c # d
    <3>1. call' = [call EXCEPT ![d] = Idle]
      BY <1>4 DEF Apply
    <3>2. QED
      BY <1>1, <1>2, <2>1, <3>1
  <2>2. CASE c = d
    <3>1. call'[c] = Idle
      BY <1>2, <1>4, <2>2 DEF Apply
    <3>2. Idle \notin Calls
      BY DEF Idle, Calls
    <3>3. QED
      BY <3>1, <3>2
  <2>3. QED
    BY <2>1, <2>2
<1>5. CASE UNCHANGED call
  BY <1>1, <1>5
<1>6. WalletStep => \/ UNCHANGED call
                    \/ \E d \in Callers, w \in Wallets, k \in Keys, change \in Changes :
                            BeginCall(d, w, k, change)
                    \/ \E d \in Callers : Apply(d)
  BY DEF WalletStep, CreateWallet, SaveWallet, DepositOrWithdraw
<1>7. EarningStep \/ RefundStep \/ UNCHANGED settlementVars => UNCHANGED call
  BY DEF EarningStep, RefundStep, settlementVars, CreateRiderEarning, BecomesDue, StartRun,
         SettleNext, Crash, VendorCannotFulfill, RetryRefund
<1>8. CASE WalletStep
  BY <1>3, <1>4, <1>5, <1>6, <1>8
<1>9. QED
  BY <1>5, <1>7, <1>8 DEF SettlementNext

-----------------------------------------------------------------------------
LEMMA MoneyInvariant == SettlementSpec => [](MoneyInv /\ CallsHold)
<1>1. SettlementInit => CallsHold
  <2>1. Idle \notin Calls
    BY DEF Idle, Calls
  <2>2. QED
    BY <2>1 DEF SettlementInit, CallsHold
<1>2. QED
  BY <1>1, SettlementInitInv, MoneyInvStep, CallsHoldStep, PTL DEF SettlementSpec

\* Rows keep their shape and no wallet is ever overdrawn, whatever debits overlap.
THEOREM SettlementShape == SettlementSpec => []SettlementTypeOK
<1>1. MoneyInv => SettlementTypeOK
  BY DEF MoneyInv
<1>2. QED
  BY <1>1, MoneyInvariant, PTL

\* The rows of a wallet replay from what staff last saved to its balance, whichever services
\* wrote them.
THEOREM LedgerInvariant == SettlementSpec => []LedgerReplays
<1>1. MoneyInv => LedgerReplays
  BY DEF MoneyInv
<1>2. QED
  BY <1>1, MoneyInvariant, PTL

\* No reference is posted twice, although credit and debit look it up before the lock.
THEOREM UniqueInvariant == SettlementSpec => []ReferencesUnique
<1>1. MoneyInv => ReferencesUnique
  BY DEF MoneyInv
<1>2. QED
  BY <1>1, MoneyInvariant, PTL

\* SETTLED and credited are the same, for any number of overlapping and dying runs.
THEOREM SettledInvariant == SettlementSpec => []SettledIsCredited
<1>1. MoneyInv => SettledIsCredited
  BY DEF MoneyInv
<1>2. QED
  BY <1>1, MoneyInvariant, PTL

-----------------------------------------------------------------------------
(* Settlement implements Accounts: a step makes one posting under a new     *)
(* reference, or leaves ledgers and balances alone.                         *)

\* One posting, under one of these references.
PostsOne(references) ==
    \E w \in Wallets, r \in references, change \in Int :
        Taken(w) /\ wallet[w].balance + change \in Nat /\ ~Used(r) /\ Post(w, r, change)

PostsNothing ==
    /\ UNCHANGED <<ledger, stated, saves>>
    /\ \A w \in Wallets : wallet'[w].balance = wallet[w].balance

\* Staff save one wallet, and no ledger changes.
StatesOne ==
    /\ UNCHANGED ledger
    /\ saves' = saves + 1
    /\ \E w \in Wallets, u \in Users, active \in BOOLEAN, balance \in Nat :
            wallet' = [wallet EXCEPT ![w] = [owner |-> u, active |-> active, balance |-> balance]]

OtherReferences == ({"EARNING"} \X Earnings) \cup ({"CALL"} \X Keys)

LEMMA WalletStepPosts ==
    ASSUME MoneyInv, CallsHold, WalletStep
    PROVE  (PostsOne(OtherReferences) \/ PostsNothing \/ StatesOne) /\ UNCHANGED unavailable
<1>0. LedgerTyped /\ OthersTyped /\ Changes \subseteq Int /\ Balances \subseteq Nat
  BY TypeParts, SettlementAssumption DEF MoneyInv
<1>1. UNCHANGED unavailable
  BY DEF WalletStep, CreateWallet, SaveWallet, DepositOrWithdraw, BeginCall, Apply
<1>2. ASSUME NEW w \in Wallets, NEW u \in Users, CreateWallet(w, u) PROVE PostsNothing
  BY <1>0, <1>2 DEF CreateWallet, LedgerTyped, PostsNothing, staffVars
<1>3. ASSUME NEW w \in Wallets, NEW u \in Users, NEW active \in BOOLEAN, NEW balance \in Balances,
             SaveWallet(w, u, active, balance)
      PROVE  StatesOne
  BY <1>0, <1>3 DEF SaveWallet, StatesOne
<1>4. ASSUME NEW u \in Users, NEW k \in Keys, NEW change \in Changes, DepositOrWithdraw(u, k, change)
      PROVE  PostsOne(OtherReferences)
  <2> DEFINE w == WalletOf(u)
  <2>1. w \in Wallets /\ Taken(w)
    BY <1>4, WalletOfUser DEF DepositOrWithdraw
  <2>2. <<"CALL", k>> \in OtherReferences /\ ~Used(<<"CALL", k>>) /\ Post(w, <<"CALL", k>>, change)
    BY <1>4 DEF OtherReferences, DepositOrWithdraw
  <2>3. Covered(w, change)
    BY <1>4 DEF DepositOrWithdraw
  <2> HIDE DEF w
  <2>4. wallet[w].balance \in Nat /\ change \in Int
    BY <1>0, <2>1 DEF LedgerTyped
  <2>5. wallet[w].balance + change \in Nat
    BY <2>3, <2>4 DEF Covered
  <2>6. QED
    BY <2>1, <2>2, <2>4, <2>5 DEF PostsOne
<1>5. ASSUME NEW w \in Wallets, NEW k \in Keys, NEW change \in Changes, NEW c \in Callers,
             BeginCall(c, w, k, change)
      PROVE  PostsNothing
  BY <1>5 DEF BeginCall, PostsNothing, staffVars
<1>6. ASSUME NEW c \in Callers, Apply(c) PROVE PostsOne(OtherReferences) \/ PostsNothing
  <2> DEFINE w == call[c].wallet
  <2>1. call[c] \in Calls
    BY <1>0, <1>6 DEF Apply, OthersTyped
  <2>2. /\ w \in Wallets /\ Taken(w)
        /\ call[c].reference \in OtherReferences /\ call[c].change \in Int
    BY <2>1 DEF Calls, OtherReferences, CallsHold
  <2>3. CASE Covered(w, call[c].change) /\ ~Used(call[c].reference)
    <3>1. Post(w, call[c].reference, call[c].change)
      BY <1>6, <2>3 DEF Apply
    <3> HIDE DEF w
    <3>2. wallet[w].balance \in Nat
      BY <1>0, <2>2 DEF LedgerTyped
    <3>3. wallet[w].balance + call[c].change \in Nat
      BY <2>2, <2>3, <3>2 DEF Covered
    <3>4. QED
      BY <2>2, <2>3, <3>1, <3>3 DEF PostsOne
  <2>4. CASE ~(Covered(w, call[c].change) /\ ~Used(call[c].reference))
    BY <1>6, <2>4 DEF Apply, PostsNothing, NoPost, staffVars
  <2>5. QED
    BY <2>3, <2>4
<1>7. QED
  BY <1>1, <1>2, <1>3, <1>4, <1>5, <1>6 DEF WalletStep

LEMMA EarningStepPosts ==
    ASSUME MoneyInv, EarningStep
    PROVE  (PostsOne(OtherReferences) \/ PostsNothing) /\ UNCHANGED unavailable
<1>0. LedgerTyped /\ OthersTyped
  BY TypeParts DEF MoneyInv
<1>1. UNCHANGED unavailable
  BY DEF EarningStep, CreateRiderEarning, BecomesDue, StartRun, SettleNext, Crash
<1>2. CASE \/ \E e \in Earnings : CreateRiderEarning(e)
           \/ BecomesDue
           \/ \E w \in Workers : StartRun(w) \/ Crash(w)
  BY <1>2 DEF CreateRiderEarning, BecomesDue, StartRun, Crash, PostsNothing, staffVars
<1>3. ASSUME NEW w \in Workers, SettleNext(w) PROVE PostsOne(OtherReferences) \/ PostsNothing
  <2>1. PICK e \in batch[w] : SettleEarning(e)
    BY <1>3 DEF SettleNext
  <2>2. e \in Earnings
    BY <1>0 DEF OthersTyped
  <2>3. CASE NoPost
    BY <2>3 DEF PostsNothing, NoPost, staffVars
  <2>4. CASE HasWallet(RiderOf[e]) /\ ~Used(<<"EARNING", e>>) /\ Credit(e)
    <3> DEFINE v == WalletOf(RiderOf[e])
    <3>1. RiderOf[e] \in Users /\ earning[e].net \in Nat
      BY <1>0, <2>2, SettlementAssumption DEF OthersTyped
    <3>2. v \in Wallets /\ Taken(v)
      BY <2>4, <3>1, WalletOfUser
    <3>3. Post(v, <<"EARNING", e>>, earning[e].net)
      BY <2>4 DEF Credit
    <3> HIDE DEF v
    <3>4. wallet[v].balance \in Nat
      BY <1>0, <3>2 DEF LedgerTyped
    <3>5. wallet[v].balance + earning[e].net \in Nat /\ earning[e].net \in Int
      BY <3>1, <3>4
    <3>6. <<"EARNING", e>> \in OtherReferences
      BY <2>2 DEF OtherReferences
    <3>7. QED
      BY <2>4, <3>2, <3>3, <3>5, <3>6 DEF PostsOne
  <2>5. QED
    BY <2>1, <2>3, <2>4 DEF SettleEarning
<1>4. QED
  BY <1>1, <1>2, <1>3 DEF EarningStep

LEMMA RefundPosts ==
    ASSUME MoneyInv, NEW f \in Fulfillments, NEW items, Refund(f, items), HasWallet(CustomerOf[f])
    PROVE  PostsOne(References) \/ PostsNothing
<1> DEFINE amount == ComputeRefund(f, items)
           w == WalletOf(CustomerOf[f])
<1>1. CASE Used(<<"REF-FULFILLMENT", f>>) \/ amount \notin Nat \ {0}
  BY <1>1 DEF Refund, PostsNothing, NoPost, staffVars
<1>2. CASE ~Used(<<"REF-FULFILLMENT", f>>) /\ amount \in Nat \ {0}
  <2>1. Post(w, <<"REF-FULFILLMENT", f>>, amount)
    BY <1>2 DEF Refund
  <2>2. w \in Wallets /\ Taken(w)
    BY WalletOfUser, SettlementAssumption
  <2> HIDE DEF amount, w
  <2>3. wallet[w].balance \in Nat
    BY <2>2 DEF MoneyInv, SettlementTypeOK
  <2>4. amount \in Int /\ wallet[w].balance + amount \in Nat
    BY <1>2, <2>3
  <2>5. QED
    BY <1>2, <2>1, <2>2, <2>4, ReferenceKinds DEF PostsOne
<1>3. QED
  BY <1>1, <1>2

LEMMA StepPosts ==
    ASSUME MoneyInv, CallsHold, [SettlementNext]_settlementVars
    PROVE  PostsOne(References) \/ PostsNothing \/ StatesOne
<1>1. PostsOne(OtherReferences) => PostsOne(References)
  BY DEF PostsOne, OtherReferences, References
<1>2. ASSUME RefundStep PROVE PostsOne(References) \/ PostsNothing
  BY <1>2, RefundPosts DEF RefundStep, VendorCannotFulfill, RetryRefund
<1>3. UNCHANGED settlementVars => PostsNothing
  BY DEF settlementVars, staffVars, PostsNothing
<1>4. QED
  BY <1>1, <1>2, <1>3, WalletStepPosts, EarningStepPosts DEF SettlementNext

\* A posting adds one movement, under a reference that had none.
LEMMA PostMoves ==
    ASSUME LedgerTyped, NEW w \in Wallets, Taken(w), NEW reference \in References, NEW change \in Int,
           wallet[w].balance + change \in Nat, Post(w, reference, change), ~Used(reference)
    PROVE  LET m == [reference |-> reference, account |-> w, change |-> change]
           IN  /\ Movements' = Movements \cup {m}
               /\ \A n \in Movements : n.reference # reference
<1> DEFINE m == [reference |-> reference, account |-> w, change |-> change]
           Row(v, i) == [reference |-> ledger[v][i].reference, account |-> v,
                         change |-> ledger[v][i].change]
           RowNext(v, i) == [reference |-> ledger'[v][i].reference, account |-> v,
                             change |-> ledger'[v][i].change]
<1>1. /\ \A n : n \in Movements <=> \E v \in Wallets : \E i \in DOMAIN ledger[v] : n = Row(v, i)
      /\ \A n : n \in Movements' <=> \E v \in Wallets : \E i \in DOMAIN ledger'[v] : n = RowNext(v, i)
  BY DEF Movements
<1>2. /\ \A v \in Wallets : \A i \in DOMAIN ledger'[v] :
            \/ i \in DOMAIN ledger[v] /\ ledger'[v][i] = ledger[v][i]
            \/ /\ v = w /\ i = Len(ledger[w]) + 1
               /\ ledger'[v][i].reference = reference /\ ledger'[v][i].change = change
      /\ \A v \in Wallets : \A i \in DOMAIN ledger[v] :
            i \in DOMAIN ledger'[v] /\ ledger'[v][i] = ledger[v][i]
      /\ Len(ledger[w]) + 1 \in DOMAIN ledger'[w]
  BY PostAdds
<1>3. ledger'[w][Len(ledger[w]) + 1] =
            [reference |-> reference, user |-> wallet[w].owner, change |-> change,
             before |-> wallet[w].balance, after |-> wallet[w].balance + change]
  BY PostWrites
<1>4. ASSUME NEW n PROVE n \in Movements' <=> n \in Movements \/ n = m
  <2>1. ASSUME n \in Movements' PROVE n \in Movements \/ n = m
    <3>0. PICK v \in Wallets : \E i \in DOMAIN ledger'[v] : n = RowNext(v, i)
      BY <1>1, <2>1
    <3>1. PICK i \in DOMAIN ledger'[v] : n = RowNext(v, i)
      BY <3>0
    <3>2. CASE i \in DOMAIN ledger[v] /\ ledger'[v][i] = ledger[v][i]
      BY <1>1, <3>1, <3>2
    <3>3. CASE /\ v = w /\ i = Len(ledger[w]) + 1
               /\ ledger'[v][i].reference = reference /\ ledger'[v][i].change = change
      BY <3>1, <3>3
    <3>4. QED
      BY <1>2, <3>2, <3>3
  <2>2. ASSUME n \in Movements PROVE n \in Movements'
    BY <1>1, <1>2, <2>2
  <2>3. m = RowNext(w, Len(ledger[w]) + 1)
    BY <1>3
  <2>4. m \in Movements'
    BY <1>1, <1>2, <2>3
  <2>5. QED
    BY <2>1, <2>2, <2>4
<1>5. \A n \in Movements : n.reference # reference
  BY <1>1 DEF Used
<1>6. QED
  BY <1>4, <1>5

LEMMA InitAccounts == SettlementInit => Money!AccountsInit
<1> SUFFICES ASSUME SettlementInit PROVE Money!AccountsInit
  OBVIOUS
<1>1. \A w \in Wallets : DOMAIN ledger[w] = {}
  <2>1. \A w \in Wallets : ledger[w] = <<>>
    BY DEF SettlementInit
  <2>2. DOMAIN <<>> = {}
    OBVIOUS
  <2>3. QED
    BY <2>1, <2>2
<1>2. Movements = {}
  BY <1>1 DEF Movements
<1>3. (\A w \in Wallets : wallet[w].balance = 0) /\ saves = 0
  BY DEF SettlementInit
<1>4. QED
  BY <1>2, <1>3 DEF Money!AccountsInit

LEMMA NextAccounts ==
    MoneyInv /\ CallsHold /\ [SettlementNext]_settlementVars
        => [Money!AccountsNext]_<<[w \in Wallets |-> wallet[w].balance], Movements, saves>>
<1> SUFFICES ASSUME MoneyInv, CallsHold, [SettlementNext]_settlementVars
             PROVE  [Money!AccountsNext]_<<[w \in Wallets |-> wallet[w].balance], Movements, saves>>
  OBVIOUS
<1>0. LedgerTyped
  BY TypeParts DEF MoneyInv
<1> DEFINE balance == [w \in Wallets |-> wallet[w].balance]
<1>1. CASE PostsNothing
  <2>1. Movements' = Movements /\ saves' = saves
    BY <1>1 DEF PostsNothing, Movements
  <2>2. balance' = balance
    BY <1>1 DEF PostsNothing
  <2>3. QED
    BY <2>1, <2>2
<1>2. CASE PostsOne(References)
  <2>1. PICK w \in Wallets, r \in References, change \in Int :
            /\ Taken(w) /\ wallet[w].balance + change \in Nat
            /\ ~Used(r) /\ Post(w, r, change)
    BY <1>2 DEF PostsOne
  <2> DEFINE m == [reference |-> r, account |-> w, change |-> change]
  <2>2. Movements' = Movements \cup {m} /\ \A n \in Movements : n.reference # r
    BY <1>0, <2>1, PostMoves
  <2>3. /\ \A v \in Wallets \ {w} : wallet'[v] = wallet[v]
        /\ wallet'[w].balance = wallet[w].balance + change
    BY <1>0, <2>1, PostWrites
  <2>4. balance' = [balance EXCEPT ![w] = @ + change]
    <3>1. balance' = [v \in Wallets |-> wallet'[v].balance]
      OBVIOUS
    <3>2. \A v \in Wallets : wallet'[v].balance = IF v = w THEN balance[w] + change ELSE balance[v]
      BY <2>3
    <3>3. QED
      BY <3>1, <3>2
  <2>5. m \notin Movements
    BY <2>2
  <2>6. m \in Money!Movements
    BY DEF Money!Movements
  <2>7. balance[w] + change >= 0
    BY <2>1
  <2>8. saves' = saves
    BY <2>1 DEF Post, staffVars
  <2>9. Money!Move(m)
    <3>1. m.reference = r /\ m.account = w /\ m.change = change
      OBVIOUS
    <3> HIDE DEF m, balance
    <3>2. QED
      BY <2>2, <2>4, <2>7, <2>8, <3>1 DEF Money!Move, balance
  <2>10. QED
    BY <2>2, <2>5, <2>6, <2>9 DEF Money!AccountsNext
<1>3. CASE StatesOne
  <2>1. PICK w \in Wallets, u \in Users, active \in BOOLEAN, b \in Nat :
            wallet' = [wallet EXCEPT ![w] = [owner |-> u, active |-> active, balance |-> b]]
    BY <1>3 DEF StatesOne
  <2>2. Movements' = Movements /\ saves' = saves + 1
    BY <1>3 DEF StatesOne, Movements
  <2>3. \A v \in Wallets : wallet'[v].balance = IF v = w THEN b ELSE wallet[v].balance
    BY <1>0, <2>1 DEF LedgerTyped
  <2>4. /\ balance' = [v \in Wallets |-> wallet'[v].balance]
        /\ balance = [v \in Wallets |-> wallet[v].balance]
    OBVIOUS
  <2>5. balance'[w] = b /\ balance' = [balance EXCEPT ![w] = b]
    BY <2>3, <2>4
  <2> HIDE DEF balance
  <2>6. balance' = [balance EXCEPT ![w] = balance'[w]] /\ balance'[w] >= 0
    BY <2>5
  <2>7. Money!State(w)
    BY <2>2, <2>6 DEF Money!State, balance
  <2>8. QED
    BY <2>7 DEF Money!AccountsNext
<1>4. QED
  BY <1>1, <1>2, <1>3, StepPosts

\* Settlement implements Accounts (MoneyMovesOnce): with any number of wallets,
\* earnings, runs of the task and concurrent calls, a reference moves money once, no wallet is
\* overdrawn, and only a save by staff changes a balance otherwise.
THEOREM WalletsImplementAccounts == SettlementSpec => MoneyMovesOnce
<1>1. SettlementSpec => Money!AccountsSpec
  BY InitAccounts, NextAccounts, MoneyInvariant, PTL DEF SettlementSpec, Money!AccountsSpec
<1>2. QED
  BY <1>1 DEF MoneyMovesOnce

-----------------------------------------------------------------------------
(* Refunds.  A posting adds to what is refunded for one fulfillment at most; *)
(* whether one is due is decided by the invariant RefundsCovered, which      *)
(* rests on the sum of a part being at most the sum of the whole.            *)

\* What is refunded for each set of items of a fulfillment.
Worth == [f \in Fulfillments |-> [items \in SUBSET ItemsOf[f] |-> ComputeRefund(f, items)]]

RefundsCovered ==
    \A f \in Fulfillments :
        /\ unavailable[f] \in SUBSET ItemsOf[f]
        /\ Refunds(f) = {} <=> unavailable[f] = {} \/ Worth[f][unavailable[f]] <= 0
        /\ \A r \in Refunds(f) : r.user = CustomerOf[f] /\ r.change \in 1..Worth[f][unavailable[f]]

\* The more is unavailable the more is refunded.
LEMMA RefundGrows ==
    ASSUME NEW f \in Fulfillments, NEW all \in SUBSET ItemsOf[f], NEW some \in SUBSET all
    PROVE  /\ ComputeRefund(f, all) \in Int
           /\ ComputeRefund(f, some) \in Int
           /\ ComputeRefund(f, some) <= ComputeRefund(f, all)
<1> DEFINE whole == all \cap Refundable
           part == some \cap Refundable
<1>1. IsFiniteSet(ItemsOf[f]) /\ (\A i \in ItemsOf[f] : Price[i] \in Nat) /\ Charged[f] \in Int
  BY SettlementAssumption
<1>2. IsFiniteSet(whole) /\ IsFiniteSet(part)
  <2>1. whole \in SUBSET ItemsOf[f] /\ part \in SUBSET ItemsOf[f]
    OBVIOUS
  <2>2. QED
    BY <1>1, <2>1, FS_Subset
<1>3. part \in SUBSET whole /\ (\A i \in whole : Price[i] \in Nat) /\ (\A i \in part : Price[i] \in Nat)
  BY <1>1
<1>4. ComputeRefund(f, all) = Charged[f] + Total(Price, whole)
  BY DEF ComputeRefund, Total
<1>5. ComputeRefund(f, some) = Charged[f] + Total(Price, part)
  BY DEF ComputeRefund, Total
<1> HIDE DEF whole, part
<1>6. Total(Price, whole) \in Nat /\ Total(Price, part) \in Nat
  BY <1>2, <1>3, TotalType
<1>7. Total(Price, part) <= Total(Price, whole)
  BY <1>2, <1>3, TotalMonotone
<1>8. QED
  BY <1>1, <1>4, <1>5, <1>6, <1>7

\* Nothing is refunded for a fulfillment as long as its reference is not used.
LEMMA RefundsUsed ==
    ASSUME NEW f \in Fulfillments
    PROVE  Refunds(f) = {} <=> ~Used(<<"REF-FULFILLMENT", f>>)
<1>1. \A n : n \in Refunds(f) <=>
        \E w \in Wallets : \E i \in DOMAIN ledger[w] :
            /\ ledger[w][i].reference = <<"REF-FULFILLMENT", f>>
            /\ n = [user |-> ledger[w][i].user, change |-> ledger[w][i].change]
  BY DEF Refunds
<1>2. ASSUME Used(<<"REF-FULFILLMENT", f>>) PROVE Refunds(f) # {}
  BY <1>1, <1>2 DEF Used
<1>3. ASSUME Refunds(f) # {} PROVE Used(<<"REF-FULFILLMENT", f>>)
  BY <1>1, <1>3 DEF Used
<1>4. QED
  BY <1>2, <1>3

\* A posting adds to the refunds of the fulfillment its reference names.
LEMMA PostRefunds ==
    ASSUME LedgerTyped, NEW w \in Wallets, Taken(w), NEW reference \in References, NEW change \in Int,
           wallet[w].balance + change \in Nat, Post(w, reference, change), NEW f \in Fulfillments
    PROVE  Refunds(f)' = IF reference = <<"REF-FULFILLMENT", f>>
                         THEN Refunds(f) \cup {[user |-> wallet[w].owner, change |-> change]}
                         ELSE Refunds(f)
<1> DEFINE r == <<"REF-FULFILLMENT", f>>
           Row(v, i) == [user |-> ledger[v][i].user, change |-> ledger[v][i].change]
           RowNext(v, i) == [user |-> ledger'[v][i].user, change |-> ledger'[v][i].change]
           m == [user |-> wallet[w].owner, change |-> change]
           last == Len(ledger[w]) + 1
<1>1. /\ \A n : n \in Refunds(f) <=>
            \E v \in Wallets : \E i \in DOMAIN ledger[v] : ledger[v][i].reference = r /\ n = Row(v, i)
      /\ \A n : n \in Refunds(f)' <=>
            \E v \in Wallets : \E i \in DOMAIN ledger'[v] : ledger'[v][i].reference = r /\ n = RowNext(v, i)
  BY DEF Refunds
<1>2. /\ \A v \in Wallets : \A i \in DOMAIN ledger'[v] :
            \/ i \in DOMAIN ledger[v] /\ ledger'[v][i] = ledger[v][i]
            \/ /\ ledger'[v][i].reference = reference /\ ledger'[v][i].change = change
               /\ ledger'[v][i].user = wallet[w].owner
      /\ \A v \in Wallets : \A i \in DOMAIN ledger[v] :
            i \in DOMAIN ledger'[v] /\ ledger'[v][i] = ledger[v][i]
      /\ last \in DOMAIN ledger'[w]
      /\ ledger'[w][last].reference = reference
  BY PostAdds
<1>3. ledger'[w][last] =
            [reference |-> reference, user |-> wallet[w].owner, change |-> change,
             before |-> wallet[w].balance, after |-> wallet[w].balance + change]
  BY PostWrites
<1>4. RowNext(w, last) = m
  BY <1>3
<1> HIDE DEF r, last
<1>5. \A n \in Refunds(f) : n \in Refunds(f)'
  <2> SUFFICES ASSUME NEW n \in Refunds(f) PROVE n \in Refunds(f)'
    OBVIOUS
  <2>1. PICK v \in Wallets : \E i \in DOMAIN ledger[v] : ledger[v][i].reference = r /\ n = Row(v, i)
    BY <1>1
  <2>2. PICK i \in DOMAIN ledger[v] : ledger[v][i].reference = r /\ n = Row(v, i)
    BY <2>1
  <2>3. i \in DOMAIN ledger'[v] /\ ledger'[v][i] = ledger[v][i]
    BY <1>2
  <2>4. ledger'[v][i].reference = r /\ n = RowNext(v, i)
    BY <2>2, <2>3
  <2>5. QED
    BY <1>1, <2>3, <2>4
<1>6. reference = r => m \in Refunds(f)'
  BY <1>1, <1>2, <1>4
<1>7. ASSUME NEW n \in Refunds(f)' PROVE n \in Refunds(f) \/ (reference = r /\ n = m)
  <2>1. PICK v \in Wallets :
            \E i \in DOMAIN ledger'[v] : ledger'[v][i].reference = r /\ n = RowNext(v, i)
    BY <1>1
  <2>2. PICK i \in DOMAIN ledger'[v] : ledger'[v][i].reference = r /\ n = RowNext(v, i)
    BY <2>1
  <2>3. CASE i \in DOMAIN ledger[v] /\ ledger'[v][i] = ledger[v][i]
    BY <1>1, <2>2, <2>3
  <2>4. CASE /\ ledger'[v][i].reference = reference /\ ledger'[v][i].change = change
             /\ ledger'[v][i].user = wallet[w].owner
    BY <2>2, <2>4
  <2>5. QED
    BY <1>2, <2>3, <2>4
<1>8. CASE reference = r
  <2>1. \A n : n \in Refunds(f)' <=> n \in Refunds(f) \cup {m}
    BY <1>5, <1>6, <1>7, <1>8
  <2>2. QED
    BY <1>8, <2>1 DEF r
<1>9. CASE reference # r
  <2>1. \A n : n \in Refunds(f)' <=> n \in Refunds(f)
    BY <1>5, <1>7, <1>9
  <2>2. QED
    BY <1>9, <2>1 DEF r
<1>10. QED
  BY <1>8, <1>9

\* Neither losses nor refunds change.
RefundsStay == UNCHANGED unavailable /\ \A f \in Fulfillments : Refunds(f)' = Refunds(f)

\* More of f is lost, and refunded if nothing was and something is due now.
LossOf(f, items) ==
    LET due == ComputeRefund(f, items)
    IN  /\ unavailable[f] # items
        /\ unavailable' = [unavailable EXCEPT ![f] = items]
        /\ \A g \in Fulfillments \ {f} : Refunds(g)' = Refunds(g)
        /\ Refunds(f)' = IF Refunds(f) = {} /\ due > 0
                         THEN {[user |-> CustomerOf[f], change |-> due]}
                         ELSE Refunds(f)

\* Nothing is posted for a fulfillment.
LEMMA OthersRefundNothing ==
    ASSUME MoneyInv, PostsOne(OtherReferences) \/ PostsNothing \/ StatesOne, NEW f \in Fulfillments
    PROVE  Refunds(f)' = Refunds(f)
<1>0. LedgerTyped
  BY TypeParts DEF MoneyInv
<1>1. CASE PostsNothing \/ StatesOne
  BY <1>1 DEF PostsNothing, StatesOne, Refunds
<1>2. CASE PostsOne(OtherReferences)
  <2>1. PICK w \in Wallets, r \in OtherReferences, change \in Int :
            Taken(w) /\ wallet[w].balance + change \in Nat /\ Post(w, r, change)
    BY <1>2 DEF PostsOne
  <2>2. r \in References /\ r # <<"REF-FULFILLMENT", f>>
    BY DEF OtherReferences, References
  <2>3. QED
    BY <1>0, <2>1, <2>2, PostRefunds
<1>3. QED
  BY <1>1, <1>2

\* What refund_fulfillment does for the items it is called with.
LEMMA RefundPays ==
    ASSUME MoneyInv, NEW f \in Fulfillments, NEW items \in SUBSET ItemsOf[f], HasWallet(CustomerOf[f]),
           Refund(f, items)
    PROVE  LET due == ComputeRefund(f, items)
           IN  /\ \A g \in Fulfillments \ {f} : Refunds(g)' = Refunds(g)
               /\ Refunds(f)' = IF Refunds(f) = {} /\ due > 0
                                THEN {[user |-> CustomerOf[f], change |-> due]}
                                ELSE Refunds(f)
<1> DEFINE due == ComputeRefund(f, items)
           r == <<"REF-FULFILLMENT", f>>
           w == WalletOf(CustomerOf[f])
<1>0. LedgerTyped
  BY TypeParts DEF MoneyInv
<1>1. due \in Int
  BY RefundGrows
<1>2. Refunds(f) = {} <=> ~Used(r)
  BY RefundsUsed
<1>3. CASE Used(r) \/ due \notin Nat \ {0}
  <2>1. UNCHANGED ledger
    BY <1>3 DEF Refund, NoPost
  <2>2. \A g \in Fulfillments : Refunds(g)' = Refunds(g)
    BY <2>1 DEF Refunds
  <2> HIDE DEF due
  <2>3. ~(Refunds(f) = {} /\ due > 0)
    BY <1>1, <1>2, <1>3
  <2>4. QED
    BY <2>2, <2>3 DEF due
<1>4. CASE ~Used(r) /\ due \in Nat \ {0}
  <2>1. Post(w, r, due)
    BY <1>4 DEF Refund
  <2>2. w \in Wallets /\ Taken(w) /\ wallet[w].owner = CustomerOf[f]
    BY WalletOfUser, SettlementAssumption
  <2> HIDE DEF due, w
  <2>3. wallet[w].balance + due \in Nat /\ due > 0
    BY <1>0, <1>4, <2>2 DEF LedgerTyped
  <2>4. r \in References /\ \A g \in Fulfillments : r = <<"REF-FULFILLMENT", g>> <=> g = f
    BY ReferenceKinds
  <2> HIDE DEF r
  <2>5. \A g \in Fulfillments :
            Refunds(g)' = IF r = <<"REF-FULFILLMENT", g>>
                          THEN Refunds(g) \cup {[user |-> wallet[w].owner, change |-> due]}
                          ELSE Refunds(g)
    BY <1>0, <1>1, <2>1, <2>2, <2>3, <2>4, PostRefunds
  <2>6. \A g \in Fulfillments \ {f} : Refunds(g)' = Refunds(g)
    BY <2>4, <2>5
  <2>7. Refunds(f)' = Refunds(f) \cup {[user |-> CustomerOf[f], change |-> due]}
    BY <2>2, <2>4, <2>5
  <2>8. Refunds(f) = {}
    BY <1>2, <1>4
  <2>9. QED
    BY <2>3, <2>6, <2>7, <2>8 DEF due
<1>5. QED
  BY <1>3, <1>4

LEMMA RefundSteps ==
    ASSUME MoneyInv, CallsHold, RefundsCovered, [SettlementNext]_settlementVars
    PROVE  \/ RefundsStay
           \/ \E f \in Fulfillments : \E items \in SUBSET ItemsOf[f] :
                unavailable[f] \subseteq items /\ LossOf(f, items)
<1>0. OthersTyped
  BY TypeParts DEF MoneyInv
<1>1. ASSUME NEW f \in Fulfillments, NEW items \in SUBSET ItemsOf[f], VendorCannotFulfill(f, items)
      PROVE  \E more \in SUBSET ItemsOf[f] : unavailable[f] \subseteq more /\ LossOf(f, more)
  <2> DEFINE more == unavailable[f] \cup items
  <2>1. unavailable' = [unavailable EXCEPT ![f] = more]
    BY <1>1 DEF VendorCannotFulfill
  <2>2. unavailable'[f] = more
    BY <1>0, <2>1 DEF OthersTyped
  <2>3. Refund(f, more) /\ HasWallet(CustomerOf[f])
    BY <1>1, <2>2 DEF VendorCannotFulfill
  <2>4. more \in SUBSET ItemsOf[f] /\ unavailable[f] \subseteq more /\ unavailable[f] # more
    BY <1>1 DEF RefundsCovered, VendorCannotFulfill
  <2> HIDE DEF more
  <2>5. LossOf(f, more)
    BY <2>1, <2>3, <2>4, RefundPays DEF LossOf
  <2>6. QED
    BY <2>4, <2>5
<1>2. ASSUME NEW f \in Fulfillments, RetryRefund(f) PROVE RefundsStay
  <2>1. /\ Refund(f, unavailable[f]) /\ HasWallet(CustomerOf[f])
        /\ unavailable[f] = ItemsOf[f] /\ UNCHANGED unavailable
    BY <1>2 DEF RetryRefund
  <2>2. unavailable[f] \in SUBSET ItemsOf[f] /\ unavailable[f] # {}
    BY <2>1, SettlementAssumption
  <2> DEFINE due == ComputeRefund(f, unavailable[f])
  <2>3. /\ \A g \in Fulfillments \ {f} : Refunds(g)' = Refunds(g)
        /\ Refunds(f)' = IF Refunds(f) = {} /\ due > 0
                         THEN {[user |-> CustomerOf[f], change |-> due]}
                         ELSE Refunds(f)
    BY <2>1, <2>2, RefundPays
  <2>4. Worth[f][unavailable[f]] = due
    BY <2>2 DEF Worth
  <2>5. due \in Int
    BY <2>2, RefundGrows
  <2> HIDE DEF due
  <2>6. Refunds(f) = {} <=> due <= 0
    BY <2>2, <2>4 DEF RefundsCovered
  <2>7. Refunds(f)' = Refunds(f)
    BY <2>3, <2>5, <2>6
  <2>8. QED
    BY <2>1, <2>3, <2>7 DEF RefundsStay
<1>3. ASSUME WalletStep \/ EarningStep \/ UNCHANGED settlementVars PROVE RefundsStay
  <2>1. UNCHANGED settlementVars => PostsNothing /\ UNCHANGED unavailable
    BY DEF settlementVars, staffVars, PostsNothing
  <2>2. QED
    BY <1>3, <2>1, WalletStepPosts, EarningStepPosts, OthersRefundNothing DEF RefundsStay
<1>4. QED
  BY <1>1, <1>2, <1>3 DEF SettlementNext, RefundStep

LEMMA RefundsCoveredStep ==
    ASSUME MoneyInv, CallsHold, RefundsCovered, [SettlementNext]_settlementVars PROVE RefundsCovered'
<1>1. CASE RefundsStay
  BY <1>1 DEF RefundsStay, RefundsCovered
<1>2. ASSUME NEW f \in Fulfillments, NEW items \in SUBSET ItemsOf[f], unavailable[f] \subseteq items,
             LossOf(f, items)
      PROVE  RefundsCovered'
  <2> DEFINE due == ComputeRefund(f, items)
             before == Worth[f][unavailable[f]]
  <2>0. unavailable \in [Fulfillments -> SUBSET UNION {ItemsOf[g] : g \in Fulfillments}]
    BY DEF MoneyInv, SettlementTypeOK
  <2>1. \A g \in Fulfillments : unavailable'[g] = IF g = f THEN items ELSE unavailable[g]
    BY <1>2, <2>0 DEF LossOf
  <2>2. Worth[f][items] = due
    BY DEF Worth
  <2>3. due \in Int /\ before \in Int /\ before <= due
    <3>1. unavailable[f] \in SUBSET ItemsOf[f]
      BY DEF RefundsCovered
    <3>2. before = ComputeRefund(f, unavailable[f])
      BY <3>1 DEF Worth
    <3>3. QED
      BY <1>2, <3>2, RefundGrows
  <2>4. items # {}
    BY <1>2 DEF LossOf
  <2>5. Refunds(f)' = IF Refunds(f) = {} /\ due > 0
                      THEN {[user |-> CustomerOf[f], change |-> due]} ELSE Refunds(f)
    BY <1>2 DEF LossOf
  <2> HIDE DEF due, before
  <2>6. ASSUME NEW g \in Fulfillments \ {f}
        PROVE  /\ unavailable'[g] \in SUBSET ItemsOf[g]
               /\ Refunds(g)' = {} <=> unavailable'[g] = {} \/ Worth[g][unavailable'[g]] <= 0
               /\ \A r \in Refunds(g)' :
                    r.user = CustomerOf[g] /\ r.change \in 1..Worth[g][unavailable'[g]]
    <3>1. Refunds(g)' = Refunds(g) /\ unavailable'[g] = unavailable[g]
      BY <1>2, <2>1 DEF LossOf
    <3>2. QED
      BY <3>1 DEF RefundsCovered
  <2>7. /\ unavailable[f] = {} \/ before <= 0 <=> Refunds(f) = {}
        /\ \A r \in Refunds(f) : r.user = CustomerOf[f] /\ r.change \in 1..before
    BY DEF RefundsCovered, before
  <2>8. Refunds(f)' = {} <=> items = {} \/ due <= 0
    <3>1. CASE Refunds(f) = {}
      <4>1. Refunds(f)' = IF due > 0 THEN {[user |-> CustomerOf[f], change |-> due]} ELSE {}
        BY <2>5, <3>1
      <4>2. due > 0 <=> ~(due <= 0)
        BY <2>3
      <4>3. QED
        BY <2>4, <4>1, <4>2
    <3>2. CASE Refunds(f) # {}
      <4>1. before > 0
        BY <2>3, <2>7, <3>2
      <4>2. QED
        BY <2>3, <2>4, <2>5, <3>2, <4>1
    <3>3. QED
      BY <3>1, <3>2
  <2>9. \A r \in Refunds(f)' : r.user = CustomerOf[f] /\ r.change \in 1..due
    <3>1. CASE Refunds(f) = {} /\ due > 0
      BY <2>3, <2>5, <3>1
    <3>2. CASE ~(Refunds(f) = {} /\ due > 0)
      BY <2>3, <2>5, <2>7, <3>2
    <3>3. QED
      BY <3>1, <3>2
  <2>10. /\ unavailable'[f] \in SUBSET ItemsOf[f]
         /\ Refunds(f)' = {} <=> unavailable'[f] = {} \/ Worth[f][unavailable'[f]] <= 0
         /\ \A r \in Refunds(f)' :
                r.user = CustomerOf[f] /\ r.change \in 1..Worth[f][unavailable'[f]]
    BY <2>1, <2>2, <2>8, <2>9
  <2>11. QED
    BY <2>6, <2>10 DEF RefundsCovered
<1>3. QED
  BY <1>1, <1>2, RefundSteps

LEMMA RefundsCoveredInvariant == SettlementSpec => []RefundsCovered
<1>1. SettlementInit => RefundsCovered
  <2> SUFFICES ASSUME SettlementInit PROVE RefundsCovered
    OBVIOUS
  <2>1. \A w \in Wallets : DOMAIN ledger[w] = {}
    <3>1. \A w \in Wallets : ledger[w] = <<>>
      BY DEF SettlementInit
    <3>2. DOMAIN <<>> = {}
      OBVIOUS
    <3>3. QED
      BY <3>1, <3>2
  <2>2. \A f \in Fulfillments : unavailable[f] = {} /\ Refunds(f) = {}
    BY <2>1 DEF SettlementInit, Refunds
  <2>3. QED
    BY <2>2 DEF RefundsCovered
<1>2. QED
  BY <1>1, RefundsCoveredStep, MoneyInvariant, PTL DEF SettlementSpec

\* What was refunded for a fulfillment is nothing exactly as long as what its vendor gave up
\* comes to nothing, went to its customer, and is never more than all of that is worth.
RefundCoversLoss ==
    \A f \in Fulfillments :
        LET due == ComputeRefund(f, unavailable[f])
        IN  /\ Refunds(f) = {} <=> unavailable[f] = {} \/ due <= 0
            /\ \A r \in Refunds(f) : r.user = CustomerOf[f] /\ r.change \in 1..due

\* There is a refund exactly if what is unavailable is worth something, to the customer and
\* never above that worth, however many calls it took to get there, for any items, prices
\* and discounts, and whatever staff do to the wallet.  It may be less: what was lost after
\* it was written is not in it (FirstLossIsRefunded).
THEOREM RefundInvariant == SettlementSpec => []RefundCoversLoss
<1>1. RefundsCovered => RefundCoversLoss
  <2> SUFFICES ASSUME RefundsCovered, NEW f \in Fulfillments
      PROVE  LET due == ComputeRefund(f, unavailable[f])
             IN  /\ Refunds(f) = {} <=> unavailable[f] = {} \/ due <= 0
                 /\ \A r \in Refunds(f) : r.user = CustomerOf[f] /\ r.change \in 1..due
    BY DEF RefundCoversLoss
  <2>1. Worth[f][unavailable[f]] = ComputeRefund(f, unavailable[f])
    BY DEF RefundsCovered, Worth
  <2>2. /\ Refunds(f) = {} <=> unavailable[f] = {} \/ Worth[f][unavailable[f]] <= 0
        /\ \A r \in Refunds(f) : r.user = CustomerOf[f] /\ r.change \in 1..Worth[f][unavailable[f]]
    BY DEF RefundsCovered
  <2>3. QED
    BY <2>1, <2>2
<1>2. QED
  BY <1>1, RefundsCoveredInvariant, PTL

\* The refund is paid by the step that makes the loss worth something, is all that is due
\* then, and no other step adds to it or takes from it (FirstLossIsRefunded).
THEOREM FirstLossRefunded == SettlementSpec => FirstLossIsRefunded
<1>1. MoneyInv /\ CallsHold /\ RefundsCovered /\ [SettlementNext]_settlementVars =>
        \A f \in Fulfillments :
            LET due == ComputeRefund(f, unavailable'[f])
            IN  Refunds(f)' =
                    IF Refunds(f) = {} /\ unavailable'[f] # unavailable[f] /\ due > 0
                    THEN {[user |-> CustomerOf[f], change |-> due]}
                    ELSE Refunds(f)
  <2> SUFFICES ASSUME MoneyInv, CallsHold, RefundsCovered, [SettlementNext]_settlementVars,
                      NEW g \in Fulfillments
               PROVE  LET due == ComputeRefund(g, unavailable'[g])
                      IN  Refunds(g)' =
                            IF Refunds(g) = {} /\ unavailable'[g] # unavailable[g] /\ due > 0
                            THEN {[user |-> CustomerOf[g], change |-> due]}
                            ELSE Refunds(g)
    OBVIOUS
  <2>0. unavailable \in [Fulfillments -> SUBSET UNION {ItemsOf[f] : f \in Fulfillments}]
    BY DEF MoneyInv, SettlementTypeOK
  <2>1. CASE RefundsStay
    BY <2>1 DEF RefundsStay
  <2>2. ASSUME NEW f \in Fulfillments, NEW items \in SUBSET ItemsOf[f], LossOf(f, items)
        PROVE  LET due == ComputeRefund(g, unavailable'[g])
               IN  Refunds(g)' =
                        IF Refunds(g) = {} /\ unavailable'[g] # unavailable[g] /\ due > 0
                        THEN {[user |-> CustomerOf[g], change |-> due]}
                        ELSE Refunds(g)
    <3>1. CASE g = f
      <4>1. unavailable'[g] = items /\ unavailable[g] # items
        BY <2>0, <2>2, <3>1 DEF LossOf
      <4>2. QED
        BY <2>2, <3>1, <4>1 DEF LossOf
    <3>2. CASE g # f
      <4>1. unavailable'[g] = unavailable[g] /\ Refunds(g)' = Refunds(g)
        BY <2>0, <2>2, <3>2 DEF LossOf
      <4>2. QED
        BY <4>1
    <3>3. QED
      BY <3>1, <3>2
  <2>3. QED
    BY <2>1, <2>2, RefundSteps
<1>2. QED
  BY <1>1, MoneyInvariant, RefundsCoveredInvariant, PTL DEF SettlementSpec, FirstLossIsRefunded

-----------------------------------------------------------------------------
(* Balances as sums.                                                        *)

Change(w) == [i \in 1..Len(ledger[w]) |-> ledger[w][i].change]

\* "The wallet ledger is fully auditable" (wallet_service.py:8), as far as it is true: what
\* a wallet has gained or lost since staff last saved it is what its rows since then add up to.
BalancesAreSums ==
    \A w \in Wallets :
        wallet[w].balance =
            stated[w].balance + Total(Change(w), (stated[w].rows + 1)..Len(ledger[w]))

\* Row by row: the changes from the k-th row to the n-th lead from one balance to the other.
LEMMA ReplayIsSum ==
    ASSUME LedgerTyped, NEW w \in Wallets, Replays(w), NEW n \in stated[w].rows..Len(ledger[w])
    PROVE  stated[w].balance + Total(Change(w), (stated[w].rows + 1)..n) =
                IF n = stated[w].rows THEN stated[w].balance ELSE ledger[w][n].after
<1> DEFINE k == stated[w].rows
           start == stated[w].balance
           rows == Len(ledger[w])
           change == Change(w)
           after(m) == IF m = k THEN start ELSE ledger[w][m].after
           Wrong == {m \in k..rows : start + Total(change, (k + 1)..m) # after(m)}
<1>1. /\ rows \in Nat /\ k \in Nat /\ start \in Nat
      /\ \A i \in 1..rows : ledger[w][i] \in Transactions
  <2>1. ledger[w] \in Seq(Transactions) /\ k \in Nat /\ start \in Nat
    BY DEF LedgerTyped
  <2>2. rows \in Nat /\ \A i \in 1..rows : ledger[w][i] \in Transactions
    BY <2>1
  <2>3. QED
    BY <2>1, <2>2
<1>2. \A i \in 1..rows : change[i] = ledger[w][i].change /\ change[i] \in Int
  BY <1>1 DEF Transactions, Change
<1>3. \A i \in (k + 1)..rows : ledger[w][i].after = after(i - 1) + change[i]
  <2> SUFFICES ASSUME NEW i \in (k + 1)..rows PROVE ledger[w][i].after = after(i - 1) + change[i]
    OBVIOUS
  <2>1. /\ ledger[w][i].before = IF i = k + 1 THEN start ELSE ledger[w][i - 1].after
        /\ ledger[w][i].after = ledger[w][i].before + ledger[w][i].change
    BY DEF Replays
  <2> HIDE DEF k, start, rows, change
  <2>2. (i = k + 1 <=> i - 1 = k) /\ i \in 1..rows
    BY <1>1
  <2>3. QED
    BY <1>2, <2>1, <2>2
<1> HIDE DEF change, after, k, start, rows
<1>4. n \in k..rows
  BY DEF k, rows
<1>5. SUFFICES ASSUME Wrong # {} PROVE FALSE
  <2>1. n \notin Wrong
    BY <1>5
  <2>2. start + Total(change, (k + 1)..n) = after(n)
    BY <1>4, <2>1
  <2>3. QED
    BY <2>2 DEF change, after, k, start
<1>6. Wrong \in SUBSET Nat
  BY <1>1
<1> HIDE DEF Wrong
<1>7. PICK m \in Wrong : \A l \in Wrong : m <= l
  BY <1>5, <1>6, LeastNatural
<1>8. m \in k..rows /\ start + Total(change, (k + 1)..m) # after(m)
  BY DEF Wrong
<1>9. m # k
  <2>1. Total(change, {}) = 0
    BY TotalZero, FS_EmptySet
  <2>2. (k + 1)..k = {} /\ after(k) = start /\ start + 0 = start
    BY <1>1 DEF after
  <2>3. QED
    BY <1>8, <2>1, <2>2
<1>10. m - 1 \in k..rows /\ m - 1 \notin Wrong /\ m \in (k + 1)..rows /\ m \in 1..rows
  BY <1>1, <1>6, <1>7, <1>8, <1>9
<1>11. start + Total(change, (k + 1)..(m - 1)) = after(m - 1)
  BY <1>10 DEF Wrong
<1> DEFINE S == (k + 1)..(m - 1)
<1>12. IsFiniteSet(S) /\ m \notin S /\ (k + 1)..m = S \cup {m} /\ S \subseteq 1..rows
  <2>1. k + 1 \in Int /\ m - 1 \in Int
    BY <1>1, <1>10
  <2>2. IsFiniteSet((k + 1)..(m - 1))
    BY <2>1, FS_Interval
  <2>3. QED
    BY <1>1, <1>10, <2>2
<1>13. change[m] \in Int /\ \A i \in S : change[i] \in Int
  BY <1>2, <1>10, <1>12
<1> HIDE DEF S
<1>14. Total(change, S \cup {m}) = Total(change, S) + change[m] /\ Total(change, S) \in Int
  BY <1>12, <1>13, TotalInsert, TotalIsInteger
<1>15. after(m) = after(m - 1) + change[m]
  BY <1>3, <1>9, <1>10 DEF after
<1>16. start + Total(change, S) = after(m - 1)
  BY <1>11 DEF S
<1>17. start + Total(change, S \cup {m}) = after(m)
  BY <1>1, <1>13, <1>14, <1>15, <1>16
<1>18. QED
  BY <1>8, <1>12, <1>17

\* Every service reads and writes balances on its own; none loses a change or makes one
\* twice.  What staff saved is the start of the account, never a part of the sum.
THEOREM BalanceInvariant == SettlementSpec => []BalancesAreSums
<1>1. MoneyInv => BalancesAreSums
  <2> SUFFICES ASSUME MoneyInv, NEW w \in Wallets
      PROVE  wallet[w].balance =
                stated[w].balance + Total(Change(w), (stated[w].rows + 1)..Len(ledger[w]))
    BY DEF BalancesAreSums
  <2>1. LedgerTyped /\ Replays(w)
    BY TypeParts DEF MoneyInv, LedgerReplays
  <2>2. ledger[w] \in Seq(Transactions) /\ stated[w].rows \in Nat
    BY <2>1 DEF LedgerTyped
  <2>3. Len(ledger[w]) \in Nat
    BY <2>2
  <2>4. /\ stated[w].rows <= Len(ledger[w])
        /\ wallet[w].balance = IF Len(ledger[w]) = stated[w].rows
                               THEN stated[w].balance ELSE ledger[w][Len(ledger[w])].after
    BY <2>1 DEF Replays
  <2>5. Len(ledger[w]) \in stated[w].rows..Len(ledger[w])
    BY <2>2, <2>3, <2>4
  <2>6. QED
    BY <2>1, <2>4, <2>5, ReplayIsSum
<1>2. QED
  BY <1>1, MoneyInvariant, PTL

-----------------------------------------------------------------------------
(* Earnings.                                                                *)

\* Rounding half to even moves a quotient by at most a half.
LEMMA RoundingIsClose ==
    ASSUME NEW n \in Nat, NEW d \in Nat, d > 0
    PROVE  /\ RoundedQuotient(n, d) \in Nat
           /\ 2 * (d * RoundedQuotient(n, d) - n) <= d
           /\ 2 * (n - d * RoundedQuotient(n, d)) <= d
<1> DEFINE q == n \div d
           r == n % d
           t == d * q
<1>1. q \in Nat /\ r \in 0..(d - 1) /\ n = t + r /\ t \in Nat
  OBVIOUS
<1>2. d * (q + 1) = t + d
  BY <1>1
<1>3. RoundedQuotient(n, d) = q + 1 \/ RoundedQuotient(n, d) = q
  BY DEF RoundedQuotient
<1>4. CASE RoundedQuotient(n, d) = q + 1
  <2>1. 2 * r >= d
    BY <1>1, <1>4 DEF RoundedQuotient
  <2>2. d * RoundedQuotient(n, d) = t + d
    BY <1>2, <1>4
  <2> HIDE DEF q, r, t
  <2>3. QED
    BY <1>1, <1>4, <2>1, <2>2
<1>5. CASE RoundedQuotient(n, d) = q
  <2>1. 2 * r <= d
    BY <1>1, <1>5 DEF RoundedQuotient
  <2>2. d * RoundedQuotient(n, d) = t
    BY <1>5
  <2> HIDE DEF q, r, t
  <2>3. QED
    BY <1>1, <1>5, <2>1, <2>2
<1>6. QED
  BY <1>3, <1>4, <1>5

\* The commission that calculate_commission rounds to kobo is within half a kobo of the
\* percentage, and never more than the fee: whichever percentage between 0 and 100 is
\* configured, RiderEarning.clean never refuses an earning because of it.
THEOREM CommissionFits ==
    ASSUME NEW gross \in Nat, NEW percentage \in Nat, percentage <= 10000
    PROVE  /\ Commission(gross, percentage) \in 0..gross
           /\ 2 * (10000 * Commission(gross, percentage) - gross * percentage) <= 10000
           /\ 2 * (gross * percentage - 10000 * Commission(gross, percentage)) <= 10000
<1> DEFINE n == gross * percentage
           c == Commission(gross, percentage)
<1>1. n \in Nat /\ n <= 10000 * gross
  OBVIOUS
<1>2. c = RoundedQuotient(n, 10000)
  BY DEF Commission
<1> HIDE DEF n, c
<1>3. /\ RoundedQuotient(n, 10000) \in Nat
      /\ 2 * (10000 * RoundedQuotient(n, 10000) - n) <= 10000
      /\ 2 * (n - 10000 * RoundedQuotient(n, 10000)) <= 10000
  BY <1>1, RoundingIsClose
<1>4. c \in Nat /\ 2 * (10000 * c - n) <= 10000 /\ 2 * (n - 10000 * c) <= 10000
  BY <1>2, <1>3
<1>5. c <= gross
  BY <1>1, <1>4
<1>6. c \in 0..gross
  BY <1>4, <1>5
<1>7. QED
  BY <1>4, <1>6 DEF n, c

\* What follows for a percentage that may be configured (the bound has a name here: as a
\* numeral it is beyond the provers).
LEMMA CommissionBelow ==
    ASSUME NEW gross \in Nat, NEW p \in Percentages
    PROVE  p \in Nat /\ Commission(gross, p) \in 0..gross
<1> DEFINE whole == 10000
<1>1. Percentages \subseteq 0..whole /\ whole \in Nat
  BY SettlementAssumption
<1>2. \A q \in Nat : q <= whole => Commission(gross, q) \in 0..gross
  BY CommissionFits
<1> HIDE DEF whole
<1>3. p \in Nat /\ p <= whole
  BY <1>1
<1>4. QED
  BY <1>2, <1>3

\* What may happen to an earning: it is created, or one that is PENDING is settled or fails.
LEMMA EarningChanges ==
    ASSUME SettlementTypeOK, [SettlementNext]_settlementVars
    PROVE  \/ UNCHANGED earning
           \/ \E e \in Earnings : CreateRiderEarning(e)
           \/ \E e \in Earnings, status \in {"SETTLED", "FAILED"} :
                earning[e].status = "PENDING" /\ earning' = [earning EXCEPT ![e].status = status]
<1>1. CASE WalletStep \/ RefundStep \/ UNCHANGED settlementVars
  BY <1>1 DEF WalletStep, RefundStep, CreateWallet, SaveWallet, DepositOrWithdraw, BeginCall,
              Apply, VendorCannotFulfill, RetryRefund, settlementVars
<1>2. CASE EarningStep
  <2>1. CASE BecomesDue \/ \E w \in Workers : StartRun(w) \/ Crash(w)
    BY <2>1 DEF BecomesDue, StartRun, Crash
  <2>2. CASE \E w \in Workers : SettleNext(w)
    <3>1. PICK w \in Workers : SettleNext(w)
      BY <2>2
    <3>2. PICK e \in batch[w] : SettleEarning(e)
      BY <3>1 DEF SettleNext
    <3>3. e \in Earnings
      BY DEF SettlementTypeOK
    <3>4. QED
      BY <3>2, <3>3 DEF SettleEarning
  <2>3. QED
    BY <1>2, <2>1, <2>2 DEF EarningStep
<1>3. QED
  BY <1>1, <1>2 DEF SettlementNext

\* An earning is the fee less the commission that was in force when it was created.
NetIsAgreed ==
    \A e \in Earnings : earning[e].status # "ABSENT" =>
        \E p \in Percentages : earning[e].net = Fee[e] - Commission(Fee[e], p)

LEMMA NetIsKept ==
    SettlementTypeOK /\ NetIsAgreed /\ [SettlementNext]_settlementVars => NetIsAgreed'
<1> SUFFICES ASSUME SettlementTypeOK, NetIsAgreed, [SettlementNext]_settlementVars,
                    NEW d \in Earnings, earning'[d].status # "ABSENT"
    PROVE  \E p \in Percentages : earning'[d].net = Fee[d] - Commission(Fee[d], p)
  BY DEF NetIsAgreed
<1>0. earning \in [Earnings -> [status : {"ABSENT", "PENDING", "SETTLED", "FAILED"}, net : Nat]]
  BY DEF SettlementTypeOK
<1>1. CASE earning[d].status # "ABSENT" /\ earning'[d].net = earning[d].net
  BY <1>1 DEF NetIsAgreed
<1>2. CASE UNCHANGED earning
  BY <1>1, <1>2
<1>3. ASSUME NEW e \in Earnings, NEW status \in {"SETTLED", "FAILED"},
             earning[e].status = "PENDING", earning' = [earning EXCEPT ![e].status = status]
      PROVE  earning[d].status # "ABSENT" /\ earning'[d].net = earning[d].net
  BY <1>0, <1>3
<1>4. ASSUME NEW e \in Earnings, CreateRiderEarning(e)
      PROVE  \E p \in Percentages : earning'[d].net = Fee[d] - Commission(Fee[d], p)
  <2>1. PICK p \in Percentages :
            earning' = [earning EXCEPT ![e] = [status |-> "PENDING",
                                               net |-> Fee[e] - Commission(Fee[e], p)]]
    BY <1>4 DEF CreateRiderEarning
  <2>2. CASE d = e
    BY <1>0, <2>1, <2>2
  <2>3. CASE d # e
    BY <1>0, <1>1, <2>1, <2>3
  <2>4. QED
    BY <2>2, <2>3
<1>5. QED
  BY <1>1, <1>2, <1>3, <1>4, EarningChanges

LEMMA NetInvariant == SettlementSpec => []NetIsAgreed
<1>1. SettlementInit => NetIsAgreed
  BY DEF SettlementInit, NetIsAgreed
<1>2. MoneyInv => SettlementTypeOK
  BY DEF MoneyInv
<1>3. QED
  BY <1>1, <1>2, NetIsKept, MoneyInvariant, PTL DEF SettlementSpec

\* What a rider's ledger holds for a delivery is the fee less the commission in force when
\* it was created, between nothing and the whole fee, in the wallet that was its rider's.
PaidAsAgreed ==
    \A e \in Earnings : \A w \in Wallets : \A i \in DOMAIN ledger[w] :
        ledger[w][i].reference = <<"EARNING", e>> =>
            /\ ledger[w][i].user = RiderOf[e]
            /\ ledger[w][i].change \in 0..Fee[e]
            /\ \E p \in Percentages : ledger[w][i].change = Fee[e] - Commission(Fee[e], p)

\* From the delivered order to the wallet a rider's pay is what was agreed, whichever run
\* of the task settles it and however the configured commission changes meanwhile.
THEOREM RiderPayInvariant == SettlementSpec => []PaidAsAgreed
<1>1. MoneyInv /\ NetIsAgreed => PaidAsAgreed
  <2> SUFFICES ASSUME MoneyInv, NetIsAgreed, NEW e \in Earnings, NEW w \in Wallets,
                      NEW i \in DOMAIN ledger[w], ledger[w][i].reference = <<"EARNING", e>>
      PROVE  /\ ledger[w][i].user = RiderOf[e]
             /\ ledger[w][i].change \in 0..Fee[e]
             /\ \E p \in Percentages : ledger[w][i].change = Fee[e] - Commission(Fee[e], p)
    BY DEF PaidAsAgreed
  <2>1. ledger[w][i].user = RiderOf[e] /\ ledger[w][i].change = earning[e].net /\ Used(<<"EARNING", e>>)
    BY DEF MoneyInv, SettledIsCredited, Used
  <2>2. earning[e].status = "SETTLED"
    BY <2>1 DEF MoneyInv, SettledIsCredited
  <2>3. PICK p \in Percentages : earning[e].net = Fee[e] - Commission(Fee[e], p)
    BY <2>2 DEF NetIsAgreed
  <2>4. Fee[e] \in Nat
    BY SettlementAssumption
  <2>5. Commission(Fee[e], p) \in 0..Fee[e]
    BY <2>4, CommissionBelow
  <2>6. QED
    BY <2>1, <2>3, <2>4, <2>5
<1>2. QED
  BY <1>1, MoneyInvariant, NetInvariant, PTL

\* The amount of an earning never changes, and one that is SETTLED or FAILED stays so: a
\* rider who had no wallet when the task came by is not paid later (settle looks at
\* PENDING earnings only, and nothing puts a FAILED one back).
EarningIsFinal ==
    [][\A e \in Earnings :
        /\ earning[e].status # "ABSENT" => earning'[e].net = earning[e].net
        /\ earning[e].status \in {"SETTLED", "FAILED"} => earning'[e] = earning[e]]_settlementVars

\* The same as a theorem: no replayed run, crash or new commission reopens an earning.
THEOREM EarningsAreFinal == SettlementSpec => EarningIsFinal
<1>1. MoneyInv /\ [SettlementNext]_settlementVars =>
        \A e \in Earnings :
            /\ earning[e].status # "ABSENT" => earning'[e].net = earning[e].net
            /\ earning[e].status \in {"SETTLED", "FAILED"} => earning'[e] = earning[e]
  <2> SUFFICES ASSUME MoneyInv, [SettlementNext]_settlementVars, NEW d \in Earnings
      PROVE  /\ earning[d].status # "ABSENT" => earning'[d].net = earning[d].net
             /\ earning[d].status \in {"SETTLED", "FAILED"} => earning'[d] = earning[d]
    OBVIOUS
  <2>0. /\ SettlementTypeOK
        /\ earning \in [Earnings -> [status : {"ABSENT", "PENDING", "SETTLED", "FAILED"}, net : Nat]]
    BY DEF MoneyInv, SettlementTypeOK
  <2>1. ASSUME NEW e \in Earnings, CreateRiderEarning(e)
        PROVE  /\ earning[d].status # "ABSENT" => earning'[d].net = earning[d].net
               /\ earning[d].status \in {"SETTLED", "FAILED"} => earning'[d] = earning[d]
    BY <2>0, <2>1 DEF CreateRiderEarning
  <2>2. ASSUME NEW e \in Earnings, NEW status \in {"SETTLED", "FAILED"},
               earning[e].status = "PENDING", earning' = [earning EXCEPT ![e].status = status]
        PROVE  /\ earning[d].status # "ABSENT" => earning'[d].net = earning[d].net
               /\ earning[d].status \in {"SETTLED", "FAILED"} => earning'[d] = earning[d]
    BY <2>0, <2>2
  <2>3. QED
    BY <2>0, <2>1, <2>2, EarningChanges
<1>2. QED
  BY <1>1, MoneyInvariant, PTL DEF SettlementSpec, EarningIsFinal
=============================================================================
