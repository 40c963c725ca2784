------------------------------ MODULE Accounts ------------------------------
(***************************************************************************)
(* What wallets promise, without their locks, lookups and retries          *)
(* (wallet/service/wallet_service.py): under one reference money moves at  *)
(* most once, in one account, and no account is overdrawn.  Staff may      *)
(* state the balance of an account (wallet/admin.py).                      *)
(***************************************************************************)
EXTENDS Integers

CONSTANTS
    Accounts,
    References        \* what a movement of money is made for

VARIABLES
    balance,          \* of an account
    moved,            \* the movements made
    statements        \* how often staff stated a balance

Movements == [reference : References, account : Accounts, change : Int]

AccountsInit ==
    /\ balance = [a \in Accounts |-> 0]
    /\ moved = {}
    /\ statements = 0

Move(m) ==
    /\ \A n \in moved : n.reference # m.reference
    /\ balance[m.account] + m.change >= 0
    /\ moved' = moved \cup {m}
    /\ balance' = [balance EXCEPT ![m.account] = @ + m.change]
    /\ UNCHANGED statements

\* The balance of one account becomes anything that is not negative.
State(a) ==
    /\ balance' = [balance EXCEPT ![a] = balance'[a]]
    /\ balance'[a] >= 0
    /\ statements' = statements + 1
    /\ UNCHANGED moved

\* Which movement it is, what is added to moved says.
AccountsNext ==
    \/ \E m \in moved' \ moved : m \in Movements /\ Move(m)
    \/ \E a \in Accounts : State(a)

AccountsSpec == AccountsInit /\ [][AccountsNext]_<<balance, moved, statements>>
=============================================================================
