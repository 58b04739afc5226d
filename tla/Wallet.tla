------------------------------- MODULE Wallet -------------------------------
(***************************************************************************)
(* The money column of the users table, and the statements that change it. *)
(*                                                                         *)
(* Billing and Payments work on this column through the operators below,   *)
(* the way every handler of the program works on it through an UPDATE      *)
(* statement.  SQLite runs one write transaction at a time, so a gorm      *)
(* transaction is one step of a model.                                     *)
(* Amounts are decimals in the program and integers (a smallest unit) here.*)
(***************************************************************************)
EXTENDS Integers

CONSTANTS
    Users,          \* the user rows that exist at the start
    OpeningBalances,\* the balances the rows may hold at the start
    AdminBalances,  \* the balances an administrator may type in
    MaxChurn        \* bound: what owners and administrators do, what fails

ASSUME BalancesAssumption ==
    OpeningBalances \subseteq Int /\ AdminBalances \subseteq Int /\ MaxChurn \in Nat

VARIABLES
    live,       \* the users whose row still exists
    balance,    \* users.balance
    opening,    \* history variable: the balance a user would have had no
                \* charge and no credit been posted since the account opened
    churn       \* interventions so far (only the bound reads it)

walletVars == <<live, balance, opening>>

WalletTypeOK ==
    /\ live \subseteq Users
    /\ balance \in [Users -> Int]
    /\ opening \in [Users -> Int]

WalletInit ==
    /\ live = Users
    /\ balance \in [Users -> OpeningBalances]
    /\ opening = balance

(* Of the actions the bound counts.                                        *)
Intervene == churn < MaxChurn /\ churn' = churn + 1

CreditedFromCopy(bal, u, amount) ==            \* mutant: a row read earlier
    IF u \in live THEN [balance EXCEPT ![u] = @ + amount] ELSE bal

(* UPDATE users SET balance = balance + amount WHERE id = u: no row, no    *)
(* credit, and no error either.                                            *)
Credited(bal, u, amount) ==
    IF u \in live THEN [bal EXCEPT ![u] = @ + amount] ELSE bal

CanPayWithoutCheck(u, cost) ==                 \* mutant: no balance >= cost
    \/ cost <= 0
    \/ u \in live

(* The WHERE clause of the charge: a free request always passes, any other *)
(* needs a row that can pay the whole cost.                                *)
CanPay(u, cost) ==
    \/ cost <= 0
    \/ u \in live /\ balance[u] >= cost

Debited(bal, u, cost) ==
    IF cost <= 0 THEN bal ELSE [bal EXCEPT ![u] = @ - cost]

(* The administrator types an absolute balance: what was posted between    *)
(* the reading of the page and this write is overwritten.                  *)
AdminUpdateBalance(u, v) ==
    /\ u \in live
    /\ balance' = [balance EXCEPT ![u] = v]
    /\ opening' = [opening EXCEPT ![u] = @ + (v - balance[u])]
    /\ UNCHANGED live

(* The row goes; keys, logs, orders and commissions that name it stay.     *)
DeleteUser(u) ==
    /\ u \in live
    /\ live' = live \ {u}
    /\ UNCHANGED <<balance, opening>>
=============================================================================
