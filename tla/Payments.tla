------------------------------ MODULE Payments ------------------------------
(***************************************************************************)
(* Recharging a balance through a payment gateway: a user places an order, *)
(* pays it at the gateway, and the gateway reports the trade twice over:   *)
(* it notifies the server until it is told "success", and it sends the     *)
(* user's browser back with the same parameters, any number of times.      *)
(*                                                                         *)
(* Every callback verifies the report with the gateway settings of the     *)
(* moment and settles the order in one transaction.                        *)
(***************************************************************************)
EXTENDS Wallet, Sequences, FiniteSets, FiniteSetsExt

CONSTANTS
    Orders,         \* order numbers
    Callbacks,      \* goroutines that serve callbacks
    Amounts,        \* amounts a user may recharge
    Rates,          \* payment_usd_to_rmb_rate
    Cent            \* the smallest price, in units of amount times rate

ASSUME PaymentsAssumption ==
    /\ Amounts \subseteq Nat \ {0}
    /\ Rates \subseteq Nat \ {0}
    /\ Cent \in Nat \ {0}

VARIABLES
    orders,         \* payment_orders, by order number; NoOrder before
    provider,       \* system_settings: payment_gateway_provider
    rate,           \* system_settings: payment_usd_to_rmb_rate
    trades,         \* what was paid at a gateway (the gateway's own books)
    acked,          \* trades whose notification was answered with "success"
    callback,       \* the callbacks being served
    credits         \* history: the credits the callbacks have committed

orderVars == <<orders, provider, rate, trades, acked, callback, credits, churn>>
paymentVars == <<walletVars, orderVars>>

Providers == {"yipay", "openpayment"}

NoOrder == [status |-> "absent"]

OrderRow ==
    [status: {"pending", "paid"}, user: Users, amount: Nat, rmb: Nat, provider: Providers]

Trade == [order: Orders, money: Nat, provider: Providers]

(* A callback is verified, then settled, then answered.                    *)
NoCallback == [pc |-> "idle"]

Callback == [pc: {"verified", "settled"}, trade: Trade, via: {"notify", "return"}]

Credit == [order: Orders, user: Users, amount: Nat]

PaymentsTypeOK ==
    /\ WalletTypeOK
    /\ orders \in [Orders -> OrderRow \cup {NoOrder}]
    /\ provider \in Providers
    /\ rate \in Rates
    /\ trades \subseteq Trade
    /\ acked \subseteq trades
    /\ callback \in [Callbacks -> Callback \cup {NoCallback}]
    /\ credits \in Seq(Credit)
    /\ churn \in 0 .. MaxChurn

PaymentsInit ==
    /\ WalletInit
    /\ orders = [o \in Orders |-> NoOrder]
    /\ provider \in Providers
    /\ rate \in Rates
    /\ trades = {}
    /\ acked = {}
    /\ callback = [c \in Callbacks |-> NoCallback]
    /\ credits = <<>>
    /\ churn = 0

Placed(o) == orders[o] # NoOrder

-----------------------------------------------------------------------------
(* The user and the gateway.                                               *)

RoundToCents(x) == (x + Cent \div 2) \div Cent

(* The order remembers the price and the gateway it was placed with.       *)
CreateOrder(o, u, amount) ==
    /\ ~Placed(o)
    /\ u \in live
    /\ orders' = [orders EXCEPT ![o] =
                    [status |-> "pending", user |-> u, amount |-> amount,
                     rmb |-> RoundToCents(amount * rate), provider |-> provider]]
    /\ UNCHANGED <<walletVars, provider, rate, trades, acked, callback, credits, churn>>

(* At the gateway the order was placed with; it takes one payment for an   *)
(* order number, and reports the money it really got.                      *)
PayAtGateway(o, money) ==
    /\ Placed(o)
    /\ \A t \in trades : t.order # o
    /\ trades' = trades \cup
                   {[order |-> o, money |-> money, provider |-> orders[o].provider]}
    /\ UNCHANGED <<walletVars, orders, provider, rate, acked, callback, credits, churn>>

-----------------------------------------------------------------------------
(* The callback handlers.                                                  *)

(* The signature and the merchant are checked with the settings of the     *)
(* gateway selected now: a report of the other gateway is rejected, which  *)
(* changes nothing.                                                        *)
VerifyCallback(c, t, via) ==
    /\ callback[c] = NoCallback
    /\ t \in trades
    /\ via = "notify" => t \notin acked
    /\ provider = t.provider
    /\ callback' = [callback EXCEPT ![c] = [pc |-> "verified", trade |-> t, via |-> via]]
    /\ UNCHANGED <<walletVars, orders, provider, rate, trades, acked, credits, churn>>

OpenOrder(o) == orders[o].status # "paid"

SameMoneyIgnored(t) == OpenOrder(t.order)      \* mutant: the amount is not compared

(* What a report must say to settle an open order.                         *)
SameMoney(t) == t.money = orders[t.order].rmb

SettleTwice(t) == SameMoney(t)                 \* mutant: the status is not read again

(* The order is read again inside the transaction.                         *)
Settles(t) == OpenOrder(t.order) /\ SameMoney(t)

(* The gateway of the trade is the one the order was placed with.          *)
MarkedPaid(row, t) == [row EXCEPT !.status = "paid", !.provider = t.provider]

RechargedMoney(row) == row.rmb                 \* mutant: the other currency

Recharged(row) == row.amount

(* The transaction: the order becomes paid and its user is credited, or    *)
(* nothing is left to do because another callback was first.               *)
SettleOrder(c) ==
    LET t == callback[c].trade
        row == orders[t.order]
    IN
    /\ callback[c].pc = "verified"
    /\ \/ /\ Settles(t)
          /\ orders' = [orders EXCEPT ![t.order] = MarkedPaid(row, t)]
          /\ balance' = Credited(balance, row.user, Recharged(row))
          /\ credits' = IF row.user \in live
                        THEN Append(credits, [order |-> t.order, user |-> row.user,
                                              amount |-> row.amount])
                        ELSE credits
       \/ ~OpenOrder(t.order) /\ UNCHANGED <<orders, balance, credits>>
    /\ callback' = [callback EXCEPT ![c].pc = "settled"]
    /\ UNCHANGED <<live, opening, provider, rate, trades, acked, churn>>

RefuseAndAcknowledge(c) ==                     \* mutant: "success" in any case
    /\ callback' = [callback EXCEPT ![c].pc = "settled"]
    /\ UNCHANGED acked

(* Whoever reported gets "fail".                                           *)
AnswerFail(c) ==
    /\ callback' = [callback EXCEPT ![c] = NoCallback]
    /\ UNCHANGED acked

MoneyMismatch(c) ==
    /\ callback[c].pc = "verified"
    /\ OpenOrder(callback[c].trade.order)
    /\ ~SameMoney(callback[c].trade)
    /\ AnswerFail(c)
    /\ UNCHANGED <<walletVars, orders, provider, rate, trades, credits, churn>>

(* The transaction is rolled back: a concurrent writer holds the database. *)
SettleFails(c) ==
    /\ callback[c].pc = "verified"
    /\ AnswerFail(c)
    /\ Intervene
    /\ UNCHANGED <<walletVars, orders, provider, rate, trades, credits>>

(* Only the notification is answered to the gateway, the browser is sent   *)
(* on to the wallet page.  The words of the answer are those of the        *)
(* gateway selected now, which another gateway need not understand.        *)
AnswerSuccess(c) ==
    /\ callback[c].pc = "settled"
    /\ \/ callback[c].via = "notify" /\ acked' = acked \cup {callback[c].trade}
       \/ /\ callback[c].via = "return" \/ provider # callback[c].trade.provider
          /\ UNCHANGED acked
    /\ callback' = [callback EXCEPT ![c] = NoCallback]
    /\ UNCHANGED <<walletVars, orders, provider, rate, trades, credits, churn>>

-----------------------------------------------------------------------------
(* Everybody else.                                                         *)

UpdatePaymentSettings(p, newRate) ==
    /\ provider' = p
    /\ rate' = newRate
    /\ Intervene
    /\ UNCHANGED <<walletVars, orders, trades, acked, callback, credits>>

(* The process dies, before or after a commit, and the answers with it.    *)
LoseCallbacks ==
    /\ \E c \in Callbacks : callback[c] # NoCallback
    /\ callback' = [c \in Callbacks |-> NoCallback]
    /\ Intervene
    /\ UNCHANGED <<walletVars, orders, provider, rate, trades, acked, credits>>

AccountAdmin(u) ==
    /\ \/ \E v \in AdminBalances : AdminUpdateBalance(u, v)
       \/ DeleteUser(u)
    /\ Intervene
    /\ UNCHANGED <<orders, provider, rate, trades, acked, callback, credits>>

Serve(c) == SettleOrder(c) \/ MoneyMismatch(c) \/ AnswerSuccess(c)

(* The money the gateway reports is that of the order, or less.            *)
Paid(o) == {orders[o].rmb, orders[o].rmb - 1} \cap Nat

PaymentsNext ==
    \/ \E o \in Orders, u \in Users, amount \in Amounts : CreateOrder(o, u, amount)
    \/ \E o \in Orders : Placed(o) /\ \E money \in Paid(o) : PayAtGateway(o, money)
    \/ \E c \in Callbacks, t \in trades, via \in {"notify", "return"} :
         VerifyCallback(c, t, via)
    \/ \E c \in Callbacks : Serve(c) \/ SettleFails(c)
    \/ \E p \in Providers, newRate \in Rates : UpdatePaymentSettings(p, newRate)
    \/ \E u \in Users : AccountAdmin(u)
    \/ LoseCallbacks

PaymentsSpec == PaymentsInit /\ [][PaymentsNext]_paymentVars

(* The gateway repeats a notification until it is answered, and a          *)
(* goroutine that serves a callback runs.                                  *)
Notify(o) == \E c \in Callbacks, t \in trades : t.order = o /\ VerifyCallback(c, t, "notify")

PaymentsFairSpec ==
    /\ PaymentsSpec
    /\ \A o \in Orders : SF_paymentVars(Notify(o))
    /\ \A c \in Callbacks : WF_paymentVars(Serve(c))

-----------------------------------------------------------------------------
(* Properties.                                                             *)

(* One order, one credit, however often and through however many callbacks *)
(* the trade is reported, and whatever crashes in between.                 *)
OrderCreditedOnce ==
    \A i, j \in DOMAIN credits : credits[i].order = credits[j].order => i = j

(* A credit is what its order says, the order is settled, and the gateway  *)
(* took the whole price the order was placed at: a later exchange rate or  *)
(* a payment that falls short never turns into money.                      *)
CreditsAreEarned ==
    \A i \in DOMAIN credits :
      LET o == credits[i].order IN
      /\ orders[o].status = "paid"
      /\ credits[i].user = orders[o].user /\ credits[i].amount = orders[o].amount
      /\ \E t \in trades : t.order = o /\ t.money = orders[o].rmb

(* The gateway is told to stop reporting only what has been settled.       *)
AcknowledgedIsSettled == \A t \in acked : orders[t.order].status = "paid"

Received(u) ==
    SumFunctionOnSet([i \in DOMAIN credits |-> credits[i].amount],
                     {i \in DOMAIN credits : credits[i].user = u})

(* The books balance: a user whose row exists has what was recharged.      *)
RechargesReconcile == \A u \in live : balance[u] = opening[u] + Received(u)

(* A whole payment is settled, unless the gateway it was made at is no     *)
(* longer the selected one; roll-backs, lost answers and crashes only      *)
(* delay it.                                                               *)
PaymentsSettle ==
    \A o \in Orders :
      (\E t \in trades : t.order = o /\ t.money = orders[o].rmb)
        ~> \/ orders[o].status = "paid"
           \/ \A t \in trades : t.order = o => provider # t.provider
=============================================================================
