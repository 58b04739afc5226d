------------------------------- MODULE Billing ------------------------------
(***************************************************************************)
(* The life of a metered request: a client or the chat agent asks for a    *)
(* completion, the gateway checks the caller, forwards the request to an   *)
(* upstream provider, and charges what the answer cost.                    *)
(*                                                                         *)
(* The caller's row and its API key are read ONCE, when the request is     *)
(* authenticated, and the copies are used until the request ends, while    *)
(* other requests charge the same user and the same key, the owner changes *)
(* or deletes the key and an administrator changes or deletes the user.    *)
(* Only the charge itself is a transaction.                                *)
(***************************************************************************)
EXTENDS Wallet, Sequences, SequencesExt, FiniteSets, FiniteSetsExt, Functions

CONSTANTS
    Keys,           \* API keys
    Requests,       \* handler goroutines: HTTP requests and agent loops
    Owner,          \* Owner[k]: the user a key belongs to
    Referrer,       \* Referrer[u]: users.referrer_id, or NoUser
    NoUser,         \* a user id no row has (0 in the program)
    NoKey,          \* the session token of the dashboard, or the chat agent
    Costs,          \* what an answer may cost, after every multiplier: the
                    \* handlers that set multipliers take negative ones too
    Limits,         \* quota limits an owner may set; 0 is "no limit"
    RateSettings,   \* values of referral_commission_rate, in hundredths
    MaxRounds,      \* bound: model rounds of one agent loop
    MaxRetries      \* assistantModelMaxRetries

ASSUME BillingAssumption ==
    /\ NoUser \notin Users
    /\ NoKey \notin Keys
    /\ Owner \in [Keys -> Users]
    /\ Referrer \in [Users -> Users \cup {NoUser}]
    /\ Costs \subseteq Int
    /\ Limits \subseteq Nat
    /\ RateSettings \subseteq Int
    /\ MaxRounds \in Nat \ {0}
    /\ MaxRetries \in Nat

VARIABLES
    keys,           \* api_keys: [live, enabled, limit, resetAt]
    logs,           \* token_logs in the order they were committed, with the
                    \* rows the retention has deleted since
    purged,         \* how many of the oldest rows it has deleted
    commissions,    \* referral_commission_logs
    referral,       \* system_settings: [enabled, rate]
    req             \* the requests in flight

requestVars == <<keys, logs, purged, commissions, referral, req, churn>>
billingVars == <<walletVars, requestVars>>

(* Who the handler serves and how it answers: "json" reads the whole       *)
(* answer and charges before it replies, "stream" copies the bytes to the  *)
(* client and charges afterwards, "chat" is the agent loop, which charges  *)
(* every round before it uses the answer.                                  *)
Kinds == {"json", "stream", "chat"}

PCs == {"idle", "authenticated", "resolved", "answered", "priced", "billed",
        "delivered", "failed", "lost"}

(* What AuthMiddleware stores in the request's context (the rows it copied *)
(* are "seen"), and the handler's own variables.  resetAt is the number of *)
(* logs written when the usage window began: token_logs.created_at is      *)
(* taken inside the write transaction, so its order is that of the rows.   *)
Copy == [balance: Int, limit: Nat, resetAt: Nat]

NoCopy == [balance |-> 0, limit |-> 0, resetAt |-> 0]

Request ==
    [pc: PCs, kind: Kinds, user: Users \cup {NoUser}, key: Keys \cup {NoKey},
     seen: Copy, cost: Int, round: Nat, attempt: Nat]

KeyRow == [live: BOOLEAN, enabled: BOOLEAN, limit: Nat, resetAt: Nat]

(* limit and since are history fields: the quota the charge was checked    *)
(* against, and the rows its usage was summed over.                        *)
LogRow ==
    [req: Requests, round: Nat, user: Users, key: Keys \cup {NoKey},
     cost: Int, limit: Nat, since: Nat]

CommissionRow ==
    [referrer: Users, referred: Users, log: Nat, amount: Nat]

BillingTypeOK ==
    /\ WalletTypeOK
    /\ keys \in [Keys -> KeyRow]
    /\ logs \in Seq(LogRow)
    /\ purged \in 0 .. Len(logs)
    /\ commissions \in Seq(CommissionRow)
    /\ referral \in [enabled: BOOLEAN, rate: Int]
    /\ req \in [Requests -> Request]
    /\ churn \in 0 .. MaxChurn

BillingInit ==
    /\ WalletInit
    /\ keys \in [Keys -> {[live |-> TRUE, enabled |-> TRUE, limit |-> l, resetAt |-> 0]
                            : l \in Limits}]
    /\ logs = <<>>
    /\ purged = 0
    /\ commissions = <<>>
    /\ referral \in [enabled: BOOLEAN, rate: RateSettings]
    /\ req = [r \in Requests |->
                [pc |-> "idle", kind |-> "json", user |-> NoUser, key |-> NoKey,
                 seen |-> NoCopy, cost |-> 0, round |-> 1, attempt |-> 0]]
    /\ churn = 0

-----------------------------------------------------------------------------
(* Quota.  The usage of a key is the sum of its logs since the reset.      *)

LoggedCost(indices) == SumFunctionOnSet([i \in DOMAIN logs |-> logs[i].cost], indices)

(* The rows a usage window that began at resetAt still finds.              *)
WindowStart(resetAt) == IF resetAt > purged THEN resetAt ELSE purged

APIKeyUsageCostSince(k, resetAt) ==
    LoggedCost({i \in DOMAIN logs : logs[i].key = k /\ i > WindowStart(resetAt)})

(* Both halves matter: the first refuses what would go over the limit, the *)
(* second refuses even free requests once the limit is reached.            *)
QuotaExceeded(key, limit, used, cost) ==
    /\ key # NoKey
    /\ limit > 0
    /\ used + cost > limit \/ used >= limit

APIKeyQuotaExceededBeforehand(r, cost) ==     \* mutant: only the early check
    /\ cost = 0
    /\ QuotaExceeded(req[r].key, req[r].seen.limit,
                     APIKeyUsageCostSince(req[r].key, req[r].seen.resetAt), cost)

APIKeyQuotaExceeded(r, cost) ==
    QuotaExceeded(req[r].key, req[r].seen.limit,
                  APIKeyUsageCostSince(req[r].key, req[r].seen.resetAt), cost)

-----------------------------------------------------------------------------
(* Referral commission: a rate above 1 is read as a percentage.            *)

CommissionRate(setting) == IF setting > 100 THEN setting \div 100 ELSE setting

CommissionAmount(cost) == (cost * CommissionRate(referral.rate)) \div 100

ReferrerOf(u) == IF u \in Users THEN Referrer[u] ELSE NoUser

EarnsCommission(u, cost) ==
    /\ ReferrerOf(u) # NoUser
    /\ cost > 0
    /\ referral.enabled
    /\ CommissionAmount(cost) > 0

CommissionForPreviousLog(u, cost) ==           \* mutant: the id before the insert
    [referrer |-> ReferrerOf(u), referred |-> u,
     log |-> Len(logs), amount |-> CommissionAmount(cost)]

(* The row the charge of the next log adds.                                *)
CommissionFor(u, cost) ==
    [referrer |-> ReferrerOf(u), referred |-> u,
     log |-> Len(logs) + 1, amount |-> CommissionAmount(cost)]

-----------------------------------------------------------------------------
(* The handler, up to the upstream call.                                   *)

(* The records the steps of a handler leave.                               *)
Authenticated(q, kind, u, k, copy) ==
    [q EXCEPT !.pc = "authenticated", !.kind = kind, !.user = u, !.key = k, !.seen = copy]

Moved(q, label) == [q EXCEPT !.pc = label]

Priced(q, cost) == [q EXCEPT !.pc = "priced", !.cost = cost]

Retried(q) == [q EXCEPT !.pc = "authenticated", !.attempt = @ + 1]

InNextRound(q) == [q EXCEPT !.pc = "authenticated", !.round = @ + 1, !.attempt = 0]

(* The handler returns, and its copies and variables are gone (which       *)
(* requests it was, and how many rounds it ran, the properties still ask). *)
Ended(q, label) == [q EXCEPT !.pc = label, !.seen = NoCopy, !.cost = 0, !.attempt = 0]

Becomes(r, q) == req' = [req EXCEPT ![r] = q]

Goto(r, label) == Becomes(r, Moved(req[r], label))

End(r, label) == Becomes(r, Ended(req[r], label))

OnlyRequestMoves == UNCHANGED <<walletVars, keys, logs, purged, commissions, referral, churn>>

OwnerFound(k) == IF Owner[k] \in live THEN Owner[k] ELSE NoUser

CopyOf(k) ==
    [balance |-> IF Owner[k] \in live THEN balance[Owner[k]] ELSE 0,
     limit |-> keys[k].limit,
     resetAt |-> keys[k].resetAt]

(* A key authenticates while its row exists and is enabled.  Preload leaves *)
(* the zero user (id 0, balance 0) in the copy when the owner's row is gone.*)
AuthenticateKey(r, k) ==
    /\ req[r].pc = "idle"
    /\ keys[k].live /\ keys[k].enabled
    /\ \E kind \in {"json", "stream"} :
         Becomes(r, Authenticated(req[r], kind, OwnerFound(k), k, CopyOf(k)))
    /\ OnlyRequestMoves

(* A session token, or the goroutine of a chat run, which loads the user   *)
(* once and keeps the copy for all its rounds.  Neither has a key.         *)
AuthenticateSession(r, u) ==
    /\ req[r].pc = "idle"
    /\ u \in live
    /\ \E kind \in Kinds :
         Becomes(r, Authenticated(req[r], kind, u, NoKey, [NoCopy EXCEPT !.balance = balance[u]]))
    /\ OnlyRequestMoves

(* The checks before the request is forwarded: a route exists (Routing is  *)
(* another component), the copied balance is positive, and the key's quota *)
(* is not used up.  The executor of the chat agent has no key to check.    *)
ResolveTarget(r) ==
    /\ req[r].pc = "authenticated"
    /\ req[r].seen.balance > 0
    /\ ~APIKeyQuotaExceeded(r, 0)
    /\ Goto(r, "resolved")
    /\ OnlyRequestMoves

Refuse(r) ==
    /\ req[r].pc = "authenticated"
    /\ End(r, "failed")
    /\ OnlyRequestMoves

(* A handler gives up.  The agent loop may ask again, a bounded number of  *)
(* times, when the error is worth a retry and no text was shown yet.       *)
GiveUpOrRetry(r) ==
    \/ End(r, "failed")
    \/ /\ req[r].kind = "chat"
       /\ req[r].attempt < MaxRetries
       /\ Becomes(r, Retried(req[r]))

(* The request is blocked, cannot be built, or the upstream fails.         *)
UpstreamFails(r) ==
    /\ req[r].pc = "resolved"
    /\ GiveUpOrRetry(r)
    /\ OnlyRequestMoves

UpstreamAnswers(r) ==
    /\ req[r].pc = "resolved"
    /\ Goto(r, "answered")
    /\ OnlyRequestMoves

(* Copying the stream to the client, or reading and converting the answer, *)
(* breaks off: the handler returns without a charge.  A chat stream that   *)
(* has shown text is charged for the part it got, so it breaks off only    *)
(* while there is nothing to charge.                                       *)
AnswerBreaksOff(r) ==
    /\ req[r].pc = "answered"
    /\ GiveUpOrRetry(r)
    /\ OnlyRequestMoves

(* The usage is read off the answer and priced with the multipliers of the *)
(* moment, outside the transaction that charges it.                        *)
PriceUsage(r) ==
    /\ req[r].pc = "answered"
    /\ \E cost \in Costs : Becomes(r, Priced(req[r], cost))
    /\ OnlyRequestMoves

-----------------------------------------------------------------------------
(* The charge: one transaction.                                            *)

AfterFailedChargeIgnored(r) == End(r, "delivered")  \* mutant: error only logged

(* The request is over, without a log: a stream was already delivered, any *)
(* other caller gets the error.                                            *)
AfterFailedCharge(r) ==
    End(r, IF req[r].kind = "stream" THEN "delivered" ELSE "failed")

(* Quota check, charge, token log and commission commit together.          *)
BillCommit(r) ==
    LET q == req[r]
        charged == Debited(balance, q.user, q.cost)
        row == [req |-> r, round |-> q.round, user |-> q.user, key |-> q.key,
                cost |-> q.cost, limit |-> q.seen.limit, since |-> WindowStart(q.seen.resetAt)]
    IN
    /\ q.pc = "priced"
    /\ ~APIKeyQuotaExceeded(r, q.cost)
    /\ CanPay(q.user, q.cost)
    /\ logs' = Append(logs, row)
    /\ IF EarnsCommission(q.user, q.cost)
       THEN /\ commissions' = Append(commissions, CommissionFor(q.user, q.cost))
            /\ balance' = Credited(charged, ReferrerOf(q.user), CommissionAmount(q.cost))
       ELSE /\ balance' = charged
            /\ UNCHANGED commissions
    /\ Goto(r, "billed")
    /\ UNCHANGED <<live, opening, keys, purged, referral, churn>>

(* The quota is exceeded, the balance does not cover the cost, or the      *)
(* database refuses (a busy lock, a failed insert or commit): everything   *)
(* is rolled back, whichever statement failed.                             *)
BillRollback(r) ==
    /\ req[r].pc = "priced"
    /\ AfterFailedCharge(r)
    /\ OnlyRequestMoves

DeliverOrRetry(r) ==                           \* mutant: a retry after the charge
    /\ req[r].pc = "billed"
    /\ \/ End(r, "delivered")
       \/ req[r].kind = "chat" /\ Goto(r, "authenticated")
    /\ OnlyRequestMoves

(* The answer goes out.  The agent loop may have been told to call tools   *)
(* and then starts another round with the user it loaded at the start.     *)
Deliver(r) ==
    /\ req[r].pc = "billed"
    /\ End(r, "delivered")
    /\ OnlyRequestMoves

NextRound(r) ==
    /\ req[r].pc = "billed"
    /\ req[r].kind = "chat"
    /\ req[r].round < MaxRounds
    /\ Becomes(r, InNextRound(req[r]))
    /\ OnlyRequestMoves

-----------------------------------------------------------------------------
(* Everybody else.                                                         *)

OnlyKeysMove == Intervene /\ UNCHANGED <<walletVars, logs, purged, commissions, referral, req>>

(* The owner edits the key; input.QuotaLimit and input.Enabled are         *)
(* optional, which the choice of the present value covers.                 *)
UpdateAPIKey(k, limit, enabled) ==
    /\ keys[k].live
    /\ keys' = [keys EXCEPT ![k] = [@ EXCEPT !.limit = limit, !.enabled = enabled]]
    /\ OnlyKeysMove

(* time.Now() is taken before the UPDATE: logs committed in between stay   *)
(* in the new window.                                                      *)
ResetAPIKeyUsage(k, now) ==
    /\ keys[k].live
    /\ now \in 0 .. Len(logs)
    /\ keys' = [keys EXCEPT ![k].resetAt = now]
    /\ OnlyKeysMove

DeleteAPIKey(k) ==
    /\ keys[k].live
    /\ keys' = [keys EXCEPT ![k].live = FALSE]
    /\ OnlyKeysMove

UpdateReferralSettings(enabled, rate) ==
    /\ referral' = [enabled |-> enabled, rate |-> rate]
    /\ Intervene
    /\ UNCHANGED <<walletVars, keys, logs, purged, commissions, req>>

(* The retention job deletes the logs older than a cutoff, whatever usage  *)
(* window they belong to.                                                  *)
CleanupTokenLogs(cutoff) ==
    /\ cutoff \in (purged + 1) .. Len(logs)
    /\ purged' = cutoff
    /\ Intervene
    /\ UNCHANGED <<walletVars, keys, logs, commissions, referral, req>>

(* The process dies: the goroutines are gone, the tables remain.           *)
Crash ==
    /\ \E r \in Requests : req[r].pc \notin {"idle", "delivered", "failed", "lost"}
    /\ req' = [r \in Requests |->
                 IF req[r].pc \in {"idle", "delivered", "failed"}
                 THEN req[r] ELSE Ended(req[r], "lost")]
    /\ Intervene
    /\ UNCHANGED <<walletVars, keys, logs, purged, commissions, referral>>

Handler(r) ==
    \/ ResolveTarget(r) \/ Refuse(r)
    \/ UpstreamFails(r) \/ UpstreamAnswers(r) \/ AnswerBreaksOff(r)
    \/ PriceUsage(r) \/ BillCommit(r) \/ BillRollback(r)
    \/ Deliver(r) \/ NextRound(r)

Arrive(r) ==
    \/ \E k \in Keys : AuthenticateKey(r, k)
    \/ \E u \in Users : AuthenticateSession(r, u)

KeyAdmin(k) ==
    \/ \E limit \in Limits, enabled \in BOOLEAN : UpdateAPIKey(k, limit, enabled)
    \/ \E now \in 0 .. Len(logs) : ResetAPIKeyUsage(k, now)
    \/ DeleteAPIKey(k)

UserAdmin(u) ==
    /\ \/ \E v \in AdminBalances : AdminUpdateBalance(u, v)
       \/ DeleteUser(u)
    /\ Intervene
    /\ UNCHANGED <<keys, logs, purged, commissions, referral, req>>

BillingNext ==
    \/ \E r \in Requests : Arrive(r) \/ Handler(r)
    \/ \E k \in Keys : KeyAdmin(k)
    \/ \E u \in Users : UserAdmin(u)
    \/ \E enabled \in BOOLEAN, rate \in RateSettings : UpdateReferralSettings(enabled, rate)
    \/ \E cutoff \in 1 .. Len(logs) : CleanupTokenLogs(cutoff)
    \/ Crash

BillingSpec == BillingInit /\ [][BillingNext]_billingVars

-----------------------------------------------------------------------------
(* Properties.                                                             *)

Earned(u) ==
    SumFunctionOnSet([i \in DOMAIN commissions |-> commissions[i].amount],
                     {i \in DOMAIN commissions : commissions[i].referrer = u})

(* A log may hold a negative cost; nobody is paid for it.                  *)
Charged(cost) == IF cost > 0 THEN cost ELSE 0

Spent(u) ==
    SumFunctionOnSet([i \in DOMAIN logs |-> Charged(logs[i].cost)],
                     {i \in DOMAIN logs : logs[i].user = u})

(* The books balance: for every user whose row exists, the balance is what *)
(* the opening balance, the commissions and the positive costs of the      *)
(* token logs say it is, in every interleaving of charges, roll-backs,     *)
(* crashes, overwrites by an administrator and deletions of the referrer.  *)
(* (A cost below zero is logged like any other and moves no money.)        *)
LedgerReconciles ==
    \A u \in live : balance[u] = opening[u] + Earned(u) - Spent(u)

(* No concurrent charges overdraw an account: a balance that falls to a    *)
(* negative value was typed in by an administrator.  The check before the  *)
(* upstream call reads a stale copy, so only the charge can ensure it.     *)
OnlyAdminOverdraws ==
    [][\A u \in Users :
         balance'[u] < balance[u] /\ balance'[u] < 0
           => \E v \in AdminBalances : AdminUpdateBalance(u, v)]_billingVars

(* Every charge left its key, at that moment, within the limit its request *)
(* was authenticated with, counting every other request charged to the     *)
(* same key since the reset (but for the logs the retention had deleted),  *)
(* however many passed the check before the upstream call together.        *)
QuotaHonoured ==
    \A n \in DOMAIN logs :
      logs[n].key # NoKey /\ logs[n].limit > 0
        => LoggedCost({i \in 1 .. n : logs[i].key = logs[n].key /\ i > logs[n].since})
             <= logs[n].limit

(* One answer, one charge: retries of the agent loop, and a crash after a  *)
(* charge, never charge the same round of the same request again.          *)
NeverBilledTwice ==
    \A i, j \in DOMAIN logs :
      logs[i].req = logs[j].req /\ logs[i].round = logs[j].round => i = j

(* Whoever reads the answer before it leaves the process has paid for it:  *)
(* a delivered reply has a log for every round that went into it.  (A      *)
(* stream is copied to the client first, and its charge may fail.)         *)
DeliveredIsBilled ==
    \A r \in Requests :
      req[r].pc = "delivered" /\ req[r].kind # "stream"
        => \A n \in 1 .. req[r].round :
             \E i \in DOMAIN logs : logs[i].req = r /\ logs[i].round = n

(* Every commission is backed by one paid log of the referred user, earns  *)
(* that user's referrer, and no log earns two.                             *)
CommissionsBacked ==
    /\ \A i \in DOMAIN commissions :
         LET c == commissions[i] IN
         /\ c.log \in DOMAIN logs
         /\ logs[c.log].user = c.referred
         /\ logs[c.log].cost > 0
         /\ c.referrer = Referrer[c.referred]
         /\ c.amount > 0
    /\ \A i, j \in DOMAIN commissions :
         commissions[i].log = commissions[j].log => i = j
=============================================================================
