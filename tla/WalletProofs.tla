---------------------------- MODULE WalletProofs ----------------------------
(***************************************************************************)
(* Theorems about the two specifications that work on the wallet, Billing  *)
(* and then Payments, for every value of their constants.                  *)
(***************************************************************************)
EXTENDS Billing, Payments, CollectionLemmas, TLAPS

(***************************************************************************)
(* Billing.                                                                *)
(***************************************************************************)

(* A request that got past the balance check serves a user with a row: the *)
(* zero user that Preload leaves has a zero balance.                       *)
KnownUser(q) ==
    /\ q.pc \in {"resolved", "answered", "priced", "billed"} => q.user \in Users
    /\ q.pc = "authenticated" /\ q.seen.balance > 0 => q.user \in Users

CallerKnown == \A r \in Requests : KnownUser(req[r])

(* The round a request is in has a log only once it was charged.           *)
RoundsInOrder ==
    \A i \in DOMAIN logs :
      LET q == req[logs[i].req] IN
      /\ logs[i].round <= q.round
      /\ logs[i].round = q.round => q.pc \in {"billed", "delivered", "lost"}

Logged(r, n) == \E i \in DOMAIN logs : logs[i].req = r /\ logs[i].round = n

(* Every round a request has left behind was charged, and so was the one   *)
(* it is in once it is billed or delivered.                                *)
PastRoundsLogged ==
    \A r \in Requests :
      /\ \A n \in 1 .. (req[r].round - 1) : Logged(r, n)
      /\ req[r].pc = "billed" => Logged(r, req[r].round)
      /\ req[r].pc = "delivered" /\ req[r].kind # "stream" => Logged(r, req[r].round)

(* The inductive invariant.                                                *)
BillingInv ==
    /\ BillingTypeOK
    /\ CallerKnown
    /\ RoundsInOrder
    /\ NeverBilledTwice
    /\ PastRoundsLogged
    /\ CommissionsBacked

-----------------------------------------------------------------------------
(* The records of the requests.                                            *)

(* Assigning a well-formed record to one request keeps the array typed.    *)
LEMMA BecomesFrame ==
    ASSUME req \in [Requests -> Request], NEW r \in Requests, NEW q \in Request,
           Becomes(r, q)
    PROVE  /\ req' \in [Requests -> Request]
           /\ req'[r] = q
           /\ \A s \in Requests : s # r => req'[s] = req[s]
BY DEF Becomes

(* Moving the program counter changes nothing else.                        *)
LEMMA MovedRecord ==
    ASSUME NEW q \in Request, NEW label \in PCs
    PROVE  /\ Moved(q, label) \in Request
           /\ Moved(q, label).pc = label
           /\ Moved(q, label).kind = q.kind
           /\ Moved(q, label).user = q.user
           /\ Moved(q, label).seen = q.seen
           /\ Moved(q, label).round = q.round
BY DEF Request, Moved

(* A handler that returned keeps its round, its kind and its user.         *)
LEMMA EndedRecord ==
    ASSUME NEW q \in Request, NEW label \in PCs
    PROVE  /\ Ended(q, label) \in Request
           /\ Ended(q, label).pc = label
           /\ Ended(q, label).kind = q.kind
           /\ Ended(q, label).user = q.user
           /\ Ended(q, label).round = q.round
           /\ Ended(q, label).seen.balance = 0
<1>1. NoCopy \in Copy
  BY DEF NoCopy, Copy
<1>2. NoCopy.balance = 0
  BY DEF NoCopy
<1> DEFINE gone == NoCopy
           none == 0
<1>3. gone \in Copy /\ gone.balance = 0 /\ none \in Nat /\ none \in Int
  BY <1>1, <1>2
<1>4. Ended(q, label) =
        [q EXCEPT !.pc = label, !.seen = gone, !.cost = none, !.attempt = none]
  BY DEF Ended
<1> HIDE DEF gone, none
<1> QED
  BY <1>3, <1>4 DEF Request

(* The next attempt of a round.                                            *)
LEMMA RetriedRecord ==
    ASSUME NEW q \in Request
    PROVE  /\ Retried(q) \in Request
           /\ Retried(q).pc = "authenticated"
           /\ Retried(q).user = q.user
           /\ Retried(q).round = q.round
<1> DEFINE label == "authenticated"
           next == q.attempt + 1
<1>1. label \in PCs /\ next \in Nat /\ label = "authenticated"
  BY DEF PCs, Request
<1>2. Retried(q) = [q EXCEPT !.pc = label, !.attempt = next]
  BY DEF Retried
<1> HIDE DEF label, next
<1> QED
  BY <1>1, <1>2 DEF Request

(* The next round of the agent loop.                                       *)
LEMMA NextRoundRecord ==
    ASSUME NEW q \in Request
    PROVE  /\ InNextRound(q) \in Request
           /\ InNextRound(q).pc = "authenticated"
           /\ InNextRound(q).user = q.user
           /\ InNextRound(q).round = q.round + 1
<1> DEFINE label == "authenticated"
           next == q.round + 1
           none == 0
<1>1. label \in PCs /\ next \in Nat /\ none \in Nat
      /\ label = "authenticated" /\ next = q.round + 1
  BY DEF PCs, Request
<1>2. InNextRound(q) = [q EXCEPT !.pc = label, !.round = next, !.attempt = none]
  BY DEF InNextRound
<1> HIDE DEF label, next, none
<1> QED
  BY <1>1, <1>2 DEF Request

(* The priced answer.                                                      *)
LEMMA PricedRecord ==
    ASSUME NEW q \in Request, NEW cost \in Int
    PROVE  /\ Priced(q, cost) \in Request
           /\ Priced(q, cost).pc = "priced"
           /\ Priced(q, cost).user = q.user
           /\ Priced(q, cost).round = q.round
<1> DEFINE label == "priced"
<1>1. label \in PCs /\ label = "priced"
  BY DEF PCs
<1>2. Priced(q, cost) = [q EXCEPT !.pc = label, !.cost = cost]
  BY DEF Priced
<1> HIDE DEF label
<1> QED
  BY <1>1, <1>2 DEF Request

(* What authentication puts in the record.                                 *)
LEMMA AuthenticatedRecord ==
    ASSUME NEW q \in Request, NEW kind \in Kinds, NEW u \in Users \cup {NoUser},
           NEW k \in Keys \cup {NoKey}, NEW copy \in Copy
    PROVE  /\ Authenticated(q, kind, u, k, copy) \in Request
           /\ Authenticated(q, kind, u, k, copy).pc = "authenticated"
           /\ Authenticated(q, kind, u, k, copy).user = u
           /\ Authenticated(q, kind, u, k, copy).seen = copy
           /\ Authenticated(q, kind, u, k, copy).round = q.round
<1> DEFINE label == "authenticated"
<1>1. label \in PCs /\ label = "authenticated"
  BY DEF PCs
<1>2. Authenticated(q, kind, u, k, copy)
        = [q EXCEPT !.pc = label, !.kind = kind, !.user = u, !.key = k, !.seen = copy]
  BY DEF Authenticated
<1> HIDE DEF label
<1> QED
  BY <1>1, <1>2 DEF Request

-----------------------------------------------------------------------------
(* What a step of a request can do besides charging.                       *)

(* The steps of a handler that write no table.                             *)
QuietStep(r) ==
    \/ \E k \in Keys : AuthenticateKey(r, k)
    \/ \E u \in Users : AuthenticateSession(r, u)
    \/ ResolveTarget(r) \/ Refuse(r) \/ UpstreamFails(r) \/ UpstreamAnswers(r)
    \/ AnswerBreaksOff(r) \/ PriceUsage(r) \/ BillRollback(r)
    \/ Deliver(r) \/ NextRound(r)

(* From p to q: the round is the same until it is charged, only a stream   *)
(* is delivered without a charge, and only a charged round is followed by  *)
(* another.                                                                *)
QuietSuccessor(p, q) ==
    /\ KnownUser(q)
    /\ \/ /\ p.pc \notin {"billed", "delivered", "lost"}
          /\ q.round = p.round
          /\ q.pc # "billed"
          /\ q.pc = "delivered" => q.kind = "stream"
       \/ /\ p.pc = "billed" /\ q.pc = "delivered" /\ q.round = p.round
       \/ /\ p.pc = "billed" /\ q.pc = "authenticated" /\ q.round = p.round + 1

LEMMA QuietStepFrame ==
    ASSUME req \in [Requests -> Request], WalletTypeOK, keys \in [Keys -> KeyRow],
           CallerKnown, NEW r \in Requests, QuietStep(r)
    PROVE  /\ \E q \in Request : Becomes(r, q) /\ QuietSuccessor(req[r], q)
           /\ OnlyRequestMoves
<1> DEFINE p == req[r]
<1>0. p \in Request /\ KnownUser(p)
  BY DEF CallerKnown
<1>1. ASSUME NEW k \in Keys, AuthenticateKey(r, k)
      PROVE  /\ \E q \in Request : Becomes(r, q) /\ QuietSuccessor(p, q)
             /\ OnlyRequestMoves
  <2>1. OwnerFound(k) \in Users \cup {NoUser}
        /\ (CopyOf(k).balance > 0 => OwnerFound(k) \in Users)
    BY DEF CopyOf, OwnerFound, WalletTypeOK
  <2>2. CopyOf(k) \in Copy
    <3>1. keys[k].limit \in Nat /\ keys[k].resetAt \in Nat
      BY DEF KeyRow
    <3>2. (IF Owner[k] \in live THEN balance[Owner[k]] ELSE 0) \in Int
      BY DEF WalletTypeOK
    <3> QED
      BY <3>1, <3>2 DEF CopyOf, Copy
  <2>3. PICK kind \in {"json", "stream"} :
          Becomes(r, Authenticated(p, kind, OwnerFound(k), k, CopyOf(k)))
    BY <1>1 DEF AuthenticateKey
  <2>4. kind \in Kinds
    BY DEF Kinds
  <2>5. p.pc = "idle" /\ OnlyRequestMoves
    BY <1>1 DEF AuthenticateKey
  <2> HIDE DEF p
  <2> QED
    BY <1>0, <2>1, <2>2, <2>3, <2>4, <2>5, AuthenticatedRecord
       DEF QuietSuccessor, KnownUser
<1>2. ASSUME NEW u \in Users, AuthenticateSession(r, u)
      PROVE  /\ \E q \in Request : Becomes(r, q) /\ QuietSuccessor(p, q)
             /\ OnlyRequestMoves
  <2> DEFINE mine == [NoCopy EXCEPT !.balance = balance[u]]
  <2>1. PICK kind \in Kinds : Becomes(r, Authenticated(p, kind, u, NoKey, mine))
    BY <1>2 DEF AuthenticateSession
  <2>2. mine \in Copy
    BY DEF NoCopy, Copy, WalletTypeOK
  <2>3. p.pc = "idle" /\ OnlyRequestMoves
    BY <1>2 DEF AuthenticateSession
  <2> HIDE DEF p, mine
  <2> DEFINE someone == u
             nothing == NoKey
  <2>4. someone \in Users \cup {NoUser} /\ nothing \in Keys \cup {NoKey}
        /\ someone \in Users
    OBVIOUS
  <2>5. Becomes(r, Authenticated(p, kind, someone, nothing, mine))
    BY <2>1
  <2> HIDE DEF someone, nothing
  <2> DEFINE next == Authenticated(p, kind, someone, nothing, mine)
  <2>6. next \in Request /\ next.pc = "authenticated" /\ next.user = someone
        /\ next.round = p.round
    BY <1>0, <2>1, <2>2, <2>4, AuthenticatedRecord
  <2>7. Becomes(r, next)
    BY <2>5
  <2> HIDE DEF next
  <2>8. QuietSuccessor(p, next)
    BY <2>3, <2>4, <2>6 DEF QuietSuccessor, KnownUser
  <2> QED
    BY <2>3, <2>6, <2>7, <2>8
<1> HIDE DEF p
(* Moving the counter, ending and retrying keep the user.                  *)
<1>3. ASSUME NEW label \in PCs, Goto(r, label), KnownUser(Moved(p, label)),
             label \notin {"billed", "delivered"},
             p.pc \notin {"billed", "delivered", "lost"}
      PROVE  \E q \in Request : Becomes(r, q) /\ QuietSuccessor(p, q)
  <2>1. Becomes(r, Moved(p, label))
    BY <1>3 DEF Goto, p
  <2> QED
    BY <1>0, <1>3, <2>1, MovedRecord DEF QuietSuccessor
<1>4. ASSUME NEW label \in {"delivered", "failed"}, End(r, label),
             p.pc \notin {"billed", "delivered", "lost"},
             label = "delivered" => p.kind = "stream"
      PROVE  \E q \in Request : Becomes(r, q) /\ QuietSuccessor(p, q)
  <2>1. label \in PCs
    BY DEF PCs
  <2>2. Becomes(r, Ended(p, label))
    BY <1>4 DEF End, p
  <2> QED
    BY <1>0, <1>4, <2>1, <2>2, EndedRecord DEF QuietSuccessor, KnownUser
<1>5. ASSUME GiveUpOrRetry(r), p.pc \in {"resolved", "answered"}
      PROVE  \E q \in Request : Becomes(r, q) /\ QuietSuccessor(p, q)
  <2>1. CASE End(r, "failed")
    BY <1>4, <1>5, <2>1
  <2>2. CASE Becomes(r, Retried(p))
    BY <1>0, <1>5, <2>2, RetriedRecord DEF QuietSuccessor, KnownUser
  <2> QED
    BY <1>5, <2>1, <2>2 DEF GiveUpOrRetry, p
<1>6. CASE ResolveTarget(r)
  <2>1. p.pc = "authenticated" /\ p.seen.balance > 0
        /\ Goto(r, "resolved") /\ OnlyRequestMoves
    BY <1>6 DEF ResolveTarget, p
  <2>2. "resolved" \in PCs
    BY DEF PCs
  <2>3. KnownUser(Moved(p, "resolved"))
    BY <1>0, <2>1, <2>2, MovedRecord DEF KnownUser
  <2>4. \E q \in Request : Becomes(r, q) /\ QuietSuccessor(p, q)
    BY <1>3, <2>1, <2>2, <2>3
  <2> QED
    BY <2>1, <2>4 DEF p
<1>7. CASE Refuse(r)
  BY <1>4, <1>7 DEF Refuse, p
<1>8. CASE UpstreamFails(r)
  BY <1>5, <1>8 DEF UpstreamFails, p
<1>9. CASE UpstreamAnswers(r)
  <2>1. p.pc = "resolved" /\ Goto(r, "answered") /\ OnlyRequestMoves
    BY <1>9 DEF UpstreamAnswers, p
  <2>2. "answered" \in PCs
    BY DEF PCs
  <2>3. KnownUser(Moved(p, "answered"))
    BY <1>0, <2>1, <2>2, MovedRecord DEF KnownUser
  <2> QED
    BY <1>3, <2>1, <2>2, <2>3 DEF p
<1>10. CASE AnswerBreaksOff(r)
  BY <1>5, <1>10 DEF AnswerBreaksOff, p
<1>11. CASE PriceUsage(r)
  <2>1. PICK cost \in Costs : Becomes(r, Priced(p, cost))
    BY <1>11 DEF PriceUsage, p
  <2>2. cost \in Int
    BY BillingAssumption
  <2>3. p.pc = "answered" /\ OnlyRequestMoves
    BY <1>11 DEF PriceUsage, p
  <2> QED
    BY <1>0, <2>1, <2>2, <2>3, PricedRecord DEF QuietSuccessor, KnownUser, p
<1>12. CASE BillRollback(r)
  BY <1>4, <1>12 DEF BillRollback, AfterFailedCharge, p
<1>13. CASE Deliver(r)
  <2>1. p.pc = "billed" /\ Becomes(r, Ended(p, "delivered")) /\ OnlyRequestMoves
    BY <1>13 DEF Deliver, End, p
  <2>2. "delivered" \in PCs
    BY DEF PCs
  <2> QED
    BY <1>0, <2>1, <2>2, EndedRecord DEF QuietSuccessor, KnownUser, p
<1>14. CASE NextRound(r)
  <2>1. p.pc = "billed" /\ Becomes(r, InNextRound(p)) /\ OnlyRequestMoves
    BY <1>14 DEF NextRound, p
  <2> QED
    BY <1>0, <2>1, NextRoundRecord DEF QuietSuccessor, KnownUser, p
<1> QED
  BY <1>1, <1>2, <1>6, <1>7, <1>8, <1>9, <1>10, <1>11, <1>12, <1>13, <1>14
     DEF QuietStep, p

-----------------------------------------------------------------------------
(* The charge.                                                             *)

LEMMA LogFields ==
    ASSUME BillingTypeOK, NEW i \in DOMAIN logs
    PROVE  logs[i].req \in Requests /\ logs[i].round \in Nat /\ logs[i].user \in Users
<1>1. logs[i] \in LogRow
  BY DEF BillingTypeOK
<1> QED
  BY <1>1 DEF LogRow

(* Posting an amount keeps the column typed.                               *)
LEMMA PostingTyped ==
    ASSUME NEW bal \in [Users -> Int], NEW u \in Users, NEW amount \in Int
    PROVE  /\ Debited(bal, u, amount) \in [Users -> Int]
           /\ Credited(bal, u, amount) \in [Users -> Int]
<1>1. [bal EXCEPT ![u] = @ - amount] \in [Users -> Int]
  OBVIOUS
<1>2. [bal EXCEPT ![u] = @ + amount] \in [Users -> Int]
  OBVIOUS
<1> QED
  BY <1>1, <1>2 DEF Debited, Credited

(* What is credited to a referrer is a positive amount.                    *)
LEMMA CommissionTyped ==
    ASSUME NEW u \in Users, NEW cost \in Int, referral \in [enabled: BOOLEAN, rate: Int],
           logs \in Seq(LogRow), EarnsCommission(u, cost)
    PROVE  /\ CommissionAmount(cost) \in Nat \ {0}
           /\ ReferrerOf(u) \in Users
           /\ CommissionFor(u, cost) \in CommissionRow
<1>1. CommissionRate(referral.rate) \in Int
  <2>1. referral.rate \in Int
    OBVIOUS
  <2> QED
    BY <2>1 DEF CommissionRate
<1>2. cost * CommissionRate(referral.rate) \in Int
  BY <1>1
<1>3. CommissionAmount(cost) \in Int
  BY <1>2 DEF CommissionAmount
<1>4. CommissionAmount(cost) \in Nat \ {0}
  BY <1>3 DEF EarnsCommission
<1>5. ReferrerOf(u) \in Users
  BY BillingAssumption DEF EarnsCommission, ReferrerOf
<1>6. Len(logs) + 1 \in Nat
  OBVIOUS
<1> QED
  BY <1>4, <1>5, <1>6 DEF CommissionFor, CommissionRow

(* The charge leaves typed tables, and writes one log, at most one         *)
(* commission and one request.                                             *)
LEMMA BillCommitTyped ==
    ASSUME BillingTypeOK, CallerKnown, NEW r \in Requests, BillCommit(r)
    PROVE  BillingTypeOK'
<1> DEFINE q == req[r]
           row == [req |-> r, round |-> q.round, user |-> q.user, key |-> q.key,
                   cost |-> q.cost, limit |-> q.seen.limit,
                   since |-> WindowStart(q.seen.resetAt)]
           charged == Debited(balance, q.user, q.cost)
<1>1. q \in Request /\ q.pc = "priced" /\ q.user \in Users
  BY DEF BillingTypeOK, CallerKnown, KnownUser, BillCommit
<1>2. q.cost \in Int /\ q.round \in Nat /\ q.key \in Keys \cup {NoKey} /\ q.seen \in Copy
  BY <1>1 DEF Request
<1>3. q.seen.limit \in Nat /\ WindowStart(q.seen.resetAt) \in Nat
  BY <1>2 DEF Copy, WindowStart, BillingTypeOK
<1>4. logs' = Append(logs, row) /\ row \in LogRow
  BY <1>1, <1>2, <1>3 DEF BillCommit, LogRow
<1>5. logs' \in Seq(LogRow) /\ purged' \in 0 .. Len(logs')
  BY <1>4 DEF BillCommit, BillingTypeOK
<1>6. charged \in [Users -> Int]
  <2>1. balance \in [Users -> Int]
    BY DEF BillingTypeOK, WalletTypeOK
  <2> DEFINE someone == q.user
             cost == q.cost
  <2>2. someone \in Users /\ cost \in Int
    BY <1>1, <1>2
  <2> HIDE DEF someone, cost
  <2>3. Debited(balance, someone, cost) \in [Users -> Int]
    BY <2>1, <2>2, PostingTyped
  <2> QED
    BY <2>3 DEF someone, cost
<1>7. balance' \in [Users -> Int] /\ commissions' \in Seq(CommissionRow)
  <2>1. CASE EarnsCommission(q.user, q.cost)
    <3>1. /\ commissions' = Append(commissions, CommissionFor(q.user, q.cost))
          /\ balance' = Credited(charged, ReferrerOf(q.user), CommissionAmount(q.cost))
      BY <2>1 DEF BillCommit
    <3>2. referral \in [enabled: BOOLEAN, rate: Int] /\ logs \in Seq(LogRow)
      BY DEF BillingTypeOK
    <3> DEFINE someone == q.user
               cost == q.cost
    <3>3. someone \in Users /\ cost \in Int /\ EarnsCommission(someone, cost)
      BY <1>1, <1>2, <2>1
    <3> HIDE DEF someone, cost
    <3>4. /\ CommissionAmount(cost) \in Int
          /\ ReferrerOf(someone) \in Users
          /\ CommissionFor(someone, cost) \in CommissionRow
      BY <3>2, <3>3, CommissionTyped
    <3> HIDE DEF charged
    <3>5. Credited(charged, ReferrerOf(someone), CommissionAmount(cost)) \in [Users -> Int]
      BY <1>6, <3>4, PostingTyped
    <3>6. commissions \in Seq(CommissionRow)
      BY DEF BillingTypeOK
    <3>7. Append(commissions, CommissionFor(someone, cost)) \in Seq(CommissionRow)
      BY <3>4, <3>6
    <3> QED
      BY <3>1, <3>5, <3>7 DEF someone, cost
  <2>2. CASE ~EarnsCommission(q.user, q.cost)
    BY <1>6, <2>2 DEF BillCommit, BillingTypeOK
  <2> QED
    BY <2>1, <2>2
<1>8. req' \in [Requests -> Request]
  <2>1. "billed" \in PCs /\ Becomes(r, Moved(q, "billed"))
    BY DEF PCs, BillCommit, Goto
  <2>2. Moved(q, "billed") \in Request
    BY <1>1, <2>1, MovedRecord
  <2> QED
    BY <2>1, <2>2, BecomesFrame DEF BillingTypeOK
<1> QED
  BY <1>5, <1>7, <1>8 DEF BillCommit, BillingTypeOK, WalletTypeOK

(* What the rest of the invariant needs to know of the charge.             *)
LEMMA BillCommitFrame ==
    ASSUME BillingTypeOK, CallerKnown, NEW r \in Requests, BillCommit(r)
    PROVE  /\ req[r].pc = "priced" /\ req[r].user \in Users
           /\ req'[r].pc = "billed" /\ req'[r].round = req[r].round
           /\ req'[r].user = req[r].user
           /\ \A s \in Requests : s # r => req'[s] = req[s]
           /\ Len(logs') = Len(logs) + 1
           /\ \A i \in DOMAIN logs : logs'[i] = logs[i]
           /\ logs'[Len(logs) + 1].req = r
           /\ logs'[Len(logs) + 1].round = req[r].round
           /\ logs'[Len(logs) + 1].user = req[r].user
           /\ logs'[Len(logs) + 1].cost = req[r].cost
<1> DEFINE q == req[r]
           row == [req |-> r, round |-> q.round, user |-> q.user, key |-> q.key,
                   cost |-> q.cost, limit |-> q.seen.limit,
                   since |-> WindowStart(q.seen.resetAt)]
<1>1. q \in Request /\ q.pc = "priced" /\ q.user \in Users
  BY DEF BillingTypeOK, CallerKnown, KnownUser, BillCommit
<1>2. "billed" \in PCs /\ Becomes(r, Moved(q, "billed"))
  BY DEF PCs, BillCommit, Goto
<1>3. Moved(q, "billed") \in Request /\ Moved(q, "billed").pc = "billed"
      /\ Moved(q, "billed").round = q.round /\ Moved(q, "billed").user = q.user
  BY <1>1, <1>2, MovedRecord
<1>4. req'[r] = Moved(q, "billed") /\ \A s \in Requests : s # r => req'[s] = req[s]
  BY <1>2, <1>3, BecomesFrame DEF BillingTypeOK
<1>5. logs' = Append(logs, row)
  BY DEF BillCommit
<1> DEFINE any == row
<1>6. logs' = Append(logs, any) /\ any.req = r /\ any.round = q.round
      /\ any.user = q.user /\ any.cost = q.cost
  BY <1>5
<1> HIDE DEF any
<1>7. /\ Len(logs') = Len(logs) + 1
      /\ \A i \in DOMAIN logs : logs'[i] = logs[i]
      /\ logs'[Len(logs) + 1] = any
  BY <1>6 DEF BillingTypeOK
<1> QED
  BY <1>1, <1>3, <1>4, <1>6, <1>7

-----------------------------------------------------------------------------
(* Preservation.                                                           *)

LEMMA QuietStepPreserves ==
    ASSUME BillingInv, NEW r \in Requests, QuietStep(r)
    PROVE  BillingInv'
<1>1. req \in [Requests -> Request] /\ WalletTypeOK /\ keys \in [Keys -> KeyRow]
  BY DEF BillingInv, BillingTypeOK
<1>2. (\E q \in Request : Becomes(r, q) /\ QuietSuccessor(req[r], q)) /\ OnlyRequestMoves
  BY <1>1, QuietStepFrame DEF BillingInv
<1>3. PICK q \in Request : Becomes(r, q) /\ QuietSuccessor(req[r], q)
  BY <1>2
<1>4. /\ req' \in [Requests -> Request]
      /\ req'[r] = q
      /\ \A s \in Requests : s # r => req'[s] = req[s]
  BY <1>1, <1>3, BecomesFrame
<1>5. BillingTypeOK'
  BY <1>2, <1>4 DEF BillingInv, BillingTypeOK, WalletTypeOK, OnlyRequestMoves, walletVars
<1>6. CallerKnown'
  BY <1>3, <1>4 DEF BillingInv, CallerKnown, QuietSuccessor, KnownUser
<1>7. logs' = logs /\ commissions' = commissions
  BY <1>2 DEF OnlyRequestMoves
<1>8. \A i \in DOMAIN logs : logs[i].req \in Requests /\ logs[i].round \in Nat
  BY LogFields DEF BillingInv
<1>9. q.round \in Nat /\ req[r].round \in Nat
  BY <1>1 DEF Request
<1>10. RoundsInOrder'
  <2> SUFFICES ASSUME NEW i \in DOMAIN logs
               PROVE  /\ logs[i].round <= req'[logs[i].req].round
                      /\ logs[i].round = req'[logs[i].req].round
                           => req'[logs[i].req].pc \in {"billed", "delivered", "lost"}
    BY <1>7 DEF RoundsInOrder
  <2>1. /\ logs[i].round <= req[logs[i].req].round
        /\ logs[i].round = req[logs[i].req].round
             => req[logs[i].req].pc \in {"billed", "delivered", "lost"}
    BY DEF BillingInv, RoundsInOrder
  <2>2. CASE logs[i].req = r
    BY <1>3, <1>4, <1>8, <1>9, <2>1, <2>2 DEF QuietSuccessor
  <2>3. CASE logs[i].req # r
    BY <1>4, <1>8, <2>1, <2>3
  <2> QED
    BY <2>2, <2>3
<1>11. PastRoundsLogged'
  <2> SUFFICES ASSUME NEW s \in Requests
               PROVE  /\ \A n \in 1 .. (req'[s].round - 1) : Logged(s, n)
                      /\ req'[s].pc = "billed" => Logged(s, req'[s].round)
                      /\ req'[s].pc = "delivered" /\ req'[s].kind # "stream"
                           => Logged(s, req'[s].round)
    BY <1>7 DEF PastRoundsLogged, Logged
  <2>1. /\ \A n \in 1 .. (req[s].round - 1) : Logged(s, n)
        /\ req[s].pc = "billed" => Logged(s, req[s].round)
        /\ req[s].pc = "delivered" /\ req[s].kind # "stream" => Logged(s, req[s].round)
    BY DEF BillingInv, PastRoundsLogged
  <2>2. CASE s = r
    BY <1>3, <1>4, <1>9, <2>1, <2>2 DEF QuietSuccessor
  <2>3. CASE s # r
    BY <1>4, <2>1, <2>3
  <2> QED
    BY <2>2, <2>3
<1>12. NeverBilledTwice' /\ CommissionsBacked'
  BY <1>7 DEF BillingInv, NeverBilledTwice, CommissionsBacked
<1> QED
  BY <1>5, <1>6, <1>10, <1>11, <1>12 DEF BillingInv

LEMMA BillCommitPreserves ==
    ASSUME BillingInv, NEW r \in Requests, BillCommit(r)
    PROVE  BillingInv'
<1> DEFINE new == Len(logs) + 1
<1>1. BillingTypeOK /\ CallerKnown /\ BillingTypeOK'
  BY BillCommitTyped DEF BillingInv
<1>2. /\ req[r].pc = "priced" /\ req[r].user \in Users
      /\ req'[r].pc = "billed" /\ req'[r].round = req[r].round
      /\ req'[r].user = req[r].user
      /\ \A s \in Requests : s # r => req'[s] = req[s]
  BY <1>1, BillCommitFrame
<1>3. /\ Len(logs') = new
      /\ \A i \in DOMAIN logs : logs'[i] = logs[i]
      /\ logs'[new].req = r /\ logs'[new].round = req[r].round
      /\ logs'[new].user = req[r].user /\ logs'[new].cost = req[r].cost
  BY <1>1, BillCommitFrame
<1>4. /\ Len(logs) \in Nat /\ DOMAIN logs = 1 .. Len(logs)
      /\ DOMAIN logs' = 1 .. new /\ new \in Nat
  <2>1. logs \in Seq(LogRow) /\ logs' \in Seq(LogRow)
    BY <1>1 DEF BillingTypeOK
  <2> QED
    BY <1>3, <2>1
<1>5. /\ new \in DOMAIN logs' /\ new \notin DOMAIN logs
      /\ \A i \in DOMAIN logs : i \in DOMAIN logs'
      /\ \A i \in DOMAIN logs' : i \in DOMAIN logs \/ i = new
  BY <1>4
<1> HIDE DEF new
<1>6. \A i \in DOMAIN logs : logs[i].req \in Requests /\ logs[i].round \in Nat
  BY <1>1, LogFields
<1>7. req[r].round \in Nat
  BY <1>1 DEF BillingTypeOK, Request
<1>8. CallerKnown'
  BY <1>1, <1>2 DEF CallerKnown, KnownUser
<1>9. RoundsInOrder'
  <2> SUFFICES ASSUME NEW i \in DOMAIN logs'
               PROVE  /\ logs'[i].round <= req'[logs'[i].req].round
                      /\ logs'[i].round = req'[logs'[i].req].round
                           => req'[logs'[i].req].pc \in {"billed", "delivered", "lost"}
    BY DEF RoundsInOrder
  <2>1. CASE i = new
    BY <1>2, <1>3, <1>7, <2>1
  <2>2. CASE i \in DOMAIN logs
    <3>1. /\ logs[i].round <= req[logs[i].req].round
          /\ logs[i].round = req[logs[i].req].round
               => req[logs[i].req].pc \in {"billed", "delivered", "lost"}
      BY <2>2 DEF BillingInv, RoundsInOrder
    <3> QED
      BY <1>2, <1>3, <1>6, <2>2, <3>1
  <2> QED
    BY <1>5, <2>1, <2>2
<1>10. NeverBilledTwice'
  <2>1. \A i \in DOMAIN logs : ~(logs[i].req = r /\ logs[i].round = req[r].round)
    BY <1>2 DEF BillingInv, RoundsInOrder
  <2> SUFFICES ASSUME NEW i \in DOMAIN logs', NEW j \in DOMAIN logs',
                      logs'[i].req = logs'[j].req, logs'[i].round = logs'[j].round
               PROVE  i = j
    BY DEF NeverBilledTwice
  <2>2. CASE i \in DOMAIN logs /\ j \in DOMAIN logs
    BY <1>3, <2>2 DEF BillingInv, NeverBilledTwice
  <2>3. CASE i = new \/ j = new
    BY <1>3, <1>5, <2>1, <2>3
  <2> QED
    BY <1>5, <2>2, <2>3
<1>11. PastRoundsLogged'
  <2> DEFINE After(s, n) == \E i \in DOMAIN logs' : logs'[i].req = s /\ logs'[i].round = n
  <2>1. \A s \in Requests : \A n \in Nat : Logged(s, n) => After(s, n)
    BY <1>3, <1>5 DEF Logged
  <2>2. After(r, req[r].round)
    BY <1>3, <1>5
  <2> HIDE DEF After
  <2> SUFFICES ASSUME NEW s \in Requests
               PROVE  /\ \A n \in 1 .. (req'[s].round - 1) : After(s, n)
                      /\ req'[s].pc = "billed" => After(s, req'[s].round)
                      /\ req'[s].pc = "delivered" /\ req'[s].kind # "stream"
                           => After(s, req'[s].round)
    BY DEF PastRoundsLogged, Logged, After
  <2>3. /\ \A n \in 1 .. (req[s].round - 1) : Logged(s, n)
        /\ req[s].pc = "billed" => Logged(s, req[s].round)
        /\ req[s].pc = "delivered" /\ req[s].kind # "stream" => Logged(s, req[s].round)
    BY DEF BillingInv, PastRoundsLogged
  <2>4. req[s].round \in Nat
    BY <1>1 DEF BillingTypeOK, Request
  <2>5. CASE s = r
    BY <1>2, <2>1, <2>2, <2>3, <2>4, <2>5
  <2>6. CASE s # r
    BY <1>2, <2>1, <2>3, <2>4, <2>6
  <2> QED
    BY <2>5, <2>6
<1>12. CommissionsBacked'
  <2> DEFINE Backed(c) == /\ c.log \in DOMAIN logs'
                          /\ logs'[c.log].user = c.referred
                          /\ logs'[c.log].cost > 0
                          /\ c.referrer = Referrer[c.referred]
                          /\ c.amount > 0
  <2>1. \A i \in DOMAIN commissions : Backed(commissions[i]) /\ commissions[i].log \in DOMAIN logs
    BY <1>3, <1>5 DEF BillingInv, CommissionsBacked
  <2>2. \A i, j \in DOMAIN commissions : commissions[i].log = commissions[j].log => i = j
    BY DEF BillingInv, CommissionsBacked
  <2>3. CASE EarnsCommission(req[r].user, req[r].cost)
    <3> DEFINE c == CommissionFor(req[r].user, req[r].cost)
    <3>1. commissions' = Append(commissions, c)
      BY <2>3 DEF BillCommit
    <3>2. c.referred = req[r].user /\ c.log = new /\ c.amount = CommissionAmount(req[r].cost)
          /\ c.referrer = Referrer[req[r].user]
      BY <1>2 DEF CommissionFor, ReferrerOf, new
    <3>3. req[r].cost > 0 /\ CommissionAmount(req[r].cost) > 0
      BY <2>3 DEF EarnsCommission
    <3>4. Backed(c)
      BY <1>3, <1>5, <3>2, <3>3
    <3> HIDE DEF c, Backed
    <3>5. commissions \in Seq(CommissionRow)
      BY <1>1 DEF BillingTypeOK
    <3> DEFINE last == Len(commissions) + 1
    <3>6. /\ \A i \in DOMAIN commissions : commissions'[i] = commissions[i]
          /\ commissions'[last] = c
          /\ \A i \in DOMAIN commissions' : i \in DOMAIN commissions \/ i = last
      BY <3>1, <3>5
    <3> HIDE DEF last
    <3>7. \A i \in DOMAIN commissions' : Backed(commissions'[i])
      BY <2>1, <3>4, <3>6
    <3>8. \A i, j \in DOMAIN commissions' :
            commissions'[i].log = commissions'[j].log => i = j
      BY <1>5, <2>1, <2>2, <3>2, <3>6
    <3> QED
      BY <3>7, <3>8 DEF CommissionsBacked, Backed
  <2>4. CASE ~EarnsCommission(req[r].user, req[r].cost)
    <3>1. commissions' = commissions
      BY <2>4 DEF BillCommit
    <3> QED
      BY <2>1, <2>2, <3>1 DEF CommissionsBacked
  <2> QED
    BY <2>3, <2>4
<1> QED
  BY <1>1, <1>8, <1>9, <1>10, <1>11, <1>12 DEF BillingInv

(* Owners, administrators and the retention job touch no request.          *)
LEMMA RequestsAndLogsKept ==
    ASSUME BillingInv, BillingTypeOK', UNCHANGED <<req, logs, commissions>>
    PROVE  BillingInv'
<1>1. CallerKnown' /\ RoundsInOrder' /\ NeverBilledTwice' /\ CommissionsBacked'
  BY DEF BillingInv, CallerKnown, KnownUser, RoundsInOrder, NeverBilledTwice, CommissionsBacked
<1>2. PastRoundsLogged'
  BY DEF BillingInv, PastRoundsLogged, Logged
<1> QED
  BY <1>1, <1>2 DEF BillingInv

LEMMA InterveneBounded ==
    ASSUME churn \in 0 .. MaxChurn, Intervene
    PROVE  churn' \in 0 .. MaxChurn
BY BalancesAssumption DEF Intervene

LEMMA KeyAdminPreserves ==
    ASSUME BillingInv, NEW k \in Keys, KeyAdmin(k)
    PROVE  BillingInv'
<1>1. BillingTypeOK
  BY DEF BillingInv
<1>2. keys' \in [Keys -> KeyRow] /\ OnlyKeysMove
  <2>1. keys \in [Keys -> KeyRow] /\ keys[k] \in KeyRow
    BY <1>1 DEF BillingTypeOK
  <2>2. ASSUME NEW limit \in Limits, NEW enabled \in BOOLEAN, UpdateAPIKey(k, limit, enabled)
        PROVE  keys' \in [Keys -> KeyRow]
    <3>1. [keys[k] EXCEPT !.limit = limit, !.enabled = enabled] \in KeyRow
      BY <2>1, BillingAssumption DEF KeyRow
    <3> QED
      BY <2>1, <2>2, <3>1 DEF UpdateAPIKey
  <2>3. ASSUME NEW now \in 0 .. Len(logs), ResetAPIKeyUsage(k, now)
        PROVE  keys' \in [Keys -> KeyRow]
    <3>1. now \in Nat
      BY <1>1 DEF BillingTypeOK
    <3>2. [keys[k] EXCEPT !.resetAt = now] \in KeyRow
      BY <2>1, <3>1 DEF KeyRow
    <3> QED
      BY <2>1, <2>3, <3>2 DEF ResetAPIKeyUsage
  <2>4. ASSUME DeleteAPIKey(k)
        PROVE  keys' \in [Keys -> KeyRow]
    <3>1. [keys[k] EXCEPT !.live = FALSE] \in KeyRow
      BY <2>1 DEF KeyRow
    <3> QED
      BY <2>1, <2>4, <3>1 DEF DeleteAPIKey
  <2>5. OnlyKeysMove
    BY DEF KeyAdmin, UpdateAPIKey, ResetAPIKeyUsage, DeleteAPIKey
  <2> QED
    BY <2>2, <2>3, <2>4, <2>5 DEF KeyAdmin
<1>3. churn' \in 0 .. MaxChurn
  BY <1>1, <1>2, InterveneBounded DEF OnlyKeysMove, BillingTypeOK
<1>4. BillingTypeOK'
  BY <1>1, <1>2, <1>3 DEF OnlyKeysMove, BillingTypeOK, WalletTypeOK, walletVars
<1> QED
  BY <1>2, <1>4, RequestsAndLogsKept DEF OnlyKeysMove

(* An administrator keeps the wallet typed and touches nothing else.       *)
LEMMA UserAdminFrame ==
    ASSUME BillingTypeOK, NEW u \in Users, UserAdmin(u)
    PROVE  WalletTypeOK' /\ Intervene
           /\ UNCHANGED <<keys, logs, purged, commissions, referral, req>>
<1>1. live \subseteq Users /\ balance \in [Users -> Int] /\ opening \in [Users -> Int]
  BY DEF BillingTypeOK, WalletTypeOK
<1>2. ASSUME NEW v \in AdminBalances, AdminUpdateBalance(u, v)
      PROVE  WalletTypeOK'
  <2>1. v \in Int
    BY BalancesAssumption
  <2>2. opening[u] + (v - balance[u]) \in Int
    BY <1>1, <2>1
  <2> QED
    BY <1>1, <1>2, <2>1, <2>2 DEF AdminUpdateBalance, WalletTypeOK
<1>3. ASSUME DeleteUser(u)
      PROVE  WalletTypeOK'
  BY <1>1, <1>3 DEF DeleteUser, WalletTypeOK
<1> QED
  BY <1>2, <1>3 DEF UserAdmin

LEMMA OthersPreserve ==
    ASSUME BillingInv,
           \/ \E u \in Users : UserAdmin(u)
           \/ \E enabled \in BOOLEAN, percent \in RateSettings :
                UpdateReferralSettings(enabled, percent)
           \/ \E cutoff \in 1 .. Len(logs) : CleanupTokenLogs(cutoff)
    PROVE  BillingInv'
<1>1. BillingTypeOK
  BY DEF BillingInv
<1>2. ASSUME NEW u \in Users, UserAdmin(u)
      PROVE  BillingInv'
  <2>1. WalletTypeOK' /\ Intervene
        /\ UNCHANGED <<keys, logs, purged, commissions, referral, req>>
    BY <1>1, <1>2, UserAdminFrame
  <2>2. churn' \in 0 .. MaxChurn
    BY <1>1, <2>1, InterveneBounded DEF BillingTypeOK
  <2>3. BillingTypeOK'
    BY <1>1, <2>1, <2>2 DEF BillingTypeOK
  <2> QED
    BY <2>1, <2>3, RequestsAndLogsKept
<1>3. ASSUME NEW enabled \in BOOLEAN, NEW percent \in RateSettings,
             UpdateReferralSettings(enabled, percent)
      PROVE  BillingInv'
  <2>1. referral' \in [enabled: BOOLEAN, rate: Int]
    BY <1>3, BillingAssumption DEF UpdateReferralSettings
  <2>2. churn' \in 0 .. MaxChurn
    BY <1>1, <1>3, InterveneBounded DEF BillingTypeOK, UpdateReferralSettings
  <2>3. BillingTypeOK'
    BY <1>1, <1>3, <2>1, <2>2
       DEF BillingTypeOK, UpdateReferralSettings, WalletTypeOK, walletVars
  <2> QED
    BY <1>3, <2>3, RequestsAndLogsKept DEF UpdateReferralSettings
<1>4. ASSUME NEW cutoff \in 1 .. Len(logs), CleanupTokenLogs(cutoff)
      PROVE  BillingInv'
  <2>1. purged' \in 0 .. Len(logs)
    BY <1>1, <1>4 DEF CleanupTokenLogs, BillingTypeOK
  <2>2. churn' \in 0 .. MaxChurn
    BY <1>1, <1>4, InterveneBounded DEF BillingTypeOK, CleanupTokenLogs
  <2>3. BillingTypeOK'
    BY <1>1, <1>4, <2>1, <2>2 DEF BillingTypeOK, CleanupTokenLogs, WalletTypeOK, walletVars
  <2> QED
    BY <1>4, <2>3, RequestsAndLogsKept DEF CleanupTokenLogs
<1> QED
  BY <1>2, <1>3, <1>4

LEMMA CrashPreserves ==
    ASSUME BillingInv, Crash
    PROVE  BillingInv'
<1> DEFINE Over(q) == q.pc \in {"idle", "delivered", "failed"}
<1>1. BillingTypeOK /\ UNCHANGED <<walletVars, keys, logs, purged, commissions, referral>>
  BY DEF BillingInv, Crash
<1>2. req \in [Requests -> Request] /\ "lost" \in PCs
  BY <1>1 DEF BillingTypeOK, PCs
<1>3. \A r \in Requests :
        \/ Over(req[r]) /\ req'[r] = req[r]
        \/ ~Over(req[r]) /\ req'[r] = Ended(req[r], "lost")
  BY DEF Crash
<1>4. \A r \in Requests :
        \/ req'[r] = req[r]
        \/ ~Over(req[r]) /\ req'[r].pc = "lost" /\ req'[r].round = req[r].round
  BY <1>2, <1>3, EndedRecord
<1>5. req' \in [Requests -> Request]
  <2>1. \A r \in Requests : req'[r] \in Request
    BY <1>2, <1>3, EndedRecord
  <2>2. req' = [r \in Requests |-> req'[r]]
    BY DEF Crash
  <2> QED
    BY <2>1, <2>2
<1>6. churn' \in 0 .. MaxChurn
  BY <1>1, InterveneBounded DEF BillingTypeOK, Crash
<1>7. BillingTypeOK'
  BY <1>1, <1>5, <1>6 DEF BillingTypeOK, WalletTypeOK, walletVars
<1>8. CallerKnown'
  BY <1>4 DEF BillingInv, CallerKnown, KnownUser
<1>9. RoundsInOrder'
  <2>1. \A i \in DOMAIN logs : logs[i].req \in Requests
    BY <1>1, LogFields
  <2> QED
    BY <1>1, <1>4, <2>1 DEF BillingInv, RoundsInOrder
<1>10. PastRoundsLogged'
  BY <1>1, <1>4 DEF BillingInv, PastRoundsLogged, Logged
<1>11. NeverBilledTwice' /\ CommissionsBacked'
  BY <1>1 DEF BillingInv, NeverBilledTwice, CommissionsBacked
<1> QED
  BY <1>7, <1>8, <1>9, <1>10, <1>11 DEF BillingInv

-----------------------------------------------------------------------------
(* The theorems.                                                           *)

LEMMA InitEstablishes == BillingInit => BillingInv
<1> SUFFICES ASSUME BillingInit
             PROVE  BillingInv
  OBVIOUS
<1>1. BillingTypeOK
  <2>1. WalletTypeOK
    BY BalancesAssumption DEF BillingInit, WalletInit, WalletTypeOK
  <2>2. keys \in [Keys -> KeyRow]
    <3>1. \A l \in Limits :
            [live |-> TRUE, enabled |-> TRUE, limit |-> l, resetAt |-> 0] \in KeyRow
      BY BillingAssumption DEF KeyRow
    <3> QED
      BY <3>1 DEF BillingInit
  <2>3. logs \in Seq(LogRow) /\ purged \in 0 .. Len(logs)
        /\ commissions \in Seq(CommissionRow)
    BY DEF BillingInit
  <2>4. referral \in [enabled: BOOLEAN, rate: Int]
    BY BillingAssumption DEF BillingInit
  <2>5. [pc |-> "idle", kind |-> "json", user |-> NoUser, key |-> NoKey,
         seen |-> NoCopy, cost |-> 0, round |-> 1, attempt |-> 0] \in Request
    <3>1. NoCopy \in Copy
      BY DEF NoCopy, Copy
    <3> QED
      BY <3>1 DEF Request, PCs, Kinds
  <2>6. req \in [Requests -> Request]
    BY <2>5 DEF BillingInit
  <2>7. churn \in 0 .. MaxChurn
    BY BalancesAssumption DEF BillingInit
  <2> QED
    BY <2>1, <2>2, <2>3, <2>4, <2>6, <2>7 DEF BillingTypeOK
<1>2. \A r \in Requests : req[r].pc = "idle" /\ req[r].round = 1
  BY DEF BillingInit
<1>3. logs = <<>> /\ commissions = <<>>
  BY DEF BillingInit
<1>4. CallerKnown /\ PastRoundsLogged
  BY <1>2 DEF CallerKnown, KnownUser, PastRoundsLogged
<1>5. RoundsInOrder /\ NeverBilledTwice /\ CommissionsBacked
  BY <1>3 DEF RoundsInOrder, NeverBilledTwice, CommissionsBacked
<1> QED
  BY <1>1, <1>4, <1>5 DEF BillingInv

LEMMA NextPreserves == BillingInv /\ [BillingNext]_billingVars => BillingInv'
<1> SUFFICES ASSUME BillingInv, [BillingNext]_billingVars
             PROVE  BillingInv'
  OBVIOUS
<1>1. ASSUME NEW r \in Requests, Arrive(r) \/ Handler(r)
      PROVE  BillingInv'
  <2>1. QuietStep(r) \/ BillCommit(r)
    BY <1>1 DEF Arrive, Handler, QuietStep
  <2> QED
    BY <2>1, QuietStepPreserves, BillCommitPreserves
<1>2. CASE UNCHANGED billingVars
  <2>1. UNCHANGED <<walletVars, keys, logs, purged, commissions, referral, req, churn>>
    BY <1>2 DEF billingVars, requestVars
  <2>2. BillingTypeOK'
    BY <2>1 DEF BillingInv, BillingTypeOK, WalletTypeOK, walletVars
  <2> QED
    BY <2>1, <2>2, RequestsAndLogsKept
<1> QED
  BY <1>1, <1>2, KeyAdminPreserves, OthersPreserve, CrashPreserves DEF BillingNext

LEMMA Invariance == BillingSpec => []BillingInv
BY InitEstablishes, NextPreserves, PTL DEF BillingSpec

(* Whatever the users, keys, requests, costs and limits are, every table   *)
(* keeps its type, in every interleaving of handlers and interventions.    *)
THEOREM TypeCorrect == BillingSpec => []BillingTypeOK
<1>1. BillingInv => BillingTypeOK
  BY DEF BillingInv
<1> QED
  BY <1>1, Invariance, PTL

(* No round of a request is ever charged twice, for any number of          *)
(* requests, rounds, retries and crashes.                                  *)
THEOREM SingleCharge == BillingSpec => []NeverBilledTwice
<1>1. BillingInv => NeverBilledTwice
  BY DEF BillingInv
<1> QED
  BY <1>1, Invariance, PTL

(* A reply that is not a stream leaves the process only after every round  *)
(* that went into it was charged.                                          *)
THEOREM PaidBeforeDelivered == BillingSpec => []DeliveredIsBilled
<1>1. BillingInv => DeliveredIsBilled
  <2> SUFFICES ASSUME BillingInv, NEW r \in Requests,
                      req[r].pc = "delivered", req[r].kind # "stream",
                      NEW n \in 1 .. req[r].round
               PROVE  Logged(r, n)
    BY DEF DeliveredIsBilled, Logged
  <2>1. req[r].round \in Nat
    BY DEF BillingInv, BillingTypeOK, Request
  <2>2. n = req[r].round \/ n \in 1 .. (req[r].round - 1)
    BY <2>1
  <2> QED
    BY <2>2 DEF BillingInv, PastRoundsLogged
<1> QED
  BY <1>1, Invariance, PTL

(* Every commission is backed by its own paid log of the user it names.    *)
THEOREM CommissionsAreBacked == BillingSpec => []CommissionsBacked
<1>1. BillingInv => CommissionsBacked
  BY DEF BillingInv
<1> QED
  BY <1>1, Invariance, PTL

Overdrawn(u) == balance'[u] < balance[u] /\ balance'[u] < 0

LEMMA ChargeNeverOverdraws ==
    ASSUME BillingTypeOK, CallerKnown, NEW r \in Requests, BillCommit(r), NEW u \in Users
    PROVE  ~Overdrawn(u)
<1> DEFINE payer == req[r].user
           cost == req[r].cost
           charged == Debited(balance, payer, cost)
<1>1. req[r] \in Request /\ req[r].pc = "priced" /\ payer \in Users
  BY DEF BillingTypeOK, CallerKnown, KnownUser, BillCommit
<1>2. cost \in Int /\ CanPay(payer, cost) /\ balance \in [Users -> Int]
  BY <1>1 DEF BillCommit, BillingTypeOK, WalletTypeOK, Request
<1>3. \/ balance' = charged
      \/ /\ EarnsCommission(payer, cost)
         /\ balance' = Credited(charged, ReferrerOf(payer), CommissionAmount(cost))
  BY DEF BillCommit
<1>4. referral \in [enabled: BOOLEAN, rate: Int] /\ logs \in Seq(LogRow)
  BY DEF BillingTypeOK
<1> HIDE DEF payer, cost
<1>5. charged \in [Users -> Int] /\ (charged[u] >= balance[u] \/ charged[u] >= 0)
  <2>1. CASE cost <= 0
    BY <1>2, <2>1 DEF Debited
  <2>2. CASE ~(cost <= 0)
    <3>1. charged = [balance EXCEPT ![payer] = @ - cost] /\ balance[payer] >= cost
      BY <1>2, <2>2 DEF Debited, CanPay
    <3> QED
      BY <1>1, <1>2, <3>1
  <2> QED
    BY <2>1, <2>2
<1> HIDE DEF charged
<1>6. CASE balance' = charged
  BY <1>2, <1>5, <1>6 DEF Overdrawn
<1>7. CASE /\ EarnsCommission(payer, cost)
           /\ balance' = Credited(charged, ReferrerOf(payer), CommissionAmount(cost))
  <2>1. CommissionAmount(cost) \in Nat \ {0} /\ ReferrerOf(payer) \in Users
    BY <1>1, <1>2, <1>4, <1>7, CommissionTyped DEF payer, cost
  <2>2. balance'[u] \in Int /\ balance'[u] >= charged[u]
    <3> DEFINE referrer == ReferrerOf(payer)
               amount == CommissionAmount(cost)
    <3>1. referrer \in Users /\ amount \in Nat
      BY <2>1
    <3>2. balance' = Credited(charged, referrer, amount)
      BY <1>7
    <3> HIDE DEF referrer, amount
    <3> QED
      BY <1>5, <3>1, <3>2 DEF Credited
  <2> QED
    BY <1>2, <1>5, <2>2 DEF Overdrawn
<1> QED
  BY <1>3, <1>6, <1>7

(* No charge, retry, commission or crash takes a balance below zero: only  *)
(* an administrator who types a negative balance does.                     *)
THEOREM NoOverdraft == BillingSpec => OnlyAdminOverdraws
<1> DEFINE Guarded == \A u \in Users :
                        balance'[u] < balance[u] /\ balance'[u] < 0
                          => \E v \in AdminBalances : AdminUpdateBalance(u, v)
<1>1. BillingInv /\ [BillingNext]_billingVars => [Guarded]_billingVars
  <2> SUFFICES ASSUME BillingInv, BillingNext, NEW u \in Users, Overdrawn(u)
               PROVE  \E v \in AdminBalances : AdminUpdateBalance(u, v)
    BY DEF Overdrawn
  <2>1. BillingTypeOK /\ CallerKnown /\ balance[u] \in Int
    BY DEF BillingInv, BillingTypeOK, WalletTypeOK
  <2>2. ASSUME balance' = balance
        PROVE  FALSE
    BY <2>1, <2>2 DEF Overdrawn
  <2>3. ASSUME NEW r \in Requests, Arrive(r) \/ Handler(r)
        PROVE  FALSE
    <3>1. QuietStep(r) \/ BillCommit(r)
      BY <2>3 DEF Arrive, Handler, QuietStep
    <3>2. req \in [Requests -> Request] /\ WalletTypeOK /\ keys \in [Keys -> KeyRow]
      BY <2>1 DEF BillingTypeOK
    <3>3. CASE QuietStep(r)
      <4>1. OnlyRequestMoves
        BY <2>1, <3>2, <3>3, QuietStepFrame
      <4> QED
        BY <2>2, <4>1 DEF OnlyRequestMoves, walletVars
    <3>4. CASE BillCommit(r)
      BY <2>1, <3>4, ChargeNeverOverdraws
    <3> QED
      BY <3>1, <3>3, <3>4
  <2>4. ASSUME NEW k \in Keys, KeyAdmin(k)
        PROVE  FALSE
    BY <2>2, <2>4
       DEF KeyAdmin, UpdateAPIKey, ResetAPIKeyUsage, DeleteAPIKey, OnlyKeysMove, walletVars
  <2>5. ASSUME NEW w \in Users, UserAdmin(w)
        PROVE  \E v \in AdminBalances : AdminUpdateBalance(u, v)
    <3>1. CASE DeleteUser(w)
      BY <2>2, <3>1 DEF DeleteUser
    <3>2. ASSUME NEW v \in AdminBalances, AdminUpdateBalance(w, v)
          PROVE  \E x \in AdminBalances : AdminUpdateBalance(u, x)
      <4>1. balance \in [Users -> Int] /\ balance' = [balance EXCEPT ![w] = v]
        BY <2>1, <3>2 DEF AdminUpdateBalance, BillingTypeOK, WalletTypeOK
      <4>2. w = u
        BY <2>1, <4>1 DEF Overdrawn
      <4> QED
        BY <3>2, <4>2
    <3> QED
      BY <2>5, <3>1, <3>2 DEF UserAdmin
  <2>6. ASSUME NEW enabled \in BOOLEAN, NEW percent \in RateSettings,
               UpdateReferralSettings(enabled, percent)
        PROVE  FALSE
    BY <2>2, <2>6 DEF UpdateReferralSettings, walletVars
  <2>7. ASSUME NEW cutoff \in 1 .. Len(logs), CleanupTokenLogs(cutoff)
        PROVE  FALSE
    BY <2>2, <2>7 DEF CleanupTokenLogs, walletVars
  <2>8. ASSUME Crash
        PROVE  FALSE
    BY <2>2, <2>8 DEF Crash, walletVars
  <2> QED
    BY <2>3, <2>4, <2>5, <2>6, <2>7, <2>8 DEF BillingNext
<1>2. BillingSpec => [][Guarded]_billingVars
  BY <1>1, Invariance, PTL DEF BillingSpec
<1> QED
  BY <1>2 DEF OnlyAdminOverdraws

-----------------------------------------------------------------------------
(* The books.                                                              *)

CostOf == [i \in DOMAIN logs |-> logs[i].cost]

ChargeOf == [i \in DOMAIN logs |-> Charged(logs[i].cost)]

SpentBy(u) == {i \in DOMAIN logs : logs[i].user = u}

AmountOf == [i \in DOMAIN commissions |-> commissions[i].amount]

EarnedBy(u) == {i \in DOMAIN commissions : commissions[i].referrer = u}

LEMMA LoggedCostIs ==
    ASSUME NEW S
    PROVE  LoggedCost(S) = SumFunctionOnSet(CostOf, S)
BY DEF LoggedCost, CostOf

LEMMA EarnedIs ==
    ASSUME NEW u
    PROVE  Earned(u) = SumFunctionOnSet(AmountOf, EarnedBy(u))
BY DEF Earned, AmountOf, EarnedBy

(* Rows that are in the table are finitely many and have a cost.           *)
LEMMA LogsFinite ==
    ASSUME logs \in Seq(LogRow), NEW S \in SUBSET DOMAIN logs
    PROVE  /\ IsFiniteSet(S)
           /\ \A i \in S : CostOf[i] \in Int
           /\ LoggedCost(S) \in Int
<1>1. IsFiniteSet(DOMAIN logs)
  <2>1. DOMAIN logs = 1 .. Len(logs) /\ Len(logs) \in Int
    OBVIOUS
  <2> QED
    BY <2>1, FS_Interval
<1>2. IsFiniteSet(S)
  BY <1>1, FS_Subset
<1>3. \A i \in DOMAIN logs : logs[i] \in LogRow
  OBVIOUS
<1>4. \A i \in S : CostOf[i] \in Int
  BY <1>3 DEF LogRow, CostOf
<1>5. SumFunctionOnSet(CostOf, S) \in Int
  BY <1>2, <1>4, SumRemove
<1> QED
  BY <1>2, <1>4, <1>5, LoggedCostIs

(* Appending a log leaves the sums over older rows alone, and adds its     *)
(* cost to any set it joins.                                               *)
LEMMA LoggedCostGrows ==
    ASSUME logs \in Seq(LogRow), NEW n, n = Len(logs) + 1,
           Len(logs') = n, logs' \in Seq(LogRow),
           \A i \in DOMAIN logs : logs'[i] = logs[i],
           NEW cost \in Int, logs'[n].cost = cost
    PROVE  \A S \in SUBSET DOMAIN logs :
             /\ SumFunctionOnSet(CostOf', S) = LoggedCost(S)
             /\ SumFunctionOnSet(CostOf', S \cup {n}) = LoggedCost(S) + cost
<1> SUFFICES ASSUME NEW S \in SUBSET DOMAIN logs
             PROVE  /\ SumFunctionOnSet(CostOf', S) = LoggedCost(S)
                    /\ SumFunctionOnSet(CostOf', S \cup {n}) = LoggedCost(S) + cost
  OBVIOUS
<1> DEFINE f == CostOf
           g == CostOf'
<1>1. IsFiniteSet(S) /\ \A i \in S : f[i] \in Int
  BY LogsFinite
<1>2. /\ DOMAIN logs' = DOMAIN logs \cup {n} /\ n \notin DOMAIN logs
  OBVIOUS
<1>3. n \notin S /\ g[n] = cost /\ \A i \in S : g[i] = f[i]
  BY <1>2 DEF CostOf
<1>4. LoggedCost(S) = SumFunctionOnSet(f, S)
  BY LoggedCostIs
<1> HIDE DEF f, g
<1>5. SumFunctionOnSet(g, S) = SumFunctionOnSet(f, S)
  BY <1>1, <1>3, SumAgrees
<1>6. SumFunctionOnSet(g, S \cup {n}) = SumFunctionOnSet(f, S) + cost
  <2>1. g[n] \in Int
    BY <1>3
  <2>2. IsFiniteSet(S) /\ n \notin S /\ \A y \in S : f[y] \in Int /\ g[y] = f[y]
    BY <1>1, <1>3
  <2>3. SumFunctionOnSet(g, S \cup {n}) = SumFunctionOnSet(f, S) + g[n]
    BY <2>1, <2>2, SumGrows
  <2> QED
    BY <1>3, <2>3
<1> QED
  BY <1>4, <1>5, <1>6 DEF g

LEMMA ChargedTyped ==
    ASSUME NEW cost \in Int
    PROVE  Charged(cost) \in Int
BY DEF Charged

LEMMA SpentIs ==
    ASSUME logs \in Seq(LogRow), NEW u
    PROVE  /\ Spent(u) = SumFunctionOnSet(ChargeOf, SpentBy(u))
           /\ IsFiniteSet(SpentBy(u))
           /\ \A i \in SpentBy(u) : ChargeOf[i] \in Int
           /\ Spent(u) \in Int
<1>1. Spent(u) = SumFunctionOnSet(ChargeOf, SpentBy(u))
  BY DEF Spent, ChargeOf, SpentBy
<1>2. SpentBy(u) \in SUBSET DOMAIN logs
  BY DEF SpentBy
<1>3. IsFiniteSet(SpentBy(u))
  BY <1>2, LogsFinite
<1>4. \A i \in DOMAIN logs : logs[i].cost \in Int
  <2>1. \A i \in DOMAIN logs : logs[i] \in LogRow
    OBVIOUS
  <2> QED
    BY <2>1 DEF LogRow
<1>5. \A i \in SpentBy(u) : ChargeOf[i] \in Int
  BY <1>2, <1>4, ChargedTyped DEF ChargeOf
<1>6. SumFunctionOnSet(ChargeOf, SpentBy(u)) \in Int
  BY <1>3, <1>5, SumRemove
<1> QED
  BY <1>1, <1>3, <1>5, <1>6

(* A new log adds what it charged to what its user has spent.              *)
LEMMA SpentGrows ==
    ASSUME logs \in Seq(LogRow), NEW n, n = Len(logs) + 1,
           Len(logs') = n, logs' \in Seq(LogRow),
           \A i \in DOMAIN logs : logs'[i] = logs[i],
           NEW cost \in Int, logs'[n].cost = cost, NEW u
    PROVE  /\ Spent(u) \in Int
           /\ Spent(u)' = IF logs'[n].user = u THEN Spent(u) + Charged(cost) ELSE Spent(u)
<1> DEFINE S == SpentBy(u)
           f == ChargeOf
           g == ChargeOf'
           charge == Charged(cost)
<1>1. DOMAIN logs' = DOMAIN logs \cup {n} /\ n \notin DOMAIN logs
  OBVIOUS
<1>2. SpentBy(u)' = IF logs'[n].user = u THEN S \cup {n} ELSE S
  BY <1>1 DEF SpentBy
<1>3. Spent(u) = SumFunctionOnSet(f, S) /\ Spent(u)' = SumFunctionOnSet(g, SpentBy(u)')
  BY DEF Spent, ChargeOf, SpentBy
<1>4. IsFiniteSet(S) /\ Spent(u) \in Int /\ \A i \in S : f[i] \in Int
  BY SpentIs
<1>5. n \notin S /\ g[n] = charge /\ \A i \in S : g[i] = f[i]
  BY <1>1 DEF ChargeOf, SpentBy
<1>6. charge \in Int
  BY ChargedTyped
<1> HIDE DEF f, g, S, charge
<1>7. SumFunctionOnSet(g, S) = SumFunctionOnSet(f, S)
  BY <1>4, <1>5, SumAgrees
<1>8. SumFunctionOnSet(g, S \cup {n}) = SumFunctionOnSet(f, S) + charge
  BY <1>4, <1>5, <1>6, SumGrows
<1> QED
  BY <1>2, <1>3, <1>4, <1>7, <1>8 DEF charge

(* A commission adds its amount to what its referrer earned.               *)
LEMMA EarnedGrows ==
    ASSUME commissions \in Seq(CommissionRow), NEW c \in CommissionRow,
           commissions' = Append(commissions, c), NEW u
    PROVE  /\ Earned(u) \in Int /\ c.amount \in Int
           /\ Earned(u)' = IF c.referrer = u THEN Earned(u) + c.amount ELSE Earned(u)
<1> DEFINE last == Len(commissions) + 1
           f == AmountOf
           g == AmountOf'
           S == EarnedBy(u)
<1>1. IsFiniteSet(S) /\ \A i \in S : f[i] \in Int
  <2>1. DOMAIN commissions = 1 .. Len(commissions) /\ Len(commissions) \in Int
    OBVIOUS
  <2>2. IsFiniteSet(DOMAIN commissions)
    BY <2>1, FS_Interval
  <2>3. \A i \in DOMAIN commissions : commissions[i] \in CommissionRow
    OBVIOUS
  <2> QED
    BY <2>2, <2>3, FS_Subset DEF EarnedBy, AmountOf, CommissionRow
<1>2. Earned(u) = SumFunctionOnSet(f, S) /\ Earned(u)' = SumFunctionOnSet(g, EarnedBy(u)')
  BY DEF Earned, AmountOf, EarnedBy
<1>3. /\ DOMAIN commissions' = DOMAIN commissions \cup {last}
      /\ last \notin DOMAIN commissions
      /\ commissions'[last] = c
      /\ \A i \in DOMAIN commissions : commissions'[i] = commissions[i]
  OBVIOUS
<1> HIDE DEF last
<1>4. last \notin S /\ g[last] = c.amount /\ \A i \in S : g[i] = f[i]
  BY <1>3 DEF AmountOf, EarnedBy
<1>5. EarnedBy(u)' = IF c.referrer = u THEN S \cup {last} ELSE S
  BY <1>3 DEF EarnedBy
<1>6. c.amount \in Int
  BY DEF CommissionRow
<1> HIDE DEF f, g, S
<1>7. SumFunctionOnSet(f, S) \in Int /\ SumFunctionOnSet(g, S) = SumFunctionOnSet(f, S)
  BY <1>1, <1>4, SumRemove, SumAgrees
<1>8. SumFunctionOnSet(g, S \cup {last}) = SumFunctionOnSet(f, S) + c.amount
  BY <1>1, <1>4, <1>6, SumGrows
<1> QED
  BY <1>2, <1>5, <1>6, <1>7, <1>8

LEMMA SumsTyped ==
    ASSUME BillingTypeOK, NEW u
    PROVE  Earned(u) \in Int /\ Spent(u) \in Int
<1>1. Spent(u) \in Int
  BY SpentIs DEF BillingTypeOK
<1>2. Earned(u) \in Int
  <2>1. commissions \in Seq(CommissionRow)
    BY DEF BillingTypeOK
  <2>2. DOMAIN commissions = 1 .. Len(commissions) /\ Len(commissions) \in Int
    BY <2>1
  <2>3. IsFiniteSet(DOMAIN commissions)
    BY <2>2, FS_Interval
  <2>4. \A i \in DOMAIN commissions : commissions[i] \in CommissionRow
    BY <2>1
  <2>5. IsFiniteSet(EarnedBy(u)) /\ \A i \in EarnedBy(u) : AmountOf[i] \in Int
    BY <2>3, <2>4, FS_Subset DEF EarnedBy, AmountOf, CommissionRow
  <2> QED
    BY <2>5, SumRemove, EarnedIs
<1> QED
  BY <1>1, <1>2

(* The log that a charge writes remembers the key and its quota.           *)
LEMMA BillCommitRow ==
    ASSUME BillingTypeOK, NEW r \in Requests, BillCommit(r)
    PROVE  LET row == logs'[Len(logs) + 1] IN
           /\ row.key = req[r].key
           /\ row.limit = req[r].seen.limit
           /\ row.since = WindowStart(req[r].seen.resetAt)
<1> DEFINE q == req[r]
           row == [req |-> r, round |-> q.round, user |-> q.user, key |-> q.key,
                   cost |-> q.cost, limit |-> q.seen.limit,
                   since |-> WindowStart(q.seen.resetAt)]
<1>1. logs' = Append(logs, row)
  BY DEF BillCommit
<1>2. row.key = q.key /\ row.limit = q.seen.limit /\ row.since = WindowStart(q.seen.resetAt)
  OBVIOUS
<1> HIDE DEF row
<1>3. logs'[Len(logs) + 1] = row
  BY <1>1 DEF BillingTypeOK
<1> QED
  BY <1>2, <1>3

(* The charge debits what it logs, and credits what it records.            *)
LEMMA BillCommitReconciles ==
    ASSUME BillingTypeOK, BillingTypeOK', CallerKnown, LedgerReconciles,
           NEW r \in Requests, BillCommit(r)
    PROVE  LedgerReconciles'
<1> DEFINE payer == req[r].user
           cost == req[r].cost
           charged == Debited(balance, payer, cost)
           n == Len(logs) + 1
<1>1. /\ logs \in Seq(LogRow) /\ logs' \in Seq(LogRow)
      /\ commissions \in Seq(CommissionRow)
      /\ referral \in [enabled: BOOLEAN, rate: Int]
      /\ balance \in [Users -> Int] /\ opening \in [Users -> Int] /\ live \subseteq Users
  BY DEF BillingTypeOK, WalletTypeOK
<1>2. live' = live /\ opening' = opening
  BY DEF BillCommit
<1>3. /\ payer \in Users
      /\ Len(logs') = n
      /\ \A i \in DOMAIN logs : logs'[i] = logs[i]
      /\ logs'[n].user = payer /\ logs'[n].cost = cost
  BY BillCommitFrame
<1>4. cost \in Int
  BY DEF BillingTypeOK, Request
<1> SUFFICES ASSUME NEW w \in live
             PROVE  balance'[w] = opening[w] + Earned(w)' - Spent(w)'
  BY <1>2 DEF LedgerReconciles
<1>5. /\ balance[w] = opening[w] + Earned(w) - Spent(w)
      /\ w \in Users /\ opening[w] \in Int /\ balance[w] \in Int
      /\ Earned(w) \in Int /\ Spent(w) \in Int
  BY <1>1, SumsTyped DEF LedgerReconciles
<1>6. Spent(w)' = IF payer = w THEN Spent(w) + Charged(cost) ELSE Spent(w)
  <2> HIDE DEF n, cost, payer
  <2>1. cost \in Int /\ n = Len(logs) + 1
    BY <1>4 DEF n
  <2>2. Spent(w)' = IF logs'[n].user = w THEN Spent(w) + Charged(cost) ELSE Spent(w)
    BY <1>1, <1>3, <2>1, SpentGrows
  <2> QED
    BY <1>3, <2>2
<1> HIDE DEF n
<1>10. Charged(cost) \in Int
  BY <1>4, ChargedTyped
<1>7. /\ charged[w] = IF payer = w THEN balance[w] - Charged(cost) ELSE balance[w]
      /\ charged \in [Users -> Int]
  <2> HIDE DEF payer, cost
  <2>1. CASE cost <= 0
    BY <1>1, <1>4, <1>5, <2>1 DEF Debited, Charged
  <2>2. CASE ~(cost <= 0)
    BY <1>1, <1>3, <1>4, <1>5, <2>2 DEF Debited, Charged
  <2> QED
    BY <2>1, <2>2
<1>8. CASE EarnsCommission(payer, cost)
  <2> DEFINE c == CommissionFor(payer, cost)
             referrer == ReferrerOf(payer)
             amount == CommissionAmount(cost)
  <2>1. commissions' = Append(commissions, c) /\ balance' = Credited(charged, referrer, amount)
    BY <1>8 DEF BillCommit
  <2>2. amount \in Nat \ {0} /\ referrer \in Users /\ c \in CommissionRow
    <3> HIDE DEF payer, cost
    <3> QED
      BY <1>1, <1>3, <1>4, <1>8, CommissionTyped
  <2>3. c.referrer = referrer /\ c.amount = amount
    BY DEF CommissionFor
  <2> HIDE DEF c, referrer, amount, charged, payer, cost
  <2>4. Earned(w)' = IF referrer = w THEN Earned(w) + amount ELSE Earned(w)
    BY <1>1, <2>1, <2>2, <2>3, EarnedGrows
  <2>5. balance'[w] = IF referrer = w THEN charged[w] + amount ELSE charged[w]
    BY <1>5, <1>7, <2>1, <2>2 DEF Credited
  <2> QED
    BY <1>10, <1>5, <1>6, <1>7, <2>2, <2>4, <2>5
<1>9. CASE ~EarnsCommission(payer, cost)
  <2>1. commissions' = commissions /\ balance' = charged
    BY <1>9 DEF BillCommit
  <2>2. Earned(w)' = Earned(w)
    BY <2>1 DEF Earned
  <2> HIDE DEF charged, payer, cost
  <2> QED
    BY <1>10, <1>5, <1>6, <1>7, <2>1, <2>2
<1> QED
  BY <1>8, <1>9

(* The sum of the key's logs that the charge reads is the sum of the rows  *)
(* its log is summed over, but for that log.                               *)
LEMMA BillCommitHonoursQuota ==
    ASSUME BillingTypeOK, BillingTypeOK', CallerKnown, QuotaHonoured,
           NEW r \in Requests, BillCommit(r)
    PROVE  QuotaHonoured'
<1> DEFINE q == req[r]
           cost == q.cost
           new == Len(logs) + 1
           Window(n) == {i \in 1 .. n : logs[i].key = logs[n].key /\ i > logs[n].since}
           NewWindow(n) == {i \in 1 .. n : logs'[i].key = logs'[n].key /\ i > logs'[n].since}
<1>1. logs \in Seq(LogRow) /\ logs' \in Seq(LogRow)
  BY DEF BillingTypeOK
<1>2. /\ Len(logs') = new
      /\ \A i \in DOMAIN logs : logs'[i] = logs[i]
      /\ logs'[new].cost = cost
  BY BillCommitFrame
<1>3. /\ logs'[new].key = q.key /\ logs'[new].limit = q.seen.limit
      /\ logs'[new].since = WindowStart(q.seen.resetAt)
  BY BillCommitRow
<1>4. cost \in Int /\ q.seen.limit \in Nat
  BY DEF BillingTypeOK, Request, Copy
<1>5. /\ DOMAIN logs = 1 .. Len(logs) /\ Len(logs) \in Nat
      /\ DOMAIN logs' = 1 .. new /\ new = Len(logs) + 1
  BY <1>1, <1>2
<1>6. \A S \in SUBSET DOMAIN logs :
        /\ LoggedCost(S) \in Int
        /\ SumFunctionOnSet(CostOf', S) = LoggedCost(S)
        /\ SumFunctionOnSet(CostOf', S \cup {new}) = LoggedCost(S) + cost
  <2>1. cost \in Int
    BY <1>4
  <2> HIDE DEF new, cost
  <2> QED
    BY <1>1, <1>2, <1>5, <2>1, LogsFinite, LoggedCostGrows
<1> HIDE DEF new
<1> SUFFICES ASSUME NEW n \in DOMAIN logs', logs'[n].key # NoKey, logs'[n].limit > 0
             PROVE  SumFunctionOnSet(CostOf', NewWindow(n)) <= logs'[n].limit
  BY DEF QuotaHonoured, LoggedCost, CostOf
<1>7. CASE n \in DOMAIN logs
  <2>1. \A i \in 1 .. n : i \in DOMAIN logs
    BY <1>5, <1>7
  <2>2. NewWindow(n) = Window(n) /\ Window(n) \in SUBSET DOMAIN logs
    BY <1>2, <1>7, <2>1
  <2>3. LoggedCost(Window(n)) <= logs[n].limit
    BY <1>2, <1>7 DEF QuotaHonoured
  <2> HIDE DEF Window, NewWindow
  <2> QED
    BY <1>2, <1>6, <1>7, <2>2, <2>3
<1>8. CASE n = new
  <2> DEFINE S == {i \in DOMAIN logs : logs[i].key = q.key
                                         /\ i > WindowStart(q.seen.resetAt)}
  <2>1. NewWindow(n) = S \/ NewWindow(n) = S \cup {new}
    BY <1>2, <1>3, <1>5, <1>8
  <2>2. ~QuotaExceeded(q.key, q.seen.limit, LoggedCost(S), cost)
    BY DEF BillCommit, APIKeyQuotaExceeded, APIKeyUsageCostSince
  <2> HIDE DEF S
  <2>3. S \in SUBSET DOMAIN logs
    BY DEF S
  <2>4. q.key # NoKey /\ q.seen.limit > 0
    BY <1>3, <1>8
  <2>5. SumFunctionOnSet(CostOf', NewWindow(n)) \in {LoggedCost(S), LoggedCost(S) + cost}
    BY <1>6, <2>1, <2>3
  <2>6. LoggedCost(S) \in Int
    BY <1>6, <2>3
  <2> DEFINE used == LoggedCost(S)
             limit == q.seen.limit
             sum == SumFunctionOnSet(CostOf', NewWindow(n))
  <2>7. /\ used \in Int /\ limit \in Nat /\ cost \in Int /\ limit > 0
        /\ ~(used + cost > limit \/ used >= limit)
        /\ sum = used \/ sum = used + cost
    BY <1>4, <2>2, <2>4, <2>5, <2>6 DEF QuotaExceeded
  <2> HIDE DEF used, limit, sum, cost
  <2>8. sum <= limit
    BY <2>7
  <2> QED
    BY <1>3, <1>8, <2>8 DEF sum, limit
<1> QED
  BY <1>5, <1>7, <1>8

(* An administrator's overwrite moves the opening balance by the same.     *)
LEMMA UserAdminReconciles ==
    ASSUME BillingTypeOK, LedgerReconciles, NEW u \in Users, UserAdmin(u)
    PROVE  LedgerReconciles'
<1>1. balance \in [Users -> Int] /\ opening \in [Users -> Int] /\ live \subseteq Users
  BY DEF BillingTypeOK, WalletTypeOK
<1>2. logs' = logs /\ commissions' = commissions
  BY DEF UserAdmin
<1>3. CASE DeleteUser(u)
  BY <1>2, <1>3 DEF DeleteUser, LedgerReconciles, Earned, Spent
<1>4. ASSUME NEW v \in AdminBalances, AdminUpdateBalance(u, v)
      PROVE  LedgerReconciles'
  <2> SUFFICES ASSUME NEW w \in live
               PROVE  balance'[w] = opening'[w] + Earned(w) - Spent(w)
    BY <1>2, <1>4 DEF LedgerReconciles, Earned, Spent, AdminUpdateBalance
  <2>1. balance[w] = opening[w] + Earned(w) - Spent(w)
        /\ Earned(w) \in Int /\ Spent(w) \in Int
    BY SumsTyped DEF LedgerReconciles
  <2>2. v \in Int /\ w \in Users /\ opening[w] \in Int /\ balance[w] \in Int
    BY <1>1, BalancesAssumption
  <2>3. /\ balance' = [balance EXCEPT ![u] = v]
        /\ opening' = [opening EXCEPT ![u] = @ + (v - balance[u])]
    BY <1>4 DEF AdminUpdateBalance
  <2>4. CASE w = u
    <3>1. balance'[w] = v /\ opening'[w] = opening[w] + (v - balance[w])
      BY <1>1, <2>2, <2>3, <2>4
    <3> QED
      BY <3>1, <2>1, <2>2
  <2>5. CASE w # u
    BY <1>1, <2>1, <2>2, <2>3, <2>5
  <2> QED
    BY <2>4, <2>5
<1> QED
  BY <1>3, <1>4 DEF UserAdmin

LEMMA BooksStep ==
    /\ BillingInv /\ BillingInv' /\ LedgerReconciles /\ QuotaHonoured
    /\ [BillingNext]_billingVars
    => LedgerReconciles' /\ QuotaHonoured'
<1> SUFFICES ASSUME BillingInv, BillingInv', LedgerReconciles, QuotaHonoured,
                    [BillingNext]_billingVars
             PROVE  LedgerReconciles' /\ QuotaHonoured'
  OBVIOUS
<1>1. BillingTypeOK /\ BillingTypeOK' /\ CallerKnown
  BY DEF BillingInv
<1>2. ASSUME UNCHANGED <<live, balance, opening, logs, commissions>>
      PROVE  LedgerReconciles' /\ QuotaHonoured'
  BY <1>2 DEF LedgerReconciles, Earned, Spent, QuotaHonoured, LoggedCost
<1>3. ASSUME NEW r \in Requests, Arrive(r) \/ Handler(r)
      PROVE  LedgerReconciles' /\ QuotaHonoured'
  <2>1. QuietStep(r) \/ BillCommit(r)
    BY <1>3 DEF Arrive, Handler, QuietStep
  <2>2. CASE QuietStep(r)
    <3>1. req \in [Requests -> Request] /\ WalletTypeOK /\ keys \in [Keys -> KeyRow]
      BY <1>1 DEF BillingTypeOK
    <3>2. OnlyRequestMoves
      BY <1>1, <2>2, <3>1, QuietStepFrame
    <3> QED
      BY <1>2, <3>2 DEF OnlyRequestMoves, walletVars
  <2>3. CASE BillCommit(r)
    BY <1>1, <2>3, BillCommitReconciles, BillCommitHonoursQuota
  <2> QED
    BY <2>1, <2>2, <2>3
<1>4. ASSUME NEW u \in Users, UserAdmin(u)
      PROVE  LedgerReconciles' /\ QuotaHonoured'
  <2>1. QuotaHonoured'
    BY <1>4 DEF UserAdmin, QuotaHonoured, LoggedCost
  <2> QED
    BY <1>1, <1>4, <2>1, UserAdminReconciles
<1>5. ASSUME \/ \E k \in Keys : KeyAdmin(k)
             \/ \E enabled \in BOOLEAN, percent \in RateSettings :
                  UpdateReferralSettings(enabled, percent)
             \/ \E cutoff \in 1 .. Len(logs) : CleanupTokenLogs(cutoff)
             \/ Crash
             \/ UNCHANGED billingVars
      PROVE  UNCHANGED <<live, balance, opening, logs, commissions>>
  BY <1>5 DEF KeyAdmin, UpdateAPIKey, ResetAPIKeyUsage, DeleteAPIKey, OnlyKeysMove,
              UpdateReferralSettings, CleanupTokenLogs, Crash, billingVars, requestVars, walletVars
<1> QED
  BY <1>2, <1>3, <1>4, <1>5 DEF BillingNext

LEMMA BooksInitial == BillingInit => LedgerReconciles /\ QuotaHonoured
<1> SUFFICES ASSUME BillingInit
             PROVE  LedgerReconciles /\ QuotaHonoured
  OBVIOUS
<1>1. logs = <<>> /\ commissions = <<>>
  BY DEF BillingInit
<1>2. QuotaHonoured
  BY <1>1 DEF QuotaHonoured
<1>3. ASSUME NEW u \in live
      PROVE  balance[u] = opening[u] + Earned(u) - Spent(u)
  <2>1. {i \in DOMAIN logs : logs[i].user = u} = {}
        /\ {i \in DOMAIN commissions : commissions[i].referrer = u} = {}
    BY <1>1
  <2>2. Earned(u) = 0 /\ Spent(u) = 0
    BY <2>1, SumOfNone DEF Earned, Spent, LoggedCost
  <2>3. balance[u] \in Int /\ opening[u] = balance[u]
    BY BalancesAssumption DEF BillingInit, WalletInit
  <2> QED
    BY <2>2, <2>3
<1> QED
  BY <1>2, <1>3 DEF LedgerReconciles

LEMMA BooksInvariance == BillingSpec => [](LedgerReconciles /\ QuotaHonoured)
<1>1. /\ BillingInv /\ BillingInv' /\ (LedgerReconciles /\ QuotaHonoured)
      /\ [BillingNext]_billingVars
      => (LedgerReconciles /\ QuotaHonoured)'
  BY BooksStep
<1> QED
  BY <1>1, BooksInitial, Invariance, PTL DEF BillingSpec

(* The books balance: whoever still has a row has the opening balance plus *)
(* the commissions minus the token logs, for any number of users, keys,    *)
(* requests and rounds, and any costs and commission rates.                *)
THEOREM LedgerBalances == BillingSpec => []LedgerReconciles
<1>1. LedgerReconciles /\ QuotaHonoured => LedgerReconciles
  OBVIOUS
<1> QED
  BY <1>1, BooksInvariance, PTL

(* No charge takes a key over the limit it was authenticated with, however *)
(* many requests passed the early check together.                          *)
THEOREM QuotaKept == BillingSpec => []QuotaHonoured
<1>1. LedgerReconciles /\ QuotaHonoured => QuotaHonoured
  OBVIOUS
<1> QED
  BY <1>1, BooksInvariance, PTL

(***************************************************************************)
(* Payments.                                                               *)
(***************************************************************************)

(* A callback only ever works on a trade of the gateway's books, and one   *)
(* that is to be answered with "success" is about a settled order.         *)
CallbacksOnTrades ==
    \A c \in Callbacks :
      callback[c] # NoCallback =>
        /\ callback[c].trade \in trades
        /\ callback[c].pc = "settled" => orders[callback[c].trade.order].status = "paid"

(* Only a placed order can be paid at a gateway.                           *)
TradesOfPlacedOrders == \A t \in trades : Placed(t.order)

(* The inductive invariant.                                                *)
PaymentsInv ==
    /\ PaymentsTypeOK
    /\ CallbacksOnTrades
    /\ TradesOfPlacedOrders
    /\ OrderCreditedOnce
    /\ CreditsAreEarned
    /\ AcknowledgedIsSettled

-----------------------------------------------------------------------------
(* Rows.                                                                   *)

LEMMA OrderOrNot ==
    ASSUME PaymentsTypeOK, NEW o \in Orders
    PROVE  /\ orders[o] \in OrderRow \/ orders[o] = NoOrder
           /\ Placed(o) <=> orders[o] \in OrderRow
           /\ orders[o].status = "paid" => orders[o] \in OrderRow
<1>1. orders[o] \in OrderRow \/ orders[o] = NoOrder
  BY DEF PaymentsTypeOK
<1>2. \A row \in OrderRow : row.status \in {"pending", "paid"}
  BY DEF OrderRow
<1>3. NoOrder.status = "absent"
  BY DEF NoOrder
<1> QED
  BY <1>1, <1>2, <1>3 DEF Placed

LEMMA MarkedPaidRow ==
    ASSUME NEW row \in OrderRow, NEW t \in Trade
    PROVE  /\ MarkedPaid(row, t) \in OrderRow
           /\ MarkedPaid(row, t).status = "paid"
           /\ MarkedPaid(row, t).user = row.user
           /\ MarkedPaid(row, t).amount = row.amount
           /\ MarkedPaid(row, t).rmb = row.rmb
<1> DEFINE word == "paid"
           gateway == t.provider
<1>1. word \in {"pending", "paid"} /\ word = "paid" /\ gateway \in Providers
  BY DEF Trade
<1>2. MarkedPaid(row, t) = [row EXCEPT !.status = word, !.provider = gateway]
  BY DEF MarkedPaid
<1> HIDE DEF word, gateway
<1> QED
  BY <1>1, <1>2 DEF OrderRow

LEMMA CallbackFields ==
    ASSUME PaymentsInv, NEW c \in Callbacks, callback[c] # NoCallback
    PROVE  callback[c] \in Callback /\ callback[c].trade \in Trade
           /\ callback[c].trade \in trades /\ callback[c].trade.order \in Orders
<1>1. callback[c] \in Callback /\ trades \subseteq Trade
  BY DEF PaymentsInv, PaymentsTypeOK
<1>2. callback[c].trade \in trades
  BY DEF PaymentsInv, CallbacksOnTrades
<1> QED
  BY <1>1, <1>2 DEF Trade

LEMMA BusyCallback ==
    ASSUME NEW c, callback[c].pc \in {"verified", "settled"}
    PROVE  callback[c] # NoCallback
BY DEF NoCallback

-----------------------------------------------------------------------------
(* The statement that settles an order and credits its user.               *)

LEMMA SettlePreserves ==
    ASSUME PaymentsInv, NEW c \in Callbacks, SettleOrder(c)
    PROVE  PaymentsInv'
<1> DEFINE t == callback[c].trade
           o == t.order
           row == orders[o]
           done == [callback[c] EXCEPT !.pc = "settled"]
<1>1. callback[c].pc = "verified" /\ callback[c] # NoCallback
  BY BusyCallback DEF SettleOrder
<1>2. callback[c] \in Callback /\ t \in Trade /\ t \in trades /\ o \in Orders
  BY <1>1, CallbackFields
<1>3. PaymentsTypeOK /\ Placed(o)
  BY <1>2 DEF PaymentsInv, TradesOfPlacedOrders
<1>4. row \in OrderRow
  BY <1>2, <1>3, OrderOrNot
<1>5. /\ callback' = [callback EXCEPT ![c] = done]
      /\ UNCHANGED <<live, opening, provider, rate, trades, acked, churn>>
  BY DEF SettleOrder
<1>6. done \in Callback /\ done.trade = t /\ done.pc = "settled" /\ done # NoCallback
  BY <1>2 DEF Callback, NoCallback
<1> HIDE DEF done
<1>7. callback' \in [Callbacks -> Callback \cup {NoCallback}]
      /\ callback'[c] = done /\ \A d \in Callbacks : d # c => callback'[d] = callback[d]
  BY <1>3, <1>5, <1>6 DEF PaymentsTypeOK
<1> HIDE DEF row
<1>8. CASE Settles(t)
  <2> DEFINE new == MarkedPaid(row, t)
             mine == [order |-> o, user |-> row.user, amount |-> row.amount]
  <2>1. /\ orders' = [orders EXCEPT ![o] = new]
        /\ balance' = Credited(balance, row.user, Recharged(row))
        /\ credits' = IF row.user \in live THEN Append(credits, mine) ELSE credits
    BY <1>8 DEF SettleOrder, Settles, row
  <2>2. /\ new \in OrderRow /\ new.status = "paid"
        /\ new.user = row.user /\ new.amount = row.amount /\ new.rmb = row.rmb
    BY <1>2, <1>4, MarkedPaidRow
  <2>3. /\ mine.order = o /\ mine.user = row.user /\ mine.amount = row.amount
        /\ mine \in Credit
    BY <1>2, <1>4 DEF OrderRow, Credit
  <2>4. row.user \in Users /\ Recharged(row) \in Int
    BY <1>4 DEF OrderRow, Recharged
  <2>5. row.status # "paid" /\ t.money = row.rmb
    BY <1>8 DEF Settles, OpenOrder, SameMoney, row
  <2>6. credits \in Seq(Credit) /\ orders \in [Orders -> OrderRow \cup {NoOrder}]
    BY <1>3 DEF PaymentsTypeOK
  <2> HIDE DEF mine, new
  <2>7. /\ orders'[o] = new /\ orders'[o].status = "paid"
        /\ \A p \in Orders : p # o => orders'[p] = orders[p]
        /\ orders' \in [Orders -> OrderRow \cup {NoOrder}]
    BY <1>2, <2>1, <2>2, <2>6
  <2>8. \A p \in Orders : orders[p].status = "paid" => orders'[p] = orders[p] /\ p # o
    BY <2>5, <2>7 DEF row
  <2>9. balance' \in [Users -> Int]
    BY <1>3, <2>1, <2>4 DEF Credited, PaymentsTypeOK, WalletTypeOK
  <2>10. credits' \in Seq(Credit)
    BY <2>1, <2>3, <2>6
  <2>11. PaymentsTypeOK'
    BY <1>3, <1>5, <1>7, <2>7, <2>9, <2>10 DEF PaymentsTypeOK, WalletTypeOK
  <2>12. CallbacksOnTrades'
    <3> SUFFICES ASSUME NEW d \in Callbacks, callback'[d] # NoCallback
                 PROVE  /\ callback'[d].trade \in trades
                        /\ callback'[d].pc = "settled" =>
                             orders'[callback'[d].trade.order].status = "paid"
      BY <1>5 DEF CallbacksOnTrades
    <3>1. CASE d = c
      BY <3>1, <1>2, <1>6, <1>7, <2>7
    <3>2. CASE d # c
      <4>1. callback'[d] = callback[d] /\ callback[d].trade \in trades
            /\ callback[d].trade.order \in Orders
        BY <3>2, <1>7, CallbackFields
      <4>2. callback[d].pc = "settled" => orders[callback[d].trade.order].status = "paid"
        BY <4>1 DEF PaymentsInv, CallbacksOnTrades
      <4> QED
        BY <4>1, <4>2, <2>8
    <3> QED
      BY <3>1, <3>2
  <2>13. trades \subseteq Trade /\ \A x \in trades : x.order \in Orders
    BY <1>3 DEF PaymentsTypeOK, Trade
  <2>14. TradesOfPlacedOrders'
    <3>1. new # NoOrder
      BY <2>2 DEF NoOrder
    <3> QED
      BY <3>1, <2>7, <2>13, <1>5 DEF PaymentsInv, TradesOfPlacedOrders, Placed
  <2>15. AcknowledgedIsSettled'
    <3>1. \A x \in acked : x.order \in Orders /\ orders[x.order].status = "paid"
      BY <1>3, <2>13 DEF PaymentsInv, AcknowledgedIsSettled, PaymentsTypeOK
    <3> QED
      BY <3>1, <2>8, <1>5 DEF AcknowledgedIsSettled
  <2>16. \A i \in DOMAIN credits : credits[i].order \in Orders /\ credits[i].order # o
    <3> TAKE i \in DOMAIN credits
    <3>1. credits[i] \in Credit
      BY <2>6
    <3>2. credits[i].order \in Orders
      BY <3>1 DEF Credit
    <3>3. orders[credits[i].order].status = "paid"
      BY DEF PaymentsInv, CreditsAreEarned
    <3> QED
      BY <3>2, <3>3, <2>8
  <2>17. \A i \in DOMAIN credits' :
           \/ i \in DOMAIN credits /\ credits'[i] = credits[i]
           \/ credits'[i] = mine /\ i \notin DOMAIN credits
               /\ DOMAIN credits' = DOMAIN credits \cup {i}
    BY <2>1, <2>3, <2>6
  <2>18. OrderCreditedOnce'
    <3> SUFFICES ASSUME NEW i \in DOMAIN credits', NEW j \in DOMAIN credits',
                        credits'[i].order = credits'[j].order
                 PROVE  i = j
      BY DEF OrderCreditedOnce
    <3>1. CASE i \in DOMAIN credits /\ j \in DOMAIN credits
      BY <3>1, <2>17 DEF PaymentsInv, OrderCreditedOnce
    <3>2. CASE ~(i \in DOMAIN credits /\ j \in DOMAIN credits)
      BY <3>2, <2>3, <2>16, <2>17
    <3> QED
      BY <3>1, <3>2
  <2>19. CreditsAreEarned'
    <3> SUFFICES ASSUME NEW i \in DOMAIN credits'
                 PROVE  LET p == credits'[i].order IN
                        /\ orders'[p].status = "paid"
                        /\ credits'[i].user = orders'[p].user
                        /\ credits'[i].amount = orders'[p].amount
                        /\ \E x \in trades : x.order = p /\ x.money = orders'[p].rmb
      BY <1>5 DEF CreditsAreEarned
    <3>1. CASE i \in DOMAIN credits /\ credits'[i] = credits[i]
      <4>1. orders'[credits[i].order] = orders[credits[i].order]
        BY <3>1, <2>7, <2>16
      <4> QED
        BY <3>1, <4>1 DEF PaymentsInv, CreditsAreEarned
    <3>2. CASE credits'[i] = mine
      BY <3>2, <1>2, <2>2, <2>3, <2>5, <2>7
    <3> QED
      BY <3>1, <3>2, <2>17
  <2> QED
    BY <2>11, <2>12, <2>14, <2>15, <2>18, <2>19 DEF PaymentsInv
<1>9. CASE ~OpenOrder(o) /\ UNCHANGED <<orders, balance, credits>>
  <2>1. PaymentsTypeOK'
    BY <1>3, <1>5, <1>7, <1>9 DEF PaymentsTypeOK, WalletTypeOK
  <2>2. CallbacksOnTrades'
    BY <1>2, <1>5, <1>6, <1>7, <1>9 DEF PaymentsInv, CallbacksOnTrades, OpenOrder
  <2>3. TradesOfPlacedOrders' /\ OrderCreditedOnce' /\ CreditsAreEarned' /\ AcknowledgedIsSettled'
    BY <1>5, <1>9 DEF PaymentsInv, TradesOfPlacedOrders, Placed, OrderCreditedOnce,
                      CreditsAreEarned, AcknowledgedIsSettled
  <2> QED
    BY <2>1, <2>2, <2>3 DEF PaymentsInv
<1> QED
  BY <1>8, <1>9 DEF SettleOrder

-----------------------------------------------------------------------------
(* The steps of a callback that leave the order alone.                     *)

LEMMA BooksUnchanged ==
    ASSUME PaymentsInv, UNCHANGED <<orders, trades, credits>>
    PROVE  TradesOfPlacedOrders' /\ OrderCreditedOnce' /\ CreditsAreEarned'
BY DEF PaymentsInv, TradesOfPlacedOrders, Placed, OrderCreditedOnce, CreditsAreEarned

LEMMA VerifyPreserves ==
    ASSUME PaymentsInv, NEW c \in Callbacks, NEW t \in trades, NEW via \in {"notify", "return"},
           VerifyCallback(c, t, via)
    PROVE  PaymentsInv'
<1> DEFINE word == "verified"
           new == [pc |-> word, trade |-> t, via |-> via]
<1>1. PaymentsTypeOK /\ t \in Trade
  BY DEF PaymentsInv, PaymentsTypeOK
<1>2. callback' = [callback EXCEPT ![c] = new]
      /\ UNCHANGED <<walletVars, orders, provider, rate, trades, acked, credits, churn>>
  BY DEF VerifyCallback
<1>3. word \in {"verified", "settled"} /\ word # "settled"
  OBVIOUS
<1> HIDE DEF word
<1>4. new \in Callback /\ new.trade = t /\ new.pc # "settled"
  BY <1>1, <1>3 DEF Callback
<1> HIDE DEF new
<1>5. callback' \in [Callbacks -> Callback \cup {NoCallback}]
      /\ callback'[c] = new /\ \A d \in Callbacks : d # c => callback'[d] = callback[d]
  BY <1>1, <1>2, <1>4 DEF PaymentsTypeOK
<1>6. PaymentsTypeOK'
  BY <1>1, <1>2, <1>5 DEF PaymentsTypeOK, WalletTypeOK, walletVars
<1>7. CallbacksOnTrades'
  BY <1>2, <1>4, <1>5 DEF PaymentsInv, CallbacksOnTrades
<1>8. TradesOfPlacedOrders' /\ OrderCreditedOnce' /\ CreditsAreEarned'
  BY <1>2, BooksUnchanged
<1>9. AcknowledgedIsSettled'
  BY <1>2 DEF PaymentsInv, AcknowledgedIsSettled
<1> QED
  BY <1>6, <1>7, <1>8, <1>9 DEF PaymentsInv

(* The end of a callback: what is acknowledged was about a settled order.  *)
LEMMA AnswerPreserves ==
    ASSUME PaymentsInv, NEW c \in Callbacks,
           callback' = [callback EXCEPT ![c] = NoCallback],
           \/ acked' = acked
           \/ callback[c].pc = "settled" /\ acked' = acked \cup {callback[c].trade},
           UNCHANGED <<walletVars, orders, provider, rate, trades, credits>>,
           churn' \in 0 .. MaxChurn
    PROVE  PaymentsInv'
<1>1. PaymentsTypeOK
  BY DEF PaymentsInv
<1>2. callback' \in [Callbacks -> Callback \cup {NoCallback}]
      /\ \A d \in Callbacks : callback'[d] # NoCallback => callback'[d] = callback[d]
  BY <1>1 DEF PaymentsTypeOK
<1>3. acked' \subseteq trades /\ AcknowledgedIsSettled'
  <2>1. CASE acked' = acked
    BY <2>1, <1>1 DEF PaymentsInv, PaymentsTypeOK, AcknowledgedIsSettled
  <2>2. CASE callback[c].pc = "settled" /\ acked' = acked \cup {callback[c].trade}
    <3>1. callback[c].trade \in trades /\ orders[callback[c].trade.order].status = "paid"
      BY <2>2, BusyCallback DEF PaymentsInv, CallbacksOnTrades
    <3> QED
      BY <2>2, <3>1, <1>1 DEF PaymentsInv, PaymentsTypeOK, AcknowledgedIsSettled
  <2> QED
    BY <2>1, <2>2
<1>4. PaymentsTypeOK'
  BY <1>1, <1>2, <1>3 DEF PaymentsTypeOK, WalletTypeOK, walletVars
<1>5. CallbacksOnTrades'
  BY <1>2 DEF PaymentsInv, CallbacksOnTrades
<1>6. TradesOfPlacedOrders' /\ OrderCreditedOnce' /\ CreditsAreEarned'
  BY BooksUnchanged
<1> QED
  BY <1>3, <1>4, <1>5, <1>6 DEF PaymentsInv

LEMMA ServePreserves ==
    ASSUME PaymentsInv, NEW c \in Callbacks, Serve(c) \/ SettleFails(c)
    PROVE  PaymentsInv'
<1>1. CASE SettleOrder(c)
  BY <1>1, SettlePreserves
<1>2. churn \in 0 .. MaxChurn
  BY DEF PaymentsInv, PaymentsTypeOK
<1>3. CASE MoneyMismatch(c)
  BY <1>2, <1>3, AnswerPreserves DEF MoneyMismatch, AnswerFail
<1>4. CASE AnswerSuccess(c)
  BY <1>2, <1>4, AnswerPreserves DEF AnswerSuccess
<1>5. CASE SettleFails(c)
  <2>1. churn' \in 0 .. MaxChurn
    BY <1>5, InterveneBounded DEF SettleFails, PaymentsInv, PaymentsTypeOK
  <2> QED
    BY <1>5, <2>1, AnswerPreserves DEF SettleFails, AnswerFail
<1> QED
  BY <1>1, <1>3, <1>4, <1>5 DEF Serve

-----------------------------------------------------------------------------
(* The user and the gateway.                                               *)

LEMMA RoundedPrice ==
    ASSUME NEW x \in Nat, NEW y \in Nat
    PROVE  RoundToCents(x * y) \in Nat
<1> DEFINE whole == x * y + Cent \div 2
<1>1. Cent \in Nat \ {0}
  BY PaymentsAssumption
<1>2. x * y \in Nat /\ Cent \div 2 \in Nat
  BY <1>1
<1>3. whole \in Nat
  BY <1>2
<1> HIDE DEF whole
<1>4. whole \div Cent \in Nat
  BY <1>1, <1>3
<1> QED
  BY <1>4 DEF RoundToCents, whole

LEMMA CreateOrderPreserves ==
    ASSUME PaymentsInv, NEW o \in Orders, NEW u \in Users, NEW amount \in Amounts,
           CreateOrder(o, u, amount)
    PROVE  PaymentsInv'
<1> DEFINE word == "pending"
           price == RoundToCents(amount * rate)
           new == [status |-> word, user |-> u, amount |-> amount,
                   rmb |-> price, provider |-> provider]
<1>1. PaymentsTypeOK
  BY DEF PaymentsInv
<1>2. /\ orders[o] = NoOrder
      /\ orders' = [orders EXCEPT ![o] = new]
      /\ UNCHANGED <<walletVars, provider, rate, trades, acked, callback, credits, churn>>
  BY DEF CreateOrder, Placed
<1>3. amount \in Nat \ {0} /\ rate \in Nat \ {0} /\ provider \in Providers
  BY <1>1, PaymentsAssumption DEF PaymentsTypeOK
<1>4. price \in Nat
  BY <1>3, RoundedPrice
<1>5. word \in {"pending", "paid"} /\ word # "absent"
  OBVIOUS
<1> HIDE DEF word, price
<1>6. new \in OrderRow /\ new # NoOrder
  BY <1>3, <1>4, <1>5 DEF OrderRow, NoOrder
<1> HIDE DEF new
<1>7. /\ orders' \in [Orders -> OrderRow \cup {NoOrder}] /\ orders'[o] # NoOrder
      /\ \A p \in Orders : p # o => orders'[p] = orders[p]
  BY <1>1, <1>2, <1>6 DEF PaymentsTypeOK
<1>8. \A p \in Orders : orders[p].status = "paid" => orders'[p] = orders[p]
  BY <1>2, <1>7 DEF NoOrder
<1>9. PaymentsTypeOK'
  BY <1>1, <1>2, <1>7 DEF PaymentsTypeOK, WalletTypeOK, walletVars
<1>10. \A t \in trades : t.order \in Orders
  BY <1>1 DEF PaymentsTypeOK, Trade
<1>11. TradesOfPlacedOrders'
  BY <1>2, <1>7, <1>10 DEF PaymentsInv, TradesOfPlacedOrders, Placed
<1>12. CallbacksOnTrades'
  <2>1. \A d \in Callbacks : callback[d] # NoCallback => callback[d].trade.order \in Orders
    BY <1>10 DEF PaymentsInv, CallbacksOnTrades
  <2> QED
    BY <1>2, <1>8, <2>1 DEF PaymentsInv, CallbacksOnTrades
<1>13. AcknowledgedIsSettled'
  <2>1. \A t \in acked : t.order \in Orders
    BY <1>1, <1>10 DEF PaymentsTypeOK
  <2> QED
    BY <1>2, <1>8, <2>1 DEF PaymentsInv, AcknowledgedIsSettled
<1>14. OrderCreditedOnce'
  BY <1>2 DEF PaymentsInv, OrderCreditedOnce
<1>15. CreditsAreEarned'
  <2>1. \A i \in DOMAIN credits : credits[i] \in Credit
    BY <1>1 DEF PaymentsTypeOK
  <2>2. \A i \in DOMAIN credits : credits[i].order \in Orders
    BY <2>1 DEF Credit
  <2> QED
    BY <1>2, <1>8, <2>2 DEF PaymentsInv, CreditsAreEarned
<1> QED
  BY <1>9, <1>11, <1>12, <1>13, <1>14, <1>15 DEF PaymentsInv

LEMMA PayPreserves ==
    ASSUME PaymentsInv, NEW o \in Orders, NEW money \in Nat, PayAtGateway(o, money)
    PROVE  PaymentsInv'
<1> DEFINE new == [order |-> o, money |-> money, provider |-> orders[o].provider]
<1>1. PaymentsTypeOK
  BY DEF PaymentsInv
<1>2. /\ Placed(o) /\ trades' = trades \cup {new}
      /\ UNCHANGED <<walletVars, orders, provider, rate, acked, callback, credits, churn>>
  BY DEF PayAtGateway
<1>3. orders[o] \in OrderRow
  BY <1>1, <1>2, OrderOrNot
<1>4. new \in Trade /\ new.order = o
  BY <1>3 DEF OrderRow, Trade
<1> HIDE DEF new
<1>5. PaymentsTypeOK'
  BY <1>1, <1>2, <1>4 DEF PaymentsTypeOK, WalletTypeOK, walletVars
<1>6. CallbacksOnTrades' /\ TradesOfPlacedOrders' /\ OrderCreditedOnce'
      /\ AcknowledgedIsSettled'
  BY <1>2, <1>4 DEF PaymentsInv, CallbacksOnTrades, TradesOfPlacedOrders, Placed,
                    OrderCreditedOnce, AcknowledgedIsSettled
<1>7. CreditsAreEarned'
  BY <1>2 DEF PaymentsInv, CreditsAreEarned
<1> QED
  BY <1>5, <1>6, <1>7 DEF PaymentsInv

-----------------------------------------------------------------------------
(* Everybody else.                                                         *)

LEMMA GatewayPreserves ==
    ASSUME PaymentsInv,
           \/ \E p \in Providers, newRate \in Rates : UpdatePaymentSettings(p, newRate)
           \/ \E u \in Users : AccountAdmin(u)
           \/ LoseCallbacks
    PROVE  PaymentsInv'
<1>1. PaymentsTypeOK
  BY DEF PaymentsInv
<1>2. UNCHANGED <<orders, trades, acked, credits>> /\ Intervene
  BY DEF UpdatePaymentSettings, AccountAdmin, LoseCallbacks
<1>3. churn' \in 0 .. MaxChurn
  BY <1>2, InterveneBounded DEF PaymentsInv, PaymentsTypeOK
<1>4. callback' \in [Callbacks -> Callback \cup {NoCallback}]
      /\ \A d \in Callbacks : callback'[d] # NoCallback => callback'[d] = callback[d]
  BY <1>1 DEF PaymentsTypeOK, UpdatePaymentSettings, AccountAdmin, LoseCallbacks
<1>5. provider' \in Providers /\ rate' \in Rates
  BY <1>1 DEF PaymentsTypeOK, UpdatePaymentSettings, AccountAdmin, LoseCallbacks
<1>6. WalletTypeOK'
  <2>1. CASE \E u \in Users : AccountAdmin(u)
    <3>1. PICK u \in Users : AccountAdmin(u)
      BY <2>1
    <3>2. CASE DeleteUser(u)
      BY <3>2, <1>1 DEF PaymentsTypeOK, WalletTypeOK, DeleteUser
    <3>3. CASE \E v \in AdminBalances : AdminUpdateBalance(u, v)
      <4>1. PICK v \in AdminBalances : AdminUpdateBalance(u, v)
        BY <3>3
      <4> QED
        BY <4>1, <1>1, BalancesAssumption
           DEF PaymentsTypeOK, WalletTypeOK, AdminUpdateBalance
    <3> QED
      BY <3>1, <3>2, <3>3 DEF AccountAdmin
  <2>2. CASE UNCHANGED walletVars
    BY <2>2, <1>1 DEF PaymentsTypeOK, WalletTypeOK, walletVars
  <2> QED
    BY <2>1, <2>2 DEF UpdatePaymentSettings, LoseCallbacks
<1>7. PaymentsTypeOK'
  BY <1>1, <1>2, <1>3, <1>4, <1>5, <1>6 DEF PaymentsTypeOK
<1>8. CallbacksOnTrades'
  BY <1>2, <1>4 DEF PaymentsInv, CallbacksOnTrades
<1>9. TradesOfPlacedOrders' /\ OrderCreditedOnce' /\ CreditsAreEarned'
  BY <1>2, BooksUnchanged
<1>10. AcknowledgedIsSettled'
  BY <1>2 DEF PaymentsInv, AcknowledgedIsSettled
<1> QED
  BY <1>7, <1>8, <1>9, <1>10 DEF PaymentsInv

-----------------------------------------------------------------------------
(* The theorems.                                                           *)

LEMMA PaymentsInitial ==
    PaymentsInit => PaymentsInv
<1> SUFFICES ASSUME PaymentsInit PROVE PaymentsInv
  OBVIOUS
<1>1. WalletTypeOK
  BY BalancesAssumption DEF PaymentsInit, WalletInit, WalletTypeOK
<1>2. PaymentsTypeOK
  BY <1>1, BalancesAssumption, PaymentsAssumption
     DEF PaymentsInit, PaymentsTypeOK
<1> QED
  BY <1>2 DEF PaymentsInit, PaymentsInv, CallbacksOnTrades, TradesOfPlacedOrders,
              OrderCreditedOnce, CreditsAreEarned, AcknowledgedIsSettled

LEMMA PaymentsStep ==
    PaymentsInv /\ [PaymentsNext]_paymentVars => PaymentsInv'
<1> SUFFICES ASSUME PaymentsInv, [PaymentsNext]_paymentVars PROVE PaymentsInv'
  OBVIOUS
<1>1. CASE \E o \in Orders, u \in Users, amount \in Amounts : CreateOrder(o, u, amount)
  BY <1>1, CreateOrderPreserves
<1>2. CASE \E o \in Orders : Placed(o) /\ \E money \in Paid(o) : PayAtGateway(o, money)
  <2>1. PICK o \in Orders : Placed(o) /\ \E money \in Paid(o) : PayAtGateway(o, money)
    BY <1>2
  <2>2. Paid(o) \subseteq Nat
    BY DEF Paid
  <2> QED
    BY <2>1, <2>2, PayPreserves
<1>3. CASE \E c \in Callbacks, t \in trades, via \in {"notify", "return"} :
             VerifyCallback(c, t, via)
  BY <1>3, VerifyPreserves
<1>4. CASE \E c \in Callbacks : Serve(c) \/ SettleFails(c)
  BY <1>4, ServePreserves
<1>5. CASE \/ \E p \in Providers, newRate \in Rates : UpdatePaymentSettings(p, newRate)
           \/ \E u \in Users : AccountAdmin(u)
           \/ LoseCallbacks
  BY <1>5, GatewayPreserves
<1>6. CASE UNCHANGED paymentVars
  <2>1. PaymentsTypeOK'
    BY <1>6 DEF PaymentsInv, PaymentsTypeOK, WalletTypeOK, paymentVars, orderVars, walletVars
  <2> QED
    BY <1>6, <2>1 DEF PaymentsInv, paymentVars, orderVars, CallbacksOnTrades, TradesOfPlacedOrders,
       Placed, OrderCreditedOnce, CreditsAreEarned, AcknowledgedIsSettled
<1> QED
  BY <1>1, <1>2, <1>3, <1>4, <1>5, <1>6 DEF PaymentsNext

(* The inductive invariant of the payments: types, what each callback has  *)
(* read, which order a trade belongs to, and the properties themselves.    *)
THEOREM PaymentsInvariance == PaymentsSpec => []PaymentsInv
BY PaymentsInitial, PaymentsStep, PTL DEF PaymentsSpec

(* Every variable keeps its type.                                          *)
THEOREM PaymentsTypeCorrect == PaymentsSpec => []PaymentsTypeOK
<1>1. PaymentsInv => PaymentsTypeOK
  BY DEF PaymentsInv
<1> QED
  BY <1>1, PaymentsInvariance, PTL

(* An order is credited at most once, through any number of callbacks      *)
(* (Notify, Return), crashes and roll-backs.                               *)
THEOREM CreditedOnce == PaymentsSpec => []OrderCreditedOnce
<1>1. PaymentsInv => OrderCreditedOnce
  BY DEF PaymentsInv
<1> QED
  BY <1>1, PaymentsInvariance, PTL

(* Every credit is that of a settled order whose whole price was paid.     *)
THEOREM EarnedCredits == PaymentsSpec => []CreditsAreEarned
<1>1. PaymentsInv => CreditsAreEarned
  BY DEF PaymentsInv
<1> QED
  BY <1>1, PaymentsInvariance, PTL

(* A gateway is told "success" only about a settled order.                 *)
THEOREM SettledBeforeAcknowledged == PaymentsSpec => []AcknowledgedIsSettled
<1>1. PaymentsInv => AcknowledgedIsSettled
  BY DEF PaymentsInv
<1> QED
  BY <1>1, PaymentsInvariance, PTL

-----------------------------------------------------------------------------
(* The books.                                                              *)

CreditOf == [i \in DOMAIN credits |-> credits[i].amount]

CreditsOf(u) == {i \in DOMAIN credits : credits[i].user = u}

LEMMA CreditsFinite ==
    ASSUME credits \in Seq(Credit), NEW u
    PROVE  IsFiniteSet(CreditsOf(u)) /\ \A i \in CreditsOf(u) : CreditOf[i] \in Int
<1>1. IsFiniteSet(DOMAIN credits)
  <2>1. DOMAIN credits = 1 .. Len(credits) /\ Len(credits) \in Int
    OBVIOUS
  <2> QED
    BY <2>1, FS_Interval
<1>2. \A i \in DOMAIN credits : credits[i] \in Credit
  OBVIOUS
<1>3. \A i \in DOMAIN credits : credits[i].amount \in Int
  BY <1>2 DEF Credit
<1> QED
  BY <1>1, <1>3, FS_Subset DEF CreditsOf, CreditOf

(* A credit adds its amount to what its user received, and to nobody else. *)
LEMMA ReceivedGrows ==
    ASSUME credits \in Seq(Credit), NEW c \in Credit, credits' = Append(credits, c), NEW u
    PROVE  /\ Received(u) \in Int /\ c.amount \in Int
           /\ Received(u)' = IF c.user = u THEN Received(u) + c.amount ELSE Received(u)
<1> DEFINE last == Len(credits) + 1
           f == CreditOf
           g == CreditOf'
           S == CreditsOf(u)
<1>1. IsFiniteSet(S) /\ \A i \in S : f[i] \in Int
  BY CreditsFinite
<1>2. Received(u) = SumFunctionOnSet(f, S) /\ Received(u)' = SumFunctionOnSet(g, CreditsOf(u)')
  BY DEF Received, CreditOf, CreditsOf
<1>3. /\ DOMAIN credits' = DOMAIN credits \cup {last} /\ last \notin DOMAIN credits
      /\ credits'[last] = c /\ \A i \in DOMAIN credits : credits'[i] = credits[i]
  OBVIOUS
<1> HIDE DEF last
<1>4. last \notin S /\ g[last] = c.amount /\ \A i \in S : g[i] = f[i]
  BY <1>3 DEF CreditOf, CreditsOf
<1>5. CreditsOf(u)' = IF c.user = u THEN S \cup {last} ELSE S
  BY <1>3 DEF CreditsOf
<1>6. c.amount \in Int
  BY DEF Credit
<1> HIDE DEF f, g, S
<1>7. SumFunctionOnSet(f, S) \in Int /\ SumFunctionOnSet(g, S) = SumFunctionOnSet(f, S)
  BY <1>1, <1>4, SumRemove, SumAgrees
<1>8. SumFunctionOnSet(g, S \cup {last}) = SumFunctionOnSet(f, S) + c.amount
  BY <1>1, <1>4, <1>6, SumGrows
<1> QED
  BY <1>2, <1>5, <1>6, <1>7, <1>8

(* The transaction posts to the balance what it appends to the credits.    *)
LEMMA SettleReconciles ==
    ASSUME PaymentsInv, RechargesReconcile, NEW c \in Callbacks, SettleOrder(c)
    PROVE  RechargesReconcile'
<1> DEFINE o == callback[c].trade.order
           u == orders[o].user
           amount == orders[o].amount
           mine == [order |-> o, user |-> u, amount |-> amount]
<1>1. /\ credits \in Seq(Credit) /\ balance \in [Users -> Int] /\ opening \in [Users -> Int]
      /\ live \subseteq Users
  BY DEF PaymentsInv, PaymentsTypeOK, WalletTypeOK
<1>2. live' = live /\ opening' = opening
  BY DEF SettleOrder
<1>3. CASE UNCHANGED <<balance, credits>>
  BY <1>2, <1>3 DEF RechargesReconcile, Received
<1>4. CASE /\ balance' = Credited(balance, u, amount)
           /\ credits' = IF u \in live THEN Append(credits, mine) ELSE credits
  <2>1. CASE u \notin live
    BY <1>2, <1>4, <2>1 DEF RechargesReconcile, Received, Credited
  <2>2. CASE u \in live
    <3>1. callback[c].pc = "verified" /\ callback[c] # NoCallback
      BY DEF SettleOrder, NoCallback
    <3>2. o \in Orders /\ Placed(o)
      BY <3>1, CallbackFields DEF PaymentsInv, TradesOfPlacedOrders
    <3>3. orders[o] \in OrderRow
      BY <3>2, OrderOrNot DEF PaymentsInv
    <3>4. u \in Users /\ amount \in Nat
      BY <3>3 DEF OrderRow
    <3>5. balance' = [balance EXCEPT ![u] = @ + amount] /\ credits' = Append(credits, mine)
      BY <1>4, <2>2 DEF Credited
    <3> HIDE DEF o, u, amount
    <3>6. mine \in Credit /\ mine.user = u /\ mine.amount = amount
      BY <3>2, <3>4 DEF Credit
    <3> HIDE DEF mine
    <3> SUFFICES ASSUME NEW w \in live
                 PROVE  balance'[w] = opening[w] + Received(w)'
      BY <1>2 DEF RechargesReconcile
    <3>7. balance[w] = opening[w] + Received(w) /\ opening[w] \in Int /\ balance[w] \in Int
      BY <1>1 DEF RechargesReconcile
    <3>8. /\ Received(w) \in Int
          /\ Received(w)' = IF u = w THEN Received(w) + amount ELSE Received(w)
      BY <1>1, <3>5, <3>6, ReceivedGrows
    <3>9. balance'[w] = IF u = w THEN balance[w] + amount ELSE balance[w]
      BY <1>1, <3>5
    <3> QED
      BY <3>4, <3>7, <3>8, <3>9
  <2> QED
    BY <2>1, <2>2
<1> QED
  BY <1>3, <1>4 DEF SettleOrder, Recharged

(* An administrator's overwrite moves the opening balance by the same.     *)
LEMMA AccountAdminReconciles ==
    ASSUME PaymentsInv, RechargesReconcile, NEW u \in Users, AccountAdmin(u)
    PROVE  RechargesReconcile'
<1>1. /\ credits \in Seq(Credit) /\ balance \in [Users -> Int] /\ opening \in [Users -> Int]
      /\ live \subseteq Users
  BY DEF PaymentsInv, PaymentsTypeOK, WalletTypeOK
<1>2. credits' = credits
  BY DEF AccountAdmin
<1>3. CASE DeleteUser(u)
  BY <1>2, <1>3 DEF DeleteUser, RechargesReconcile, Received
<1>4. ASSUME NEW v \in AdminBalances, AdminUpdateBalance(u, v)
      PROVE  RechargesReconcile'
  <2> SUFFICES ASSUME NEW w \in live
               PROVE  balance'[w] = opening'[w] + Received(w)
    BY <1>2, <1>4 DEF RechargesReconcile, Received, AdminUpdateBalance
  <2>1. balance[w] = opening[w] + Received(w) /\ Received(w) \in Int
    <3>1. IsFiniteSet(CreditsOf(w)) /\ \A i \in CreditsOf(w) : CreditOf[i] \in Int
      BY <1>1, CreditsFinite
    <3>2. SumFunctionOnSet(CreditOf, CreditsOf(w)) \in Int
      BY <3>1, SumRemove
    <3> QED
      BY <3>2 DEF RechargesReconcile, Received, CreditOf, CreditsOf
  <2>2. v \in Int /\ w \in Users /\ opening[w] \in Int /\ balance[w] \in Int
    BY <1>1, BalancesAssumption
  <2>3. /\ balance' = [balance EXCEPT ![u] = v]
        /\ opening' = [opening EXCEPT ![u] = @ + (v - balance[u])]
    BY <1>4 DEF AdminUpdateBalance
  <2>4. CASE w = u
    <3>1. balance'[w] = v /\ opening'[w] = opening[w] + (v - balance[w])
      BY <1>1, <2>2, <2>3, <2>4
    <3> QED
      BY <3>1, <2>1, <2>2
  <2>5. CASE w # u
    BY <1>1, <2>1, <2>2, <2>3, <2>5
  <2> QED
    BY <2>4, <2>5
<1> QED
  BY <1>3, <1>4 DEF AccountAdmin

LEMMA RechargesStep ==
    PaymentsInv /\ RechargesReconcile /\ [PaymentsNext]_paymentVars => RechargesReconcile'
<1> SUFFICES ASSUME PaymentsInv, RechargesReconcile, [PaymentsNext]_paymentVars
             PROVE  RechargesReconcile'
  OBVIOUS
<1>1. CASE UNCHANGED <<live, balance, opening, credits>>
  BY <1>1 DEF RechargesReconcile, Received
<1>2. CASE \E c \in Callbacks : SettleOrder(c)
  BY <1>2, SettleReconciles
<1>3. CASE \E u \in Users : AccountAdmin(u)
  BY <1>3, AccountAdminReconciles
<1>4. \/ UNCHANGED <<live, balance, opening, credits>>
      \/ \E c \in Callbacks : SettleOrder(c)
      \/ \E u \in Users : AccountAdmin(u)
  BY DEF PaymentsNext, CreateOrder, PayAtGateway, VerifyCallback, Serve, MoneyMismatch,
         AnswerSuccess, SettleFails, UpdatePaymentSettings, LoseCallbacks, paymentVars, orderVars, walletVars
<1> QED
  BY <1>1, <1>2, <1>3, <1>4

LEMMA RechargesInitial == PaymentsInit => RechargesReconcile
<1> SUFFICES ASSUME PaymentsInit, NEW u \in live
             PROVE  balance[u] = opening[u] + Received(u)
  BY DEF RechargesReconcile
<1>1. {i \in DOMAIN credits : credits[i].user = u} = {}
  BY DEF PaymentsInit
<1>2. Received(u) = 0
  BY <1>1, SumOfNone DEF Received
<1>3. balance[u] \in Int /\ opening[u] = balance[u]
  BY BalancesAssumption DEF PaymentsInit, WalletInit
<1> QED
  BY <1>2, <1>3

(* The books balance: whoever still has a row has the opening balance and  *)
(* the sum of the credits, after any number of orders, callbacks, crashes  *)
(* and overwrites.                                                         *)
THEOREM RechargesBalance == PaymentsSpec => []RechargesReconcile
<1>1. PaymentsInv /\ PaymentsInv' /\ RechargesReconcile /\ [PaymentsNext]_paymentVars
        => RechargesReconcile'
  BY RechargesStep
<1> QED
  BY <1>1, RechargesInitial, PaymentsInvariance, PTL DEF PaymentsSpec
=============================================================================
