------------------------------ MODULE Pricing -------------------------------
(***************************************************************************)
(* The price book of a model, as an administrator writes it, the server    *)
(* stores it, the catalogs show it, and requests are charged by it.        *)
(*                                                                         *)
(* A request is charged by the rows it was routed with (PriceBooks).       *)
(***************************************************************************)
EXTENDS PriceBooks

CONSTANTS
    Inputs,         \* bodies an administrator sends for the model
    Multipliers,    \* multipliers of the user channel
    GroupSettings,  \* what the groups of the user may be and cost
    Answers,        \* what upstreams answer, and how the client asked
    NoBill,         \* no request, no bill
    MaxChanges      \* bound: changes of prices, multipliers and groups

(* Prices are in halves of a unit, and upstreams count with numbers.       *)
Price == {p \in Int : p % 2 = 0}

Input ==
    [quota: STRING, price: [Units -> Price],
     tiers: [Units -> Seq([min: Int, price: Price, condition: Word])],
     video: Seq([resolution: STRING, unit: Int, durations: Seq([seconds: Int, price: Int])])]

Group_ == [rate: Int, channel: Int, model: Int]

ASSUME PricingAssumption ==
    /\ Inputs \subseteq Input
    /\ Multipliers \subseteq Int
    /\ \A s \in GroupSettings :
         IsFiniteSet(s.members) /\ IsFiniteSet(s.home) /\ s.members \cup s.home \subseteq Group_
    /\ \A a \in Answers :
         /\ IsReport(a.report)
         /\ a.events \in Seq(Range(a.events)) /\ \A i \in DOMAIN a.events : IsReport(a.events[i])
         /\ a.guess \in [input: Nat, output: Nat, items: Nat]
         /\ a.video \in [resolution: STRING, seconds: Int, count: Nat]
    /\ MaxChanges \in Nat

VARIABLES
    asked,          \* the body that was saved last
    book,           \* the row of the models table
    multiplier,     \* of the user channel
    groups,         \* the user's groups and their multipliers
    request,        \* the target a request in flight has resolved
    bill,           \* the bill that was written last
    changes         \* what the bound counts (nothing else reads it)

pricingVars == <<asked, book, multiplier, groups, request, bill, changes>>

-----------------------------------------------------------------------------
(* The server.                                                             *)

(* A video price that prices nothing is refused.                           *)
Accepted(input) ==
    input.quota = "video" => NormalizeVideoBillingConfig(input.video) # <<>>

modelFromInput(input) ==
    [quota |-> IF input.quota \in Quotas THEN input.quota ELSE "token",
     price |-> input.price,
     tiers |-> [unit \in Units |-> NormalizePriceTiers(input.tiers[unit])],
     video |-> NormalizeVideoBillingConfig(input.video)]

PricingInit ==
    /\ asked \in {input \in Inputs : Accepted(input)}
    /\ book = modelFromInput(asked)
    /\ multiplier \in Multipliers
    /\ groups \in GroupSettings
    /\ request = NoBill /\ bill = NoBill
    /\ changes = 0

Change == changes < MaxChanges /\ changes' = changes + 1

(* Of ModelAPI: a model that is created or updated gets every price anew.  *)
SaveModel(input) ==
    /\ Accepted(input)
    /\ asked' = input /\ book' = modelFromInput(input)
    /\ Change /\ UNCHANGED <<multiplier, groups, request, bill>>

UpdateUserChannel(m) ==
    /\ multiplier' = m
    /\ Change /\ UNCHANGED <<asked, book, groups, request, bill>>

(* Memberships come and go, by hand or with time, and the mode is set.     *)
Regroup(s) ==
    /\ groups' = s
    /\ Change /\ UNCHANGED <<asked, book, multiplier, request, bill>>

(* What s says of the user's groups but for one of their multipliers.      *)
Besides(s, multiplierOf) ==
    [s EXCEPT !.members = {[g EXCEPT ![multiplierOf] = 0] : g \in s.members},
              !.home = {[g EXCEPT ![multiplierOf] = 0] : g \in s.home}]

Remultiply(s, of) == Besides(s, of) = Besides(groups, of) /\ Regroup(s)

(* No multiplier of zero is stored.                                        *)
UpdateGroup(s) ==
    /\ \A g \in s.members \cup s.home : g.rate = 0 => g \in groups.members \cup groups.home
    /\ Remultiply(s, "rate")

(* A zero is the absence of one.                                           *)
SetChannelGroupMultipliers(s) == Remultiply(s, "channel")

SetModelGroupMultipliers(s) == Remultiply(s, "model")

(* The rows the request will be billed by are read when it is routed.      *)
resolveTarget ==
    /\ request = NoBill
    /\ request' = [asked |-> asked, book |-> book, multiplier |-> multiplier]
    /\ bill' = NoBill
    /\ UNCHANGED <<asked, book, multiplier, groups, changes>>

(* What is counted of an answer.  a.guess is what the tokenizer makes of   *)
(* the bodies: the request's, and the answer's or the items'.              *)
Counts(a) ==
    LET parsed == IF a.kind = "stream" THEN parseUsageTokensFromStream(a.events)
                  ELSE parseUsageTokens(ClientReport(a.report, a.upstream, a.client))
        guess == [Nothing EXCEPT !["input"] = a.guess.input, !["output"] = a.guess.output]
    IN CASE a.kind = "image" -> imageUsageTokenCounts(a.report, a.guess.input, a.guess.items)
         [] a.kind = "video" ->
              IF request.book.quota = "token" /\ parsed.ok THEN parsed.counts
              ELSE estimateItems(a.guess.input, a.guess.items)
         [] OTHER -> IF parsed.ok THEN parsed.counts ELSE guess

(* Only video endpoints have a cost for video prices; elsewhere the cost   *)
(* of such a model is zero.                                                *)
Cost(a) ==
    LET counts == normalizeUsageTokenCounts(Counts(a)) IN
    effectiveUserGroupMultiplier(groups) * userChannelMultiplier(request.multiplier)
      * (IF request.book.quota = "video" /\ a.kind # "video" THEN 0
         ELSE calculateModelUsageCost(counts, a.video, request.book))

(* billUsageAndReturnCost.  An upstream that answers badly, a group that   *)
(* is gone or a video that has no price end the request without a bill.    *)
Bill(a) ==
    /\ request # NoBill
    /\ bill' = IF Billable(groups)
                  /\ (request.book.quota = "video" /\ a.kind = "video"
                        => VideoAllowed(request.book.video, a.video))
               THEN [answer |-> a, counts |-> normalizeUsageTokenCounts(Counts(a)), cost |-> Cost(a),
                     by |-> request, groupMultiplier |-> effectiveUserGroupMultiplier(groups)]
               ELSE NoBill
    /\ request' = NoBill
    /\ UNCHANGED <<asked, book, multiplier, groups, changes>>

PricingNext ==
    \/ \E input \in Inputs : SaveModel(input)
    \/ \E m \in Multipliers : UpdateUserChannel(m)
    \/ \E s \in GroupSettings :
         \/ Regroup(s)
         \/ UpdateGroup(s) \/ SetChannelGroupMultipliers(s) \/ SetModelGroupMultipliers(s)
    \/ resolveTarget
    \/ \E a \in Answers : Bill(a)

PricingSpec == PricingInit /\ [][PricingNext]_pricingVars

-----------------------------------------------------------------------------
(* Properties.                                                             *)

(* The price an administrator meant for the i-th token: that of the last   *)
(* valid tier they wrote with the highest start below it.                  *)
PriceMeant(base, tiers, i) ==
    LET below == {k \in DOMAIN tiers : tiers[k].min \in 0 .. i - 1 /\ tiers[k].price >= 0}
    IN IF below = {} THEN base
       ELSE tiers[CHOOSE k \in below : \A j \in below :
                    tiers[j].min < tiers[k].min \/ (tiers[j].min = tiers[k].min /\ j <= k)].price

Plain(tiers) ==
    \A k \in DOMAIN tiers : NormalizePriceTierCondition(tiers[k].condition) = "current"

PerToken == bill # NoBill /\ bill.by.book.quota = "token"

(* Each token costs the price that was meant for its place in the request, *)
(* wherever the administrator wrote the tiers and however the server       *)
(* stores, sorts and walks them.                                           *)
PricedAsMeant ==
    PerToken /\ (\A unit \in Units : Plain(bill.by.asked.tiers[unit])) =>
      LET parts == Parts(bill.counts, bill.by.book)
          cost(unit) == SumFunction([i \in 1 .. parts[unit] |->
                          PriceMeant(bill.by.asked.price[unit], bill.by.asked.tiers[unit], i)])
      IN (\A unit \in Units : parts[unit] < Million) =>
         bill.cost = bill.groupMultiplier * userChannelMultiplier(bill.by.multiplier)
                       * SumFunction([unit \in Units |-> cost(unit)])

(* The tokens of a request are divided among the prices without remainder: *)
(* none is priced twice or not at all, whatever the upstream reports.      *)
EveryTokenPricedOnce ==
    PerToken =>
      LET parts == Parts(bill.counts, bill.by.book) IN
      /\ \A unit \in Units : parts[unit] >= 0
      /\ SumFunctionOnSet(parts, InputUnits) = bill.counts.input
      /\ SumFunctionOnSet(parts, OutputUnits) = bill.counts.output

(* A user who computes the cost from either catalog computes what is       *)
(* charged, but for the multiplier of their groups.  (A multiplier of zero *)
(* is shown as it is, and charged as one; one below zero, which nothing    *)
(* refuses, makes tiers that a reader would not count.)                    *)
CatalogIsCharged ==
    bill # NoBill /\ bill.by.multiplier > 0 /\ (bill.by.book.quota = "video" => bill.answer.kind = "video") =>
      LET shown == Advertised(bill.by.book, bill.by.multiplier)
          unit == IF shown.quota = "token" THEN 2 ELSE 1
          cost(sheet) == calculateModelUsageCost(bill.counts, bill.answer.video, sheet)
      IN /\ bill.cost = bill.groupMultiplier * cost(shown)
         /\ bill.cost = unit * bill.groupMultiplier * cost(Exposed(bill.by.book, bill.by.multiplier))

(* Tokens read from a cache are priced as such and not as fresh input as   *)
(* well, also when the answer was converted to the client's protocol.      *)
CachedTokensPricedOnce ==
    PerToken /\ bill.answer.kind = "chat" =>
      LET own == parseUsageTokens(bill.answer.report) IN
      own.ok /\ own.counts.write + own.counts.write1h = 0 =>
        billableInputTokens(bill.counts) <= billableInputTokens(own.counts)
=============================================================================
