----------------------------- MODULE PriceBooks ------------------------------
(***************************************************************************)
(* What is computed with price books: tiers and video prices as they are   *)
(* normalised, multiplied and walked, the cost of a request, and what the  *)
(* two public catalogs show of a book.                                     *)
(*                                                                         *)
(* Money is exact: prices are in halves of the smallest unit that is used, *)
(* and costs are in millionths of that, so nothing is ever divided.        *)
(***************************************************************************)
EXTENDS Usage, SequencesExt

Quotas == {"token", "item", "video"}

Dedicated == {"imageIn", "audioIn", "imageOut", "audioOut"}

InputUnits == {"input", "read", "write", "write1h", "imageIn", "audioIn"}

OutputUnits == {"output", "imageOut", "audioOut"}

Units == InputUnits \cup OutputUnits

(* The prices a synchronisation knows of.                                  *)
TextUnits == {"input", "output", "read"}

-----------------------------------------------------------------------------
(* Price tiers.                                                            *)

(* The conditions in the order they are sorted by; the current tokens are  *)
(* the condition of a tier that names none, or one nobody knows.           *)
ConditionOrder == <<"current", "fullInput", "billableInput", "billableOutput">>

(* A tier as it is written, where a condition may be any word.             *)
Word == STRING \cup Range(ConditionOrder)

TierRow == [min: Int, price: Int, condition: Word]

NormalizePriceTierCondition(c) == IF c \in Range(ConditionOrder) THEN c ELSE "current"

Rank(c) == CHOOSE i \in DOMAIN ConditionOrder : ConditionOrder[i] = c

SortsBefore(s, t) ==
    \/ Rank(s.condition) < Rank(t.condition)
    \/ s.condition = t.condition /\ s.min < t.min

InOrder(S) ==
    CHOOSE line \in [1 .. Cardinality(S) -> S] :
      \A i, j \in DOMAIN line : i < j => SortsBefore(line[i], line[j])

SameTier(s, t) ==
    s.min = t.min
    /\ NormalizePriceTierCondition(s.condition) = NormalizePriceTierCondition(t.condition)

LastOfEach(tiers, valid) ==
    {i \in valid : ~\E j \in valid : j > i /\ SameTier(tiers[i], tiers[j])}

NormalizePriceTiers(tiers) ==
    LET valid == {i \in DOMAIN tiers : tiers[i].min >= 0 /\ tiers[i].price >= 0} IN
    InOrder({[tiers[i] EXCEPT !.condition = NormalizePriceTierCondition(@)] :
               i \in LastOfEach(tiers, valid)})

MultiplyBasesOnly(tiers, m) == NormalizePriceTiers(tiers)    \* mutant: tiers keep their prices

MultiplyPriceTiers(tiers, m) ==
    LET normal == NormalizePriceTiers(tiers)
    IN [i \in DOMAIN normal |-> [normal[i] EXCEPT !.price = @ * m]]

usesConditionalPriceTiers(tiers) == \E i \in DOMAIN tiers : tiers[i].condition # "current"

(* tierConditionValue of withCurrentTokens: a metric of zero counts as the *)
(* tokens that are priced.                                                 *)
tierConditionValue(c, tokens, metrics) ==
    IF c = "current" \/ metrics[c] = 0 THEN tokens ELSE metrics[c]

(* The price of the highest tier that is reached; of two, the later one's. *)
Better(best, t, tokens, metrics) ==
    IF tierConditionValue(t.condition, tokens, metrics) >= t.min /\ t.min >= best.min
    THEN [min |-> t.min, price |-> t.price] ELSE best

conditionalTierPrice(base, tiers, tokens, metrics) ==
    FoldLeft(LAMBDA best, t : Better(best, t, tokens, metrics),
             [min |-> -1, price |-> base], tiers).price

(* One tier of the progressive segments.                                   *)
SegmentOverlapping(acc, t, tokens) ==          \* mutant: a segment ends one token late
    IF t.min <= acc.min THEN [acc EXCEPT !.price = t.price]
    ELSE LET end == AtMost(t.min + 1, tokens)
         IN [total |-> acc.total + acc.price * (end - acc.min), min |-> end, price |-> t.price]

Segment(acc, t, tokens) ==
    IF t.min <= acc.min THEN [acc EXCEPT !.price = t.price]
    ELSE LET end == AtMost(t.min, tokens)
         IN [total |-> acc.total + acc.price * (end - acc.min), min |-> end, price |-> t.price]

CalculateTieredTokenCostWithMetrics(tokens, base, tiers, metrics) ==
    LET normal == NormalizePriceTiers(tiers)
        walked == FoldLeft(LAMBDA acc, t : Segment(acc, t, tokens),
                           [total |-> 0, min |-> 0, price |-> base], normal)
    IN IF tokens <= 0 THEN 0
       ELSE IF usesConditionalPriceTiers(normal)
            THEN tokens * conditionalTierPrice(base, normal, tokens, metrics)
            ELSE walked.total + walked.price * (tokens - walked.min)

-----------------------------------------------------------------------------
(* Video prices, by resolution and duration.                               *)

NormalDurations(item) ==
    LET valid == {i \in DOMAIN item.durations :
                    item.durations[i].seconds > 0 /\ item.durations[i].price >= 0}
        lengths == {item.durations[i].seconds : i \in valid}
    IN [s \in lengths |->
          item.durations[CHOOSE i \in valid : item.durations[i].seconds = s
                           /\ \A j \in valid : item.durations[j].seconds = s => j <= i].price]

(* The last entry of a resolution that says a price.                       *)
NormalizeVideoBillingConfig(items) ==
    LET says == {i \in DOMAIN items : NormalDurations(items[i]) # <<>> \/ items[i].unit > 0}
        resolutions == {items[i].resolution : i \in says}
        last(r) == items[CHOOSE i \in says : items[i].resolution = r
                           /\ \A j \in says : items[j].resolution = r => j <= i]
    IN [r \in resolutions |->
          [durations |-> NormalDurations(last(r)),
           unit |-> IF NormalDurations(last(r)) # <<>> THEN 0 ELSE last(r).unit]]

MultiplyVideoBillingConfig(config, m) ==
    IF m = 0 THEN config
    ELSE [r \in DOMAIN config |->
            [durations |-> [s \in DOMAIN config[r].durations |-> config[r].durations[s] * m],
             unit |-> config[r].unit * m]]

(* A resolution or a duration that has no price is refused.                *)
VideoAllowed(config, v) ==
    /\ v.resolution \in DOMAIN config /\ v.seconds > 0
    /\ config[v.resolution].durations = <<>> \/ v.seconds \in DOMAIN config[v.resolution].durations

calculateVideoBillingCost(config, v) ==
    LET priced == config[v.resolution]
    IN Million * v.count * (IF priced.durations = <<>> THEN priced.unit * v.seconds
                            ELSE priced.durations[v.seconds])

-----------------------------------------------------------------------------
(* The cost of a request.                                                  *)

hasDedicatedPrice(sheet, unit) ==
    sheet.price[unit] # 0 \/ NormalizePriceTiers(sheet.tiers[unit]) # <<>>

clampTokenCount(tokens, most) == AtMost(Floor(tokens), most)

billableInputTokens(u) == Floor(u.input - u.read - u.write - u.write1h)

(* How the tokens of a request are divided among the prices.  Images come  *)
(* first, audio takes of what they leave, and text is the rest.            *)
Parts(u, sheet) ==
    LET own(unit, most) == IF hasDedicatedPrice(sheet, unit) THEN clampTokenCount(u[unit], most) ELSE 0
        in == billableInputTokens(u)
        imageIn == own("imageIn", in)
        audioIn == own("audioIn", in - imageIn)
        imageOut == own("imageOut", u.output)
        audioOut == own("audioOut", u.output - imageOut)
    IN [input |-> in - imageIn - audioIn, imageIn |-> imageIn, audioIn |-> audioIn,
        read |-> u.read, write |-> u.write, write1h |-> u.write1h,
        output |-> u.output - imageOut - audioOut, imageOut |-> imageOut, audioOut |-> audioOut]

Metrics(u) == [fullInput |-> u.input, billableInput |-> billableInputTokens(u), billableOutput |-> u.output]

(* Items are counted in millions of output tokens, and there is at least   *)
(* one.                                                                    *)
ItemCount(u) == AtLeast((u.output + Million - 1) \div Million, 1)

calculateModelUsageCost(u, video, sheet) ==
    LET parts == Parts(u, sheet)
        cost(unit) == CalculateTieredTokenCostWithMetrics(parts[unit], sheet.price[unit],
                                                          sheet.tiers[unit], Metrics(u))
    IN CASE sheet.quota = "video" -> calculateVideoBillingCost(sheet.video, video)
         [] sheet.quota = "item" -> Million * sheet.price["output"] * ItemCount(u)
         [] OTHER -> SumFunction([unit \in Units |-> cost(unit)])

userChannelMultiplier(m) == IF m = 0 THEN 1 ELSE m

(* A zero is no multiplier; a model's own comes before the channel's, and  *)
(* the channel's before the group's.                                       *)
GroupMultiplier(g) ==
    IF g.model # 0 THEN g.model
    ELSE IF g.channel # 0 THEN g.channel
    ELSE IF g.rate # 0 THEN g.rate ELSE 1

(* Memberships that have not expired, or else the user's own group.        *)
activeGroups(s) == IF s.members # {} THEN s.members ELSE s.home

(* No group at all costs what the book says; when the user's own group is  *)
(* gone the request is not billed at all.                                  *)
Billable(s) == s.members # {} \/ ~s.lost

effectiveUserGroupMultiplier(s) ==
    LET all == {GroupMultiplier(g) : g \in activeGroups(s)}
    IN IF all = {} THEN 1
       ELSE IF s.mode = "max" THEN CHOOSE m \in all : \A n \in all : n <= m
       ELSE CHOOSE m \in all : \A n \in all : m <= n

-----------------------------------------------------------------------------
(* What the catalogs show.                                                 *)

(* PublicCatalog: the prices of a user channel are multiplied out.         *)
Advertised(sheet, m) ==
    [sheet EXCEPT !.price = [unit \in Units |-> sheet.price[unit] * m],
                  !.tiers = [unit \in Units |-> MultiplyPriceTiers(sheet.tiers[unit], m)],
                  !.video = MultiplyVideoBillingConfig(sheet.video, m)]

(* Pricing: the same in the unit of another product's price lists, which   *)
(* is two of ours for tokens.                                              *)
exposedPricing(sheet) ==
    IF sheet.quota # "token" THEN sheet
    ELSE [sheet EXCEPT !.price = [unit \in Units |-> sheet.price[unit] \div 2],
                       !.tiers = [unit \in Units |->
                          [i \in DOMAIN sheet.tiers[unit] |->
                             [sheet.tiers[unit][i] EXCEPT !.price = @ \div 2]]]]

Exposed(sheet, m) == exposedPricing(Advertised(sheet, m))

=============================================================================
