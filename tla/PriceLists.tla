----------------------------- MODULE PriceLists -----------------------------
(***************************************************************************)
(* The lists of models and prices that upstreams publish, and what a       *)
(* synchronisation reads from them.                                        *)
(*                                                                         *)
(* A list is a tree of maps and lists.  One key stands for all the         *)
(* spellings of a field, a number also for a text that says one, and a     *)
(* billing expression for the two tiers and the threshold it is made of.   *)
(* Optional values are sequences: what is there, in order of preference.   *)
(***************************************************************************)
EXTENDS PriceBooks

Number(n) == [number |-> n]
Text(s) == [text |-> s]
Nodes(seq) == [list |-> seq]
Fields(f) == [map |-> f]

Is(node, kind) == kind \in DOMAIN node

FirstOf(values, default) == IF values = <<>> THEN default ELSE Head(values)

(* The values of a map come in any order; a list names a model once.       *)
InAnyOrder(S) == FoldSet(LAMBDA x, seq : Append(seq, x), <<>>, S)

Keys(map) == InAnyOrder(DOMAIN map)

FirstNonEmpty(seqs) == FirstOf(SelectSeq(seqs, LAMBDA s : s # <<>>), <<>>)

Product(a, b) == IF a = <<>> \/ b = <<>> THEN <<>> ELSE <<Head(a) * Head(b)>>

(* How lists call the prices a synchronisation knows of.                   *)
PriceKey == [input |-> "input_price", output |-> "output_price", read |-> "cached_input_price"]

TiersKey == [input |-> "input_price_tiers", output |-> "output_price_tiers",
             read |-> "cached_input_price_tiers"]

-----------------------------------------------------------------------------
(* Values.                                                                 *)

decimalFromValue(node) == IF Is(node, "number") THEN <<node.number>> ELSE <<>>

firstDecimalValue(map, keys) ==
    FlattenSeq([i \in DOMAIN keys |->
        IF keys[i] \in DOMAIN map THEN decimalFromValue(map[keys[i]]) ELSE <<>>])

Decimal(map, key) == firstDecimalValue(map, <<key>>)

firstStringValue(map, fallback, key) ==
    IF key \in DOMAIN map /\ Is(map[key], "text") /\ map[key].text # "" THEN map[key].text ELSE fallback

firstMapValue(map, keys) ==
    LET maps == SelectSeq(keys, LAMBDA key : key \in DOMAIN map /\ Is(map[key], "map")) IN
    IF maps = <<>> THEN <<>> ELSE map[Head(maps)].map

normalizeQuotaType(n) ==
    CASE n = 1 -> "item"
      [] n = 100 -> "video"
      [] OTHER -> "token"

-----------------------------------------------------------------------------
(* Tiers.                                                                  *)

Tier(min, price, condition) ==
    IF min = <<>> \/ Head(min) < 0 \/ price = <<>> THEN <<>>
    ELSE <<[min |-> Head(min), price |-> Head(price), condition |-> condition]>>

priceTierFromMap(map) ==
    Tier(Decimal(map, "min_tokens"), Decimal(map, "price"), firstStringValue(map, "", "condition"))

(* One element of a list: a map, or its start, its price and its condition *)
(* in a list.                                                              *)
TierOf(node) ==
    LET at(i) == IF i <= Len(node.list) THEN <<node.list[i]>> ELSE <<>>
        number(i) == IF at(i) = <<>> THEN <<>> ELSE decimalFromValue(Head(at(i)))
        condition == IF at(3) # <<>> /\ Is(Head(at(3)), "text") THEN Head(at(3)).text ELSE ""
    IN CASE Is(node, "map") -> priceTierFromMap(node.map)
         [] Is(node, "list") -> Tier(number(1), number(2), condition)
         [] OTHER -> <<>>

(* A map from starts to prices reads like the list of its pairs.           *)
RECURSIVE priceTiersFromValue(_)
priceTiersFromValue(node) ==
    LET nested == IF Is(node, "map") /\ "tiers" \in DOMAIN node.map
                  THEN priceTiersFromValue(node.map["tiers"]) ELSE <<>>
        nodes == IF Is(node, "list") THEN node.list ELSE <<node>>
    IN IF nested # <<>> THEN nested
       ELSE NormalizePriceTiers(FlattenSeq([i \in DOMAIN nodes |-> TierOf(nodes[i])]))

TiersAt(map, key) == IF key \in DOMAIN map THEN priceTiersFromValue(map[key]) ELSE <<>>

-----------------------------------------------------------------------------
(* Billing expressions: p, c and cr times a price, in one or two tiers     *)
(* that a threshold on p divides.                                          *)

tieredExprPricesFromSegment(segment) ==
    LET says(v) == IF v \in DOMAIN segment THEN <<segment[v]>> ELSE <<>>
        input == FirstOf(says("p"), 0)
    IN [input |-> input, output |-> FirstOf(says("c"), 0), read |-> FirstOf(says("cr"), input)]

(* The prices below the threshold and, where there is one, above it.       *)
Divided(threshold, prices) ==
    [price |-> prices[1],
     tiers |-> [unit \in TextUnits |->
        IF Len(prices) = 1 THEN <<>>
        ELSE NormalizePriceTiers(Tier(<<threshold>>, <<prices[2][unit]>>, "fullInput"))]]

priceItemFromBillingExpression(e) ==
    LET empty(i) == Len(e.tiers) < i \/ DOMAIN e.tiers[i] = {}
        order == CASE e.op = "none" \/ empty(2) -> <<1>>
                   [] e.op \in {"<", "<="} /\ ~empty(2) -> <<1, 2>>
                   [] e.op \in {">", ">="} /\ ~empty(2) -> <<2, 1>>
    IN IF empty(1) THEN <<>>
       ELSE <<Divided(e.threshold,
                [i \in DOMAIN order |-> tieredExprPricesFromSegment(e.tiers[order[i]])])>>

-----------------------------------------------------------------------------
(* Items.                                                                  *)

Item(name, quota, price, tiers) == [name |-> name, quota |-> quota, price |-> price, tiers |-> tiers]

(* A single price is the price of everything.                              *)
Flat(name, n) == Item(name, "token", [unit \in TextUnits |-> n], [unit \in TextUnits |-> <<>>])

(* Input and output stand in for each other, ratios for prices, and the    *)
(* input for the cached input; per call, only the output has a price.      *)
Filled(name, quota, perCall, says, general, ratio, completion, tiers) ==
    LET input == says["input"] \o (IF perCall THEN <<0>> ELSE ratio \o general["input"])
        output == says["output"] \o (IF perCall THEN <<>>
                                     ELSE Product(ratio, completion) \o Product(input, completion))
                    \o general["output"]
    IN Item(name, quota,
         [input |-> FirstOf(input \o output, 0), output |-> FirstOf(output \o input, 0),
          read |-> FirstOf(says["read"] \o general["read"]
                             \o (IF perCall THEN <<0>> ELSE input \o output), 0)],
         tiers)

(* An object that describes one model, with what its billing expression    *)
(* says.                                                                   *)
ItemOf(name, map, perCall, expr, genericTiers) ==
    LET generic == Decimal(map, "price") IN
    Filled(name, normalizeQuotaType(FirstOf(Decimal(map, "quota_type"), 0)), perCall,
        [unit \in TextUnits |->
            IF expr # <<>> THEN <<Head(expr).price[unit]>> ELSE Decimal(map, PriceKey[unit])],
        [unit \in TextUnits |-> IF unit = "read" THEN <<>> ELSE generic],
        Decimal(map, "model_ratio"), Decimal(map, "completion_ratio"),
        [unit \in TextUnits |-> FirstNonEmpty(
            <<IF expr # <<>> THEN Head(expr).tiers[unit] ELSE TiersAt(map, TiersKey[unit]),
              IF perCall /\ unit # "output" THEN <<>> ELSE genericTiers>>)])

priceItemFromMap(fallback, map) ==
    LET name == firstStringValue(map, fallback, "model") IN
    IF name = "" THEN <<>>
    ELSE <<ItemOf(name, map, Decimal(map, "quota_type") = <<1>>,
             IF "billing_expr" \in DOMAIN map
             THEN priceItemFromBillingExpression(map["billing_expr"].expression) ELSE <<>>,
             TiersAt(map, "tiers"))>>

(* A list split by field: each field maps the models to its values.        *)
SplitKeys == {"model_ratio", "completion_ratio", "price", "quota_type"}
    \cup {PriceKey[unit] : unit \in TextUnits} \cup {TiersKey[unit] : unit \in TextUnits}

SplitField(map, key) == firstMapValue(map, IF key = "price" THEN <<"price", "prices">> ELSE <<key>>)

(* A value may be wrapped once more.                                       *)
decimalFromMapValue(field, name, keys) ==
    CASE name \notin DOMAIN field -> <<>>
      [] name \in DOMAIN field /\ Is(field[name], "map") -> firstDecimalValue(field[name].map, keys)
      [] OTHER -> decimalFromValue(field[name])

priceItemFromMapValue(field, name) ==
    CASE name \notin DOMAIN field -> <<>>
      [] name \in DOMAIN field /\ Is(field[name], "map") -> priceItemFromMap(name, field[name].map)
      [] name \in DOMAIN field /\ Is(field[name], "number") -> <<Flat(name, field[name].number)>>
      [] OTHER -> <<>>

(* generic is what the field of plain prices says of the model.            *)
SplitItem(fields, name, generic) ==
    LET wrapped(unit) ==
          IF unit = "read" THEN <<PriceKey[unit]>>
          ELSE <<"input_price", "output_price", "model_ratio", "completion_ratio", "price">>
        number(key, unit) == decimalFromMapValue(fields[key], name, wrapped(unit))
        item == Filled(name, normalizeQuotaType(FirstOf(Decimal(fields["quota_type"], name), 0)), FALSE,
            [unit \in TextUnits |-> number(PriceKey[unit], unit)],
            [unit \in TextUnits |-> IF generic = <<>> THEN <<>> ELSE <<Head(generic).price[unit]>>],
            number("model_ratio", "input"), number("completion_ratio", "input"),
            [unit \in TextUnits |-> FirstNonEmpty(<<TiersAt(fields[TiersKey[unit]], name),
                IF generic = <<>> THEN <<>> ELSE Head(generic).tiers[unit]>>)])
        priced == generic # <<>> \/ \E key \in {"input_price", "output_price", "model_ratio"} :
                     number(key, "input") # <<>>
    IN SelectSeq(<<item>>, LAMBDA i : priced \/ \E unit \in TextUnits : i.tiers[unit] # <<>>)

splitPriceItemsFromMap(map) ==
    LET fields == [key \in SplitKeys |-> SplitField(map, key)]
        names == InAnyOrder(UNION {DOMAIN fields[key] : key \in SplitKeys} \ {""})
    IN FlattenSeq([i \in DOMAIN names |->
         SplitItem(fields, names[i], priceItemFromMapValue(fields["price"], names[i]))])

-----------------------------------------------------------------------------
(* Whole lists.                                                            *)

Wrappers == <<"data", "prices", "models", "list">>

RECURSIVE collectSplitPriceItems(_)
collectSplitPriceItems(node) ==
    LET within(map, keys) ==
          [i \in DOMAIN keys |->
             IF keys[i] \in DOMAIN map THEN collectSplitPriceItems(map[keys[i]]) ELSE <<>>]
    IN CASE Is(node, "list") ->
              FlattenSeq([i \in DOMAIN node.list |-> collectSplitPriceItems(node.list[i])])
         [] Is(node, "map") ->
              FirstNonEmpty(<<splitPriceItemsFromMap(node.map)>> \o within(node.map, Wrappers)
                              \o <<FlattenSeq(within(node.map, Keys(node.map)))>>)
         [] OTHER -> <<>>

RECURSIVE collectPriceItems(_, _)
collectPriceItems(name, node) ==
    LET wrapped(map) ==
          [i \in DOMAIN Wrappers |->
             IF Wrappers[i] \in DOMAIN map THEN collectPriceItems("", map[Wrappers[i]]) ELSE <<>>]
        values(map) ==
          FlattenSeq([i \in DOMAIN Keys(map) |-> collectPriceItems(Keys(map)[i], map[Keys(map)[i]])])
    IN CASE Is(node, "list") ->
              FlattenSeq([i \in DOMAIN node.list |-> collectPriceItems("", node.list[i])])
         [] Is(node, "map") ->
              FirstNonEmpty(wrapped(node.map) \o <<priceItemFromMap(name, node.map), values(node.map)>>)
         [] Is(node, "text") ->
              IF name = "" /\ node.text # "" THEN <<Flat(node.text, 0)>> ELSE <<>>
         [] Is(node, "number") -> IF name = "" THEN <<>> ELSE <<Flat(name, node.number)>>
         [] OTHER -> <<>>

parseUpstreamPriceItems(node) ==
    FirstNonEmpty(<<collectSplitPriceItems(node), collectPriceItems("", node)>>)

(* Lists count tokens in another product's unit, which is two of ours.     *)
multiplyEveryPrice(items) ==                   \* mutant: calls are doubled as well
    [i \in DOMAIN items |->
       [items[i] EXCEPT !.price = [unit \in TextUnits |-> 2 * items[i].price[unit]],
                        !.tiers = [unit \in TextUnits |-> MultiplyPriceTiers(items[i].tiers[unit], 2)]]]

multiplyTokenPricedModelPrices(items) ==
    [i \in DOMAIN items |->
       IF items[i].quota = "item" THEN items[i]
       ELSE [items[i] EXCEPT !.price = [unit \in TextUnits |-> 2 * items[i].price[unit]],
                             !.tiers = [unit \in TextUnits |-> MultiplyPriceTiers(items[i].tiers[unit], 2)]]]

(* Previews show a model once.                                             *)
Distinct(items) ==
    LET shown == {i \in DOMAIN items : items[i].name # ""
                    /\ ~\E j \in 1 .. i - 1 : items[j].name = items[i].name}
        order == SetToSortSeq(shown, <)
    IN [k \in DOMAIN order |-> items[order[k]]]

buildGlobalPriceSyncPreview(items) == Distinct(items)

buildModelSyncPreview(items) ==
    LET distinct == Distinct(items) IN [i \in DOMAIN distinct |-> Flat(distinct[i].name, 0)]

PreviewGlobalModelPrices(node) ==
    buildGlobalPriceSyncPreview(multiplyTokenPricedModelPrices(parseUpstreamPriceItems(node)))

-----------------------------------------------------------------------------
(* Where the names of an upstream's models are looked for.  A site is a    *)
(* map from paths to lists; a path that is missing answers with an error,  *)
(* and so does one that answers with a page.                               *)

getUpstreamJSON(site, path) == IF path \in DOMAIN site THEN <<site[path]>> ELSE <<>>

fetchOpenAIModelList(node) ==
    IF ~Is(node, "map") \/ "data" \notin DOMAIN node.map \/ ~Is(node.map["data"], "list") THEN <<>>
    ELSE LET data == node.map["data"].list
             id(i) == IF Is(data[i], "map") THEN firstStringValue(data[i].map, "", "model") ELSE ""
         IN FlattenSeq([i \in DOMAIN data |-> IF id(i) = "" THEN <<>> ELSE <<Flat(id(i), 0)>>])

ListedAt(site, path) ==
    LET body == getUpstreamJSON(site, path) IN
    CASE body = <<>> -> <<>>
      [] body # <<>> /\ path = "/v1/models" -> fetchOpenAIModelList(Head(body))
      [] OTHER -> parseUpstreamPriceItems(Head(body))

AutoPaths == <<"/v1/models", "/models", "/api/models">>

(* A format names the one path that is asked.                              *)
fetchUpstreamAvailableModels(site, format) ==
    LET paths == IF format = "auto" THEN AutoPaths ELSE <<format>>
    IN FirstNonEmpty([i \in DOMAIN paths |-> ListedAt(site, paths[i])])

(* What an administrator may preview of a site, by one path or another.    *)
PreviewSync(listed) == {buildModelSyncPreview(listed[format]) : format \in DOMAIN listed}

(* What a site lists, and its prices with what s says they are meant to be.*)
Reading(s, listed, items) ==
    [names |-> listed["auto"], previews |-> PreviewSync(listed),
     items |-> [i \in DOMAIN items |-> items[i] @@ [meant |-> s.meant[items[i].name]]]]

Read(s) ==
    Reading(s, [format \in {"auto"} \cup DOMAIN s.paths |-> fetchUpstreamAvailableModels(s.paths, format)],
            PreviewGlobalModelPrices(s.prices))

-----------------------------------------------------------------------------
(* What this site publishes itself (ModelAPI.Pricing): for each model and  *)
(* price the lowest of its offers, which are books with the multiplier of  *)
(* the user channel they are sold in.  Ratios repeat the prices.           *)

Lowest(offers, unit) ==
    LET price(i) == Exposed(offers[i].book, offers[i].multiplier).price[unit] IN
    CHOOSE i \in DOMAIN offers : \A j \in DOMAIN offers :
        price(i) < price(j) \/ (price(i) = price(j) /\ i <= j)

TierNodes(tiers) ==
    Nodes([i \in DOMAIN tiers |->
        Fields([min_tokens |-> Number(tiers[i].min), price |-> Number(tiers[i].price),
                condition |-> Text(tiers[i].condition)])])

PricingDocument(catalog) ==
    LET best(name, unit) == catalog[name][Lowest(catalog[name], unit)]
        shown(name, unit) == Exposed(best(name, unit).book, best(name, unit).multiplier)
        prices(unit) == Fields([name \in DOMAIN catalog |-> Number(shown(name, unit).price[unit])])
        tiers(unit) == Fields([name \in DOMAIN catalog |-> TierNodes(shown(name, unit).tiers[unit])])
        last(name) == catalog[name][Len(catalog[name])].book
        code == [token |-> 0, item |-> 1, video |-> 100]
    IN Fields([success |-> Text("true"), data |-> Fields(
         [unit |-> Text("per_1m_tokens"), model_ratio |-> prices("input"),
          quota_type |-> Fields([name \in DOMAIN catalog |-> Number(code[last(name).quota])]),
          input_price |-> prices("input"), output_price |-> prices("output"),
          cached_input_price |-> prices("read"), input_price_tiers |-> tiers("input"),
          output_price_tiers |-> tiers("output"), cached_input_price_tiers |-> tiers("read")])])
=============================================================================
