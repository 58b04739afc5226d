----------------------------- MODULE MCModelSync -----------------------------
(***************************************************************************)
(* One channel, its hourly synchronisation and an administrator.           *)
(*                                                                         *)
(* The upstream is any of the sites below, which sell the same books,      *)
(* spelled in every way that is read; one of them sells two models and     *)
(* repeats a name.  A list says half of what is charged, since it counts   *)
(* in another product's unit; thresholds are never met exactly.  Either    *)
(* model may be given the other's name, and two edits or failures happen;  *)
(* ids are enough for what they lead to.                                   *)
(***************************************************************************)
EXTENDS ModelSync, PriceLists

(* One list of prices has another name, "n", before this one.              *)
MCTwoNames == {"m", "n"}

Plain(input, output, read) == [input |-> input, output |-> output, read |-> read]

NoTiers == [unit \in TextUnits |-> <<>>]

MCBook(quota, price, tiers) == [quota |-> quota, price |-> price, tiers |-> tiers]

Above(unit, price) == <<[min |-> 3, price |-> price, condition |-> "fullInput"]>>

FlatBook == MCBook("token", Plain(4, 12, 2), NoTiers)

TieredBook ==
    MCBook("token", Plain(4, 12, 2),
        [input |-> Above("input", 8), output |-> Above("output", 16), read |-> Above("read", 6)])

SingleBook == MCBook("token", Plain(4, 4, 4), NoTiers)

CallBook == MCBook("item", Plain(0, 5, 0), NoTiers)

MCBooks == {MCBook("token", Plain(1, 1, 7), NoTiers)}

Of(name, node) == Fields(name :> node)

M(n) == Of("m", Number(n))

Tiers_(price) == Nodes(<<Nodes(<<Number(3), Number(price), Text("fullInput")>>)>>)

Expression(op, first, second) == [expression |-> [op |-> op, threshold |-> 3, tiers |-> first \o second]]

Low == <<[p |-> 2, c |-> 6, cr |-> 1]>>
High == <<[p |-> 4, c |-> 8, cr |-> 3]>>

(* Where the names are: as a list of objects, of texts, in a map by name.  *)
OpenAI == [path \in {"/v1/models"} |-> Fields([data |-> Nodes(<<Fields([model |-> Text("m")])>>)])]
Listed == [path \in {"/v1/models", "/models"} |->
    IF path = "/v1/models" THEN Text("not found") ELSE Nodes(<<Text("m"), Text("m")>>)]
ByName == [path \in {"/api/models"} |-> Fields([data |-> M(1)])]

(* Lists of prices.                                                        *)
Ratios == Fields([model_ratio |-> M(2), completion_ratio |-> M(3), cached_input_price |-> M(1)])

Prices == Fields([data |-> Fields(
    [input_price |-> M(2), output_price |-> M(6), cached_input_price |-> M(1)])])

Objects == Fields([data |-> Nodes(<<
    Fields([model |-> Text("n"), quota_type |-> Number(1), price |-> Number(5)]),
    Fields([model |-> Text("m"), model_ratio |-> Number(2), completion_ratio |-> Number(3),
            cached_input_price |-> Number(1)])>>)])

ByField == Of("m", Fields(
    [input_price |-> Number(2), output_price |-> Number(6), cached_input_price |-> Number(1)]))

SplitTiers == Fields(
    [input_price |-> M(2), output_price |-> M(6), cached_input_price |-> M(1),
     input_price_tiers |-> Of("m", Tiers_(4)), output_price_tiers |-> Of("m", Tiers_(8)),
     cached_input_price_tiers |-> Of("m", Tiers_(3))])

Below(op) == Of("m", Fields([billing_expr |-> Expression(op, Low, High)]))
Over(op) == Of("m", Fields([billing_expr |-> Expression(op, High, Low)]))
Always == Of("m", Fields([billing_expr |-> Expression("none", Low, <<>>)]))

Calls == Fields([model_ratio |-> Of("m", Number(1)), quota_type |-> M(1), output_price |-> M(5)])

Single == Fields([prices |-> M(2)])
SingleByName == Fields([data |-> Nodes(<<M(2)>>)])

(* Another site of this kind, which sells the books below.                 *)
OwnSheet(book) ==
    [quota |-> book.quota, video |-> <<>>,
     price |-> [unit \in Units |-> IF unit \in TextUnits THEN book.price[unit] ELSE 0],
     tiers |-> [unit \in Units |-> IF unit \in TextUnits THEN book.tiers[unit] ELSE <<>>]]

Own(book, multiplier) == PricingDocument("m" :> <<[book |-> OwnSheet(book), multiplier |-> multiplier]>>)

Site(paths, prices, book) == [paths |-> paths, prices |-> prices,
    meant |-> [m |-> book, n |-> CallBook]]

Upstreams ==
    {Site(OpenAI, Ratios, FlatBook), Site(ByName, Prices, FlatBook), Site(OpenAI, ByField, FlatBook),
     Site(Listed, Objects, FlatBook),
     Site(OpenAI, Single, SingleBook), Site(OpenAI, SingleByName, SingleBook),
     Site(OpenAI, Always, FlatBook), Site(ByName, SplitTiers, TieredBook),
     Site(OpenAI, Calls, CallBook),
     Site(OpenAI, Own(TieredBook, 1), TieredBook), Site(ByName, Own(CallBook, 1), CallBook)}
    \cup {Site(OpenAI, Below(op), TieredBook) : op \in {"<", "<="}}
    \cup {Site(OpenAI, Over(op), TieredBook) : op \in {">", ">="}}

MCSites == {Read(s) : s \in Upstreams}

MCModelIds == 1 .. 5
MCConfigIds == 1 .. 8

(* Bound: only the site that repeats a name meets two edits, others one.   *)
FewEdits == Len(site.names) > 1 \/ edits <= 1
=============================================================================
