----------------------------- MODULE MCPricing ------------------------------
(* Small price books, with tiers on the text and image input, and reports  *)
(* of a few tokens in the shapes upstreams use.                            *)
EXTENDS Pricing

Tier(min, price, condition) == [min |-> min, price |-> price, condition |-> condition]

NoTiers == [unit \in Units |-> <<>>]

BasePrice == [unit \in Units |-> IF unit \in Dedicated THEN 0 ELSE IF unit = "output" THEN 4 ELSE 2]

ImagePrice == [BasePrice EXCEPT !["imageIn"] = 6, !["audioIn"] = 8, !["imageOut"] = 10]

TierLists ==
    {<<>>,
     <<Tier(2, 6, "current"), Tier(1, 8, "tokens")>>,
     <<Tier(2, 6, "current"), Tier(-1, 4, "current"), Tier(2, 8, "other")>>,
     <<Tier(0, 10, "current"), Tier(3, 4, "current")>>,
     <<Tier(1, 6, "billableInput"), Tier(3, 12, "fullInput")>>,
     <<Tier(1, 6, "billableOutput"), Tier(2, 8, "current"), Tier(0, -2, "fullInput")>>}

Video ==
    <<[resolution |-> "720p", unit |-> 2, durations |-> <<>>],
      [resolution |-> "1080p", unit |-> 6,
       durations |-> <<[seconds |-> 5, price |-> 8], [seconds |-> 5, price |-> 10]>>],
      [resolution |-> "720p", unit |-> 0, durations |-> <<[seconds |-> 0, price |-> 4]>>]>>

MCInputs ==
    {[quota |-> "token", price |-> BasePrice, tiers |-> [NoTiers EXCEPT !["input"] = list], video |-> <<>>] :
        list \in TierLists}
    \cup
    {[quota |-> "token", price |-> ImagePrice,
      tiers |-> [NoTiers EXCEPT !["imageIn"] = list, !["output"] = list], video |-> <<>>] :
        list \in TierLists}
    \cup
    {[quota |-> "item", price |-> BasePrice, tiers |-> NoTiers, video |-> <<>>],
     [quota |-> "video", price |-> BasePrice, tiers |-> NoTiers, video |-> Video],
     [quota |-> "video", price |-> BasePrice, tiers |-> NoTiers, video |-> <<>>]}

Group(rate, channel, model) == [rate |-> rate, channel |-> channel, model |-> model]

MCGroupSettings ==
    {[members |-> {}, home |-> {}, lost |-> TRUE, mode |-> "min"],
     [members |-> {Group(3, 0, 0), Group(0, 2, 0)}, home |-> {Group(1, 0, 0)}, lost |-> FALSE, mode |-> "max"],
     [members |-> {Group(3, 2, 4), Group(5, 0, 0)}, home |-> {}, lost |-> TRUE, mode |-> "min"],
     [members |-> {Group(3, 2, 0), Group(5, 0, 0)}, home |-> {}, lost |-> TRUE, mode |-> "min"],
     [members |-> {Group(3, 0, 0), Group(5, 0, 0)}, home |-> {}, lost |-> TRUE, mode |-> "min"],
     [members |-> {Group(7, 0, 0), Group(5, 0, 0)}, home |-> {}, lost |-> TRUE, mode |-> "min"]}

(* Nothing refuses a multiplier below zero.                                *)
MCMultipliers == {-2, 0, 2}

Clip == [resolution |-> "1080p", seconds |-> 5, count |-> 2]

Guess == [input |-> 3, output |-> 1, items |-> 2]

Reply(kind, upstream, client, report, video) ==
    [kind |-> kind, upstream |-> upstream, client |-> client, report |-> report,
     events |-> <<>>, video |-> video, guess |-> Guess]

Plainly == [input |-> 4, output |-> 3]

Reports ==
    {NoReport,
     Metadata([input |-> 4, output |-> 2, cached |-> 3]),
     Report([output |-> 3], <<>>),
     Report(Plainly, [cached |-> 3]),
     Report([input |-> 1, output |-> 0], [cached |-> 3, imageIn |-> 1, imageOut |-> 2]),
     Report([input |-> 4, output |-> 2], [imageIn |-> 3, audioIn |-> 2, cached |-> 2]),
     Report([input |-> 1, output |-> 2, read |-> 2, write |-> 1], [write1h |-> 1]),
     Report([input |-> 2, output |-> 1, cached |-> 1, write1h |-> 2], [imageIn |-> 5])}

MCAnswers ==
    {Reply("chat", IF r.shape = "usageMetadata" THEN "gemini" ELSE "openai", client, r, Clip) :
        client \in Protocols, r \in Reports}
    \cup
    {Reply("chat", "claude", client, Report(Plainly, [cached |-> 3]), Clip) : client \in Protocols}
    \cup
    {[Reply("stream", "claude", "claude", NoReport, Clip) EXCEPT !.events = <<r, s>>] :
        r \in Reports, s \in {NoReport, Report([output |-> 3], <<>>)}}
    \cup
    {Reply("image", "openai", "openai", r, Clip) :
        r \in Reports \cup {Report([total |-> 5, input |-> 3], <<>>), Report([imageOut |-> 2], <<>>)}}
    \cup
    {Reply("video", "openai", "openai", r, v) : r \in {NoReport, Report(Plainly, [cached |-> 3])},
        v \in {Clip, [Clip EXCEPT !.resolution = "720p"], [Clip EXCEPT !.seconds = 8]}}
=============================================================================
