------------------------------- MODULE Usage --------------------------------
(***************************************************************************)
(* What an upstream says a request has used, read from the many shapes     *)
(* such a report has, and written again in the client's protocol when the  *)
(* answer is converted.                                                    *)
(***************************************************************************)
EXTENDS Integers, FiniteSets

Million == 1000000

Floor(n) == IF n < 0 THEN 0 ELSE n

AtLeast(m, n) == IF m < n THEN n ELSE m

AtMost(m, n) == IF m > n THEN n ELSE m

(* usageTokenCounts.  The input includes what was read from and written to *)
(* caches; input and output include what was image or audio.               *)
Counted == {"input", "output", "cached", "read", "write", "write1h",
            "imageIn", "imageOut", "audioIn", "audioOut"}

Nothing == [k \in Counted |-> 0]

(* A report: the fields at its top and those in its nested objects.  The   *)
(* spellings of a field are one field.  "read" is the explicit             *)
(* cache_read_input_tokens, and "cached" the older cached_tokens.  Gemini's*)
(* usageMetadata is a shape of its own; a report inside a "response" is    *)
(* read like one outside.  A negative number is no number, and of a        *)
(* fraction the whole part is read.                                        *)
Report(fields, details) == [shape |-> "usage", top |-> fields, details |-> details]

Metadata(fields) == [shape |-> "usageMetadata", top |-> fields, details |-> <<>>]

(* What is read of a report are numbers.                                   *)
IsReport(r) ==
    /\ \A f \in DOMAIN r.top : r.top[f] \in Nat
    /\ \A f \in DOMAIN r.details : r.details[f] \in Nat

NoReport == [shape |-> "none", top |-> <<>>, details |-> <<>>]

Known(r, f) == f \in DOMAIN r.top \cup DOMAIN r.details

(* firstTokenValue, then firstTokenValueFromUsageDetails.                  *)
Value(r, f) ==
    IF f \in DOMAIN r.top THEN r.top[f]
    ELSE IF f \in DOMAIN r.details THEN r.details[f] ELSE 0

NotRaisedForCaches(u) ==                       \* mutant: the caches are not in the least input
    AtLeast(u.input, u.imageIn + u.audioIn)

RaisedInput(u) ==
    AtLeast(u.input, AtLeast(u.read + u.write + u.write1h, u.imageIn + u.audioIn))

normalizeUsageTokenCounts(raw) ==
    LET n == [k \in Counted |-> Floor(raw[k])]
        m == [n EXCEPT !.read = IF n.read = 0 THEN n.cached ELSE n.read,
                       !.cached = IF n.cached = 0 THEN n.read ELSE n.cached]
    IN [m EXCEPT !.input = RaisedInput(m),
                 !.output = AtLeast(m.output, m.imageOut + m.audioOut)]

(* Reports that name a cache the new way leave the caches out of the input.*)
ExcludesCaches(r) == "read" \in DOMAIN r.top \/ Known(r, "write") \/ Known(r, "write1h")

UsageCounts(r) ==
    LET read == IF "read" \in DOMAIN r.top THEN r.top["read"] ELSE Value(r, "cached")
        caches == read + Value(r, "write") + Value(r, "write1h")
    IN [k \in Counted |->
          CASE k = "input" -> Value(r, "input") + (IF ExcludesCaches(r) THEN caches ELSE 0)
            [] k \in {"read", "cached"} -> read
            [] OTHER -> Value(r, k)]

MetadataCounts(r) ==
    [Nothing EXCEPT !["input"] = Value(r, "input"), !["output"] = Value(r, "output"),
                    !["cached"] = Value(r, "cached"), !["read"] = Value(r, "cached")]

parseUsageTokens(r) ==
    LET counts == CASE r.shape = "usage" -> UsageCounts(r)
                    [] r.shape = "usageMetadata" -> MetadataCounts(r)
                    [] OTHER -> Nothing
    IN [counts |-> normalizeUsageTokenCounts(counts),
        ok |-> r.shape # "none" /\ {"input", "output"} \subseteq DOMAIN r.top]

(* Of the events of a stream, the last one with a whole report.            *)
parseUsageTokensFromStream(events) ==
    LET whole == {i \in DOMAIN events : parseUsageTokens(events[i]).ok}
    IN IF whole = {} THEN [counts |-> Nothing, ok |-> FALSE]
       ELSE parseUsageTokens(events[CHOOSE i \in whole : \A j \in whole : j <= i])

(* Image endpoints may report a total, or only the images' tokens.         *)
parseImageTotalUsageTokens(r) ==
    LET hasOut == "output" \in DOMAIN r.top \/ "imageOut" \in DOMAIN r.top
        hasTotal == "total" \in DOMAIN r.top
        out == CASE "output" \in DOMAIN r.top -> r.top["output"]
                 [] ~hasOut /\ hasTotal -> Floor(Value(r, "total") - Value(r, "input"))
                 [] OTHER -> Value(r, "imageOut")
        in == IF "input" \in DOMAIN r.top THEN r.top["input"]
              ELSE IF hasTotal THEN Floor(Value(r, "total") - out) ELSE 0
    IN [counts |-> normalizeUsageTokenCounts(
          [Nothing EXCEPT !["input"] = in, !["output"] = out, !["imageOut"] = out,
                          !["cached"] = Value(r, "cached"), !["read"] = Value(r, "cached")]),
        ok |-> r.shape = "usage" /\ (hasOut \/ hasTotal)]

(* An item is a million tokens; the text is counted by a tokenizer.        *)
estimateItems(text, items) ==
    [Nothing EXCEPT !["input"] = text, !["output"] = items * Million]

imageUsageTokenCounts(r, text, images) ==
    IF parseUsageTokens(r).ok THEN parseUsageTokens(r).counts
    ELSE IF parseImageTotalUsageTokens(r).ok THEN parseImageTotalUsageTokens(r).counts
    ELSE [estimateItems(text, images) EXCEPT !["imageOut"] = images * Million]

-----------------------------------------------------------------------------
(* Conversion of an answer: the report a client of another protocol gets.  *)

Protocols == {"openai", "responses", "claude", "gemini"}

(* openAIUsage and openAIResponsesBody spell the same fields.              *)
openAIUsage(u) ==
    Report([input |-> u.input, output |-> u.output, write |-> u.write, write1h |-> u.write1h],
           [cached |-> u.cached, imageIn |-> u.imageIn, audioIn |-> u.audioIn,
            imageOut |-> u.imageOut, audioOut |-> u.audioOut])

providerDataNonCacheInput(u) == Floor(u.input - u.cached - u.write - u.write1h)

claudeResponseBody(u) ==
    Report([input |-> providerDataNonCacheInput(u), output |-> u.output, read |-> u.cached,
            write |-> u.write, write1h |-> u.write1h], <<>>)

(* The details it also writes are not among the fields that are read.      *)
geminiResponseBody(u) ==
    Metadata([input |-> u.input, output |-> u.output, cached |-> u.cached])

(* Written from what was counted, whole or not.                            *)
transformProviderResponse(r, client) ==
    LET u == parseUsageTokens(r).counts
    IN CASE client \in {"openai", "responses"} -> openAIUsage(u)
         [] client = "claude" -> claudeResponseBody(u)
         [] OTHER -> geminiResponseBody(u)

(* What is billed is read from the body that goes to the client.           *)
ClientReport(r, upstream, client) ==
    IF upstream = client THEN r ELSE transformProviderResponse(r, client)
=============================================================================
