------------------------------ MODULE Routing -------------------------------
(***************************************************************************)
(* Which channel serves a request: the candidates of a model in the order  *)
(* of the query, and the one that the routing algorithm of their user      *)
(* channel takes from them.  Channels are the numbers of their rows.       *)
(***************************************************************************)
EXTENDS Integers, FiniteSets, FiniteSetsExt, Functions, Sequences

CONSTANTS
    Channels,       \* ids of the channels of one model and user channel
    Priority,       \* Priority[c]: the priority column
    Algorithm       \* "priority", "round_robin" or "weighted_round_robin"

ASSUME RoutingAssumption ==
    /\ Channels \subseteq Nat \ {0} /\ IsFiniteSet(Channels)
    /\ Priority \in [Channels -> Int]
    /\ Algorithm \in {"priority", "round_robin", "weighted_round_robin"}

normalizedChannelWeight(w) == IF w <= 0 THEN 1 ELSE w

(* ORDER BY priority DESC, weight DESC, id ASC                             *)
Precedes(weight, c, d) ==
    \/ Priority[c] > Priority[d]
    \/ Priority[c] = Priority[d] /\ weight[c] > weight[d]
    \/ Priority[c] = Priority[d] /\ weight[c] = weight[d] /\ c < d

Candidates(enabled, weight) ==
    CHOOSE cands \in [1 .. Cardinality(enabled) -> enabled] :
      \A i, j \in DOMAIN cands : i < j => Precedes(weight, cands[i], cands[j])

(* How many positions of a round candidate i takes.                        *)
Share(cands, weight, i) ==
    IF Algorithm = "weighted_round_robin" THEN normalizedChannelWeight(weight[cands[i]]) ELSE 1

SharesBefore(cands, weight, i) ==
    SumFunctionOnSet([j \in 1 .. i |-> Share(cands, weight, j)], 1 .. i)

RoundLength(cands, weight) == SharesBefore(cands, weight, Len(cands))

PositionOffByOne(cands, weight, n) ==          \* mutant: position <= weight
    LET position == n % RoundLength(cands, weight) IN
    cands[CHOOSE i \in DOMAIN cands :
            /\ position <= SharesBefore(cands, weight, i)
            /\ \A j \in 1 .. i - 1 : position > SharesBefore(cands, weight, j)]

(* The candidate whose share holds the n-th position.                      *)
Position(cands, weight, n) ==
    LET position == n % RoundLength(cands, weight) IN
    cands[CHOOSE i \in DOMAIN cands :
            /\ position < SharesBefore(cands, weight, i)
            /\ \A j \in 1 .. i - 1 : position >= SharesBefore(cands, weight, j)]

(* A single candidate and the priority algorithm leave the counter alone.  *)
Draws(cands) == Len(cands) > 1 /\ Algorithm # "priority"

selectModelConfig(cands, weight, n) ==
    IF Draws(cands) THEN Position(cands, weight, n) ELSE cands[1]
=============================================================================
