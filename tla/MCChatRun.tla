----------------------------- MODULE MCChatRun -----------------------------
(***************************************************************************)
(* The instances.  MCChatRun.cfg: one run, two sub-agents, the device and  *)
(* the request that stops it.  MCChatSession.cfg: two runs and two requests*)
(* that send and stop.                                                     *)
(***************************************************************************)
EXTENDS ChatRun, TLC

CONSTANTS r1, r2, h1, h2

TwoOfEach == Permutations({r1, r2}) \cup Permutations({h1, h2})

(* Bound of the instance with two runs: no task reaches the device, and no *)
(* statement of a tool call fails.                                         *)
QuietCalls ==
    /\ missed = {}
    /\ approved = {}
    /\ \A k \in Calls : handed[k] = 0

Started(n) == \E r \in Runs : go[<<r, n>>].pc # "none"

(* Bound of the instance with sub-agents: the second starts after or with  *)
(* the first, in a run in which nothing crashes or is deleted, no statement*)
(* of a call fails and one call at most needs the user's approval.         *)
FewThings ==
    Started(2) => /\ Started(1) /\ churn = 0
                  /\ missed = {} /\ Cardinality(sensitive) <= 1
=============================================================================
