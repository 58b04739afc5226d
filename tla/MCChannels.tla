----------------------------- MODULE MCChannels -----------------------------
(* Two channels of one model, a request at a time, and one administrator.  *)
EXTENDS Channels

MCOpeningWeight == [c \in Channels |-> c]

MCPriority == [c \in Channels |-> 1]
=============================================================================
