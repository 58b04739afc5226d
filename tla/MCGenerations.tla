---------------------------- MODULE MCGenerations ----------------------------
(* A video channel and one for anything else; one call makes the only job, *)
(* which two requests poll.                                                *)
EXTENDS Generations

MCProtocol == [c \in Channels |-> IF c = "videos" THEN "kling" ELSE "openai"]
=============================================================================
