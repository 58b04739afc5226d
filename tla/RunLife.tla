------------------------------ MODULE RunLife ------------------------------
(***************************************************************************)
(* What a chat session promises its user about assistant runs: one run at  *)
(* a time, every run ends at most once, and its event log tells how.       *)
(* ChatRun implements it.                                                  *)
(***************************************************************************)
EXTENDS Sequences

CONSTANT Runs

VARIABLES
    status,         \* what the user sees of each run
    outcome         \* the closing events of the run's log

Active == {"queued", "running"}

ClosingEvent == [completed |-> "done", failed |-> "error", cancelled |-> "cancelled"]

Ended == DOMAIN ClosingEvent

RunLifeInit ==
    /\ status = [r \in Runs |-> "absent"]
    /\ outcome = [r \in Runs |-> <<>>]

Create(r) ==
    /\ status[r] = "absent"
    /\ \A s \in Runs : status[s] \notin Active
    /\ status' = [status EXCEPT ![r] = "queued"]
    /\ UNCHANGED outcome

Start(r) ==
    /\ status[r] = "queued"
    /\ status' = [status EXCEPT ![r] = "running"]
    /\ UNCHANGED outcome

(* Only the user ends a run that has not started.                          *)
End(r, end) ==
    /\ status[r] \in Active
    /\ status[r] = "queued" => end = "cancelled"
    /\ status' = [status EXCEPT ![r] = end]
    /\ UNCHANGED outcome

Announce(r) ==
    /\ status[r] \in Ended
    /\ outcome[r] = <<>>
    /\ outcome' = [outcome EXCEPT ![r] = <<ClosingEvent[status[r]]>>]
    /\ UNCHANGED status

(* The session is deleted, with all its runs and their logs.               *)
DeleteAll ==
    /\ status' = [r \in Runs |-> IF status[r] = "absent" THEN "absent" ELSE "deleted"]
    /\ outcome' = [r \in Runs |-> <<>>]

RunLifeNext ==
    \/ \E r \in Runs : Create(r) \/ Start(r) \/ Announce(r)
    \/ \E r \in Runs, end \in Ended : End(r, end)
    \/ DeleteAll

RunLifeSpec == RunLifeInit /\ [][RunLifeNext]_<<status, outcome>>
=============================================================================
