--------------------------- MODULE ConnectorTasks ---------------------------
(***************************************************************************)
(* The tasks a run gives to the connector on the user's own device: their  *)
(* rows, the user's decision, the device that polls for work and reports   *)
(* results.  ChatRun creates tasks, waits for them and cancels them.       *)
(***************************************************************************)
EXTENDS Naturals

CONSTANTS
    Runs,           \* runs of one chat session
    MaxAgents,      \* sub-agents a run may start
    MaxRounds       \* rounds of an agent; every round has at most one tool call

ASSUME RoundsAssumption == MaxRounds \in Nat \ {0} /\ MaxAgents \in Nat

VARIABLES
    task,           \* advanced_chat_connector_tasks.status
    sensitive,      \* tasks that were created waiting for an approval
    approved,       \* history: tasks the user has approved
    executing,      \* tasks the device works on, or whose answer it lost
    handed,         \* history: how often a task was handed to the device
    device          \* the device's row exists

connectorVars == <<task, sensitive, approved, executing, handed, device>>

(* The goroutines that call tools for a run: its own, which is number 0,   *)
(* and those of its sub-agents, under the same run id.                     *)
Agents == Runs \X (0 .. MaxAgents)

RunOf(a) == a[1]

(* A tool call, and the task it gives the device.                          *)
Calls == Agents \X (1 .. MaxRounds)

Open == {"pending_approval", "queued", "running"}

Closed == {"completed", "failed"}

ConnectorTypeOK ==
    /\ task \in [Calls -> Open \cup Closed \cup {"absent"}]
    /\ sensitive \subseteq Calls
    /\ approved \subseteq Calls
    /\ executing \subseteq Calls
    /\ handed \in [Calls -> Nat]
    /\ device \in BOOLEAN

ConnectorInit ==
    /\ task = [k \in Calls |-> "absent"]
    /\ sensitive = {}
    /\ approved = {}
    /\ executing = {}
    /\ handed = [k \in Calls |-> 0]
    /\ device = TRUE

CreateTask(k, ask) ==
    /\ task' = [task EXCEPT ![k] = IF ask THEN "pending_approval" ELSE "queued"]
    /\ sensitive' = IF ask THEN sensitive \cup {k} ELSE sensitive
    /\ UNCHANGED <<approved, executing, handed, device>>

DecidableAnyTime(k) == task[k] # "absent"      \* mutant: the status is not in the WHERE

Decidable(k) == task[k] = "pending_approval"

DecideTask(k, yes) ==
    /\ Decidable(k)
    /\ task' = [task EXCEPT ![k] = IF yes THEN "queued" ELSE "failed"]
    /\ approved' = IF yes THEN approved \cup {k} ELSE approved
    /\ UNCHANGED <<sensitive, executing, handed, device>>

ClaimableOpen(k) == task[k] \in {"queued", "running"}   \* mutant: claimed again

ClaimableEarly(k) == task[k] \in {"pending_approval", "queued"}   \* mutant

(* The device may poll several times at once.  It gets the oldest queued   *)
(* task, and which one that is does not matter here; its answer may be     *)
(* lost, and then nobody works on the task.                                *)
Claimable(k) == task[k] = "queued"

ClaimTask(k) ==
    /\ device
    /\ Claimable(k)
    /\ task' = [task EXCEPT ![k] = "running"]
    /\ executing' \in {executing, executing \cup {k}}
    /\ handed' = [handed EXCEPT ![k] = @ + 1]
    /\ UNCHANGED <<sensitive, approved, device>>

(* The result is stored whatever the row says by now.  The device posts it *)
(* again when it gets no answer.                                           *)
PostResult(k, success, again) ==
    /\ device
    /\ k \in executing
    /\ task' = [task EXCEPT ![k] = IF success THEN "completed" ELSE "failed"]
    /\ executing' = IF again THEN executing ELSE executing \ {k}
    /\ UNCHANGED <<sensitive, approved, handed, device>>

(* The waiting run gives up, and does not look at the row again.           *)
ExpireTask(k) ==
    /\ task' = [task EXCEPT ![k] = IF @ = "absent" THEN @ ELSE "failed"]
    /\ UNCHANGED <<sensitive, approved, executing, handed, device>>

(* The tasks of a run that is stopped.                                     *)
Cancelled(tasks, r) ==
    [k \in Calls |-> IF RunOf(k[1]) = r /\ tasks[k] \in Open THEN "failed" ELSE tasks[k]]

(* The device and its tasks are deleted; its token is no longer accepted.  *)
DeleteDevice ==
    /\ device
    /\ device' = FALSE
    /\ task' = [k \in Calls |-> "absent"]
    /\ executing' = {}
    /\ UNCHANGED <<sensitive, approved, handed>>

DeviceNext ==
    \E k \in Calls :
      \/ ClaimTask(k)
      \/ \E yes \in BOOLEAN : DecideTask(k, yes)
      \/ \E success, again \in BOOLEAN : PostResult(k, success, again)

-----------------------------------------------------------------------------
(* Properties.                                                             *)

(* The device gets a task once, however many polls race for it.            *)
HandedOutOnce == \A k \in Calls : handed[k] <= 1

(* What needs the user's approval reaches the device only with it.         *)
ApprovedFirst == \A k \in sensitive : handed[k] > 0 => k \in approved

(* A task that is over (reported, denied, timed out, cancelled with its    *)
(* run) is never handed out or opened again.                               *)
ClosedStaysClosed ==
    [][\A k \in Calls : task[k] \in Closed => task'[k] \notin Open]_connectorVars
=============================================================================
