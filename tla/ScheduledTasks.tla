---------------------------- MODULE ScheduledTasks ----------------------------
(***************************************************************************)
(* Scheduled tasks of the chat: a user's standing order to run an agent by *)
(* hand, once at a time, or at an interval.                                *)
(*                                                                         *)
(* A ticker lists what is due and starts a goroutine for each; manual      *)
(* starts come from requests.  A goroutine reads the row once, claims it   *)
(* with a conditional update, and when its run has ended writes the next   *)
(* time from the copy it read at the beginning.                            *)
(***************************************************************************)
EXTENDS Naturals, FiniteSets

CONSTANTS
    Tasks,
    Workers,        \* goroutines that start and finish runs
    MaxCrashes,     \* bound: how often the process dies
    Unborn, Gone,   \* no row yet, no row any more
    None            \* no time, nothing read

VARIABLES
    on,             \* scheduled tasks are allowed
    row,            \* the table of tasks; Unborn and Gone: no row
    worker,         \* the goroutines
    editor,         \* what a request of the user has checked
    crashes,        \* what the bound counts (nothing else reads it)
    orphaned,       \* history: tasks whose goroutine ended without a word
    started,        \* history: tasks claimed since they were last edited
    overlapped,     \* history: tasks edited while a goroutine had a copy
    timeless        \* history: tasks whose row was left without a time by
                    \* a creation or by a start that failed

taskVars == <<on, row, worker, editor, crashes, orphaned, started, overlapped, timeless>>

Busy == {"queued", "running"}

(* What a user may ask for, after the checks of the input: a task by hand, *)
(* once at a time that may have passed, or again and again.                *)
Kinds == {"manual", "once", "interval"}

Orders ==
    {o \in [kind: Kinds, enabled: BOOLEAN, at: {"later", "due"}] :
        o.kind # "once" => o.at = "later"}

(* A time is in the future or has come.                                    *)
nextAdvancedChatTaskRunAt(order) ==
    CASE ~order.enabled \/ order.kind = "manual" -> None
      [] order.enabled /\ order.kind = "once" -> order.at
      [] order.enabled /\ order.kind = "interval" -> "later"

NextAsBefore(order) ==                         \* mutant: once and once again
    nextAdvancedChatTaskRunAt(order)

nextAdvancedChatTaskRunAtAfterFinish(order) ==
    IF order.kind = "once" THEN None ELSE nextAdvancedChatTaskRunAt(order)

Row == [order: Orders, next: {None, "later", "due"},
        status: {"idle", "completed", "failed"} \cup Busy]

Idle == [pc |-> "idle", task |-> None, copy |-> None]

Checked == [task: Tasks, does: {"update", "delete"}]

ASSUME ScheduledTasksAssumption ==
    /\ MaxCrashes \in Nat
    /\ Unborn # Gone /\ {Unborn, Gone} \cap Row = {}
    /\ None \notin Tasks \cup Orders \cup Checked \cup {"later", "due"}

Holds(w, t) == worker[w].task = t /\ worker[w].pc # "listed"

Works(w, t) == worker[w].task = t /\ worker[w].pc \notin {"listed", "loaded"}

ScheduledTasksTypeOK ==
    /\ on \in BOOLEAN
    /\ row \in [Tasks -> Row \cup {Unborn, Gone}]
    /\ worker \in [Workers ->
         [pc: {"listed", "loaded", "claimed", "prepared", "failing", "running"}, task: Tasks,
          copy: Orders \cup {None}] \cup {Idle}]
    /\ editor \in Checked \cup {None}
    /\ crashes \in 0 .. MaxCrashes
    /\ orphaned \subseteq Tasks /\ started \subseteq Tasks
    /\ overlapped \subseteq Tasks /\ timeless \subseteq Tasks

ScheduledTasksInit ==
    /\ on = TRUE
    /\ row = [t \in Tasks |-> Unborn]
    /\ worker = [w \in Workers |-> Idle]
    /\ editor = None
    /\ crashes = 0 /\ orphaned = {}
    /\ started = {} /\ overlapped = {} /\ timeless = {}

Exists(t) == row[t] \notin {Unborn, Gone}

AtRest(t) == Exists(t) /\ row[t].status \notin Busy

Due(t) == AtRest(t) /\ row[t].order.enabled /\ row[t].next = "due"

Becomes(w, q) == worker' = [worker EXCEPT ![w] = q]

HistoryUnchanged == UNCHANGED <<crashes, orphaned, started, overlapped, timeless>>

-----------------------------------------------------------------------------
(* The user.                                                               *)

(* The next time is that of the order; but the default of the enabled      *)
(* column takes the place of FALSE when the row is inserted.               *)
createScheduledTask(t, order) ==
    /\ on /\ row[t] = Unborn
    /\ row' = [row EXCEPT ![t] =
         [order |-> [order EXCEPT !.enabled = TRUE],
          next |-> nextAdvancedChatTaskRunAt(order), status |-> "idle"]]
    /\ timeless' = IF order.enabled THEN timeless ELSE timeless \cup {t}
    /\ UNCHANGED <<on, worker, editor, crashes, orphaned, started, overlapped>>

(* Both handlers look first whether the task is at work, and write later.  *)
Check(t, does) ==
    /\ on /\ editor = None /\ AtRest(t)
    /\ editor' = [task |-> t, does |-> does]
    /\ UNCHANGED <<on, row, worker>> /\ HistoryUnchanged

(* The update leaves the status alone.                                     *)
updateScheduledTask(order) ==
    LET t == editor.task
        held == \E w \in Workers : Holds(w, t)
    IN
    /\ editor # None /\ editor.does = "update"
    /\ row' = IF Exists(t)
              THEN [row EXCEPT ![t].order = order, ![t].next = nextAdvancedChatTaskRunAt(order)]
              ELSE row
    /\ editor' = None
    /\ started' = started \ {t}
    /\ overlapped' = IF held THEN overlapped \cup {t} ELSE overlapped \ {t}
    /\ timeless' = timeless \ {t}
    /\ UNCHANGED <<on, worker, crashes, orphaned>>

deleteScheduledTask ==
    /\ editor # None /\ editor.does = "delete"
    /\ row' = [row EXCEPT ![editor.task] = Gone]
    /\ editor' = None
    /\ UNCHANGED <<on, worker>> /\ HistoryUnchanged

-----------------------------------------------------------------------------
(* Starting a run.                                                         *)

(* The ticker's query; each row found is given a goroutine.                *)
runDueAdvancedChatScheduledTasks(w, t) ==
    /\ on /\ worker[w] = Idle /\ Due(t)
    /\ Becomes(w, [pc |-> "listed", task |-> t, copy |-> None])
    /\ UNCHANGED <<on, row, editor>> /\ HistoryUnchanged

LoadTooLate(w) ==                              \* mutant: when its time is yet to come
    LET q == worker[w] IN
    /\ q.pc = "listed"
    /\ IF Exists(q.task) /\ row[q.task].order.enabled /\ row[q.task].next = "later"
       THEN Becomes(w, [q EXCEPT !.pc = "loaded", !.copy = row[q.task].order])
       ELSE Becomes(w, Idle)
    /\ UNCHANGED <<on, row, editor>> /\ HistoryUnchanged

(* The row is read; a goroutine of the ticker looks once more whether it   *)
(* is due.                                                                 *)
Load(w) ==
    LET q == worker[w] IN
    /\ q.pc = "listed"
    /\ IF Exists(q.task) /\ row[q.task].order.enabled /\ row[q.task].next = "due"
       THEN Becomes(w, [q EXCEPT !.pc = "loaded", !.copy = row[q.task].order])
       ELSE Becomes(w, Idle)
    /\ UNCHANGED <<on, row, editor>> /\ HistoryUnchanged

runScheduledTask(w, t) ==
    /\ on /\ worker[w] = Idle /\ Exists(t)
    /\ Becomes(w, [pc |-> "loaded", task |-> t, copy |-> row[t].order])
    /\ UNCHANGED <<on, row, editor>> /\ HistoryUnchanged

(* The claim asks for the status alone: not whether the row is due still.  *)
Claims(w) ==
    LET q == worker[w] IN
    /\ row' = [row EXCEPT ![q.task].status = "queued"]
    /\ Becomes(w, [q EXCEPT !.pc = "claimed"])
    /\ started' = started \cup {q.task}

ClaimUnchecked(w) ==                           \* mutant: whoever has claimed it
    /\ worker[w].pc = "loaded"
    /\ IF Exists(worker[w].task)
       THEN Claims(w)
       ELSE Becomes(w, Idle) /\ UNCHANGED <<row, started>>
    /\ UNCHANGED <<on, editor, crashes, orphaned, overlapped, timeless>>

Claim(w) ==
    /\ worker[w].pc = "loaded"
    /\ IF AtRest(worker[w].task)
       THEN Claims(w)
       ELSE Becomes(w, Idle) /\ UNCHANGED <<row, started>>
    /\ UNCHANGED <<on, editor, crashes, orphaned, overlapped, timeless>>

SetRow(t, r) == row' = IF Exists(t) THEN [row EXCEPT ![t] = r] ELSE row

(* Agent, skills, servers, workspace and model are looked up, some of them *)
(* over the network.                                                       *)
prepareAdvancedChatAssistantRun(w) ==
    /\ worker[w].pc = "claimed"
    /\ Becomes(w, [worker[w] EXCEPT !.pc = "prepared"])
    /\ UNCHANGED <<on, row, editor>> /\ HistoryUnchanged

(* The row says that the run is created, unless that statement fails.      *)
createAdvancedChatAssistantRun(w) ==
    LET q == worker[w] IN
    /\ q.pc = "prepared"
    /\ SetRow(q.task, [row[q.task] EXCEPT !.status = "running"]) \/ UNCHANGED row
    /\ Becomes(w, [q EXCEPT !.pc = "running"])
    /\ UNCHANGED <<on, editor>> /\ HistoryUnchanged

(* A run that cannot be prepared or created: the row is read again for the *)
(* next time, and written in a step of its own.  A row that is gone and a  *)
(* row that cannot be read are the same to what follows.                   *)
PrepareFails(w) ==
    LET q == worker[w] IN
    /\ q.pc \in {"claimed", "prepared"}
    /\ \E copy \in {None} \cup (IF Exists(q.task) THEN {row[q.task].order} ELSE {}) :
         Becomes(w, [q EXCEPT !.pc = "failing", !.copy = copy])
    /\ UNCHANGED <<on, row, editor>> /\ HistoryUnchanged

NextAfter(copy) == IF copy = None THEN None ELSE nextAdvancedChatTaskRunAtAfterFinish(copy)

failAdvancedChatScheduledTaskQueue(w) ==
    LET q == worker[w] IN
    /\ q.pc = "failing"
    /\ SetRow(q.task, [row[q.task] EXCEPT !.status = "failed", !.next = NextAfter(q.copy)])
    /\ timeless' = IF q.copy = None THEN timeless \cup {q.task} ELSE timeless \ {q.task}
    /\ Becomes(w, Idle)
    /\ UNCHANGED <<on, editor, crashes, orphaned, started, overlapped>>

(* The run has ended (module ChatRun): the next time comes from the copy,  *)
(* and a task that has run once is switched off.                           *)
runAdvancedChatScheduledTaskCompletion(w, status) ==
    LET q == worker[w]
        done == q.copy.kind = "once" /\ status = "completed"
    IN
    /\ q.pc = "running"
    /\ SetRow(q.task, [row[q.task] EXCEPT !.status = status, !.next = NextAfter(q.copy),
                                          !.order.enabled = @ /\ ~done])
    /\ timeless' = timeless \ {q.task}
    /\ Becomes(w, Idle)
    /\ UNCHANGED <<on, editor, crashes, orphaned, started, overlapped>>

(* The errors of both last updates are dropped.                            *)
LastWordLost(w) ==
    /\ worker[w].pc \in {"failing", "running"}
    /\ orphaned' = orphaned \cup {worker[w].task}
    /\ Becomes(w, Idle)
    /\ UNCHANGED <<on, row, editor, crashes, started, overlapped, timeless>>

-----------------------------------------------------------------------------
(* The rest of the world.                                                  *)

TimePasses(t) ==
    /\ Exists(t) /\ row[t].next = "later"
    /\ row' = [row EXCEPT ![t].next = "due"]
    /\ UNCHANGED <<on, worker, editor>> /\ HistoryUnchanged

Switch ==
    /\ on' = ~on
    /\ UNCHANGED <<row, worker, editor>> /\ HistoryUnchanged

(* Nothing looks for the tasks that were at work.                          *)
Crash ==
    /\ crashes < MaxCrashes /\ crashes' = crashes + 1
    /\ worker' = [w \in Workers |-> Idle]
    /\ editor' = None
    /\ orphaned' = orphaned \cup {t \in Tasks : \E w \in Workers : Works(w, t)}
    /\ UNCHANGED <<on, row, started, overlapped, timeless>>

Working(w) ==
    \/ Load(w)
    \/ Claim(w)
    \/ prepareAdvancedChatAssistantRun(w)
    \/ createAdvancedChatAssistantRun(w)
    \/ PrepareFails(w)
    \/ failAdvancedChatScheduledTaskQueue(w)
    \/ \E status \in {"completed", "failed"} : runAdvancedChatScheduledTaskCompletion(w, status)
    \/ LastWordLost(w)

ScheduledTasksNext ==
    \/ \E t \in Tasks, order \in Orders : createScheduledTask(t, order)
    \/ \E t \in Tasks, does \in {"update", "delete"} : Check(t, does)
    \/ \E order \in Orders : updateScheduledTask(order)
    \/ deleteScheduledTask
    \/ \E w \in Workers, t \in Tasks :
         runDueAdvancedChatScheduledTasks(w, t) \/ runScheduledTask(w, t)
    \/ \E w \in Workers : Working(w)
    \/ \E t \in Tasks : TimePasses(t)
    \/ Switch
    \/ Crash

ScheduledTasksSpec == ScheduledTasksInit /\ [][ScheduledTasksNext]_taskVars

(* Goroutines go on, runs end (module ChatRun), and a ticker that comes by *)
(* every thirty seconds starts what it finds: Workers bounds a number the  *)
(* program does not.                                                       *)
ScheduledTasksFairSpec ==
    /\ ScheduledTasksSpec
    /\ \A w \in Workers : WF_taskVars(Working(w))
    /\ \A t \in Tasks :
         SF_taskVars(\E w \in Workers : runDueAdvancedChatScheduledTasks(w, t))

-----------------------------------------------------------------------------
(* Properties.                                                             *)

(* A task has one run at a time, however ticks, manual starts, edits and   *)
(* deletions interleave; its row says queued or running exactly while a    *)
(* goroutine works on it, and after a crash or a lost update for good.     *)
StatusTellsWork ==
    \A t \in Tasks :
      LET working == {w \in Workers : Works(w, t)} IN
      /\ Exists(t) => Cardinality(working) <= 1
      /\ Exists(t) /\ row[t].status \in Busy => working # {} \/ t \in orphaned
      /\ Exists(t) /\ working # {} => row[t].status \in Busy

(* A row at rest is scheduled as its order says: an enabled interval goes  *)
(* on, a time that has been used is not used again, one that has not still *)
(* stands, and nothing else is scheduled.  Only an edit that was written   *)
(* while a goroutine had a copy of the row may find its times replaced;    *)
(* and a row that was created disabled (it is stored enabled), or whose    *)
(* start failed and could not read it, has no time at all.                 *)
RestsAsAsked ==
    \A t \in Tasks :
      AtRest(t) /\ t \notin overlapped =>
        LET order == row[t].order
            wanted == CASE order.kind = "interval" -> order.enabled
                        [] order.kind = "once" -> order.enabled /\ t \notin started
                        [] order.kind = "manual" -> FALSE
        IN row[t].next # None <=> wanted /\ t \notin timeless

(* What is due is started or stops being due, as long as scheduled tasks   *)
(* are allowed.                                                            *)
DueTasksStart == \A t \in Tasks : Due(t) ~> (~Due(t) \/ ~on)
=============================================================================
