------------------------------ MODULE ChatRun ------------------------------
(***************************************************************************)
(* The assistant runs of one chat session.  A run is a row, a goroutine    *)
(* that talks to the model and to the user's device, and a cancel function *)
(* that the goroutine registers.  Handlers create, stop and interrupt      *)
(* runs; nothing but guarded UPDATEs coordinates them with the goroutine.  *)
(* A run may start sub-agents, whose goroutines call tools under its id.   *)
(* Any statement may fail, and some errors are dropped.                    *)
(*                                                                         *)
(* Texts, costs and the list of messages are left out.                     *)
(***************************************************************************)
EXTENDS ConnectorTasks, Sequences, FiniteSets

CONSTANTS
    Handlers,       \* goroutines that serve the user's requests
    NoRun,
    MaxChurn        \* bound: crashes, deletions

ASSUME ChatAssumption == NoRun \notin Runs /\ MaxChurn \in Nat

VARIABLES
    status,         \* advanced_chat_runs.status
    tools,          \* tool_call_details: the status of every tool call
    events,         \* the closing events of the run's log
    go,             \* the goroutine of every agent
    cancelFns,      \* advancedChatRunCancels: runs whose cancel is registered
    cancelled,      \* runs whose context is cancelled
    handler,        \* the requests being served
    adrift,         \* history: runs whose start, end or closing event failed
    missed,         \* history: calls with a statement that failed
    churn           \* crashes and deletions so far (only the bound reads it)

runVars == <<status, tools, events, go, cancelFns, cancelled, handler, adrift, missed, churn>>
vars == <<connectorVars, runVars>>

Active == {"queued", "running"}

Ended == {"completed", "failed", "cancelled"}

(* What a goroutine does next; "quit" and "dead" are the ends of it.       *)
Steps == {"none", "spawned", "registered", "round", "model", "tool", "opening", "open",
          "create", "call", "join", "wait", "expire", "closing", "close", "finish", "fail",
          "done", "error", "quit", "dead"}

Goroutine == [pc: Steps, round: 1 .. MaxRounds, result: {"none", "ok", "error"}]

Idle == [pc |-> "idle", run |-> NoRun, next |-> NoRun]

Handler == [pc: {"idle", "stop", "signal", "announce", "create"},
            run: Runs \cup {NoRun}, next: Runs \cup {NoRun}]

ToolStatus == {"none", "running", "approval_required", "ok", "error"}

RunTypeOK ==
    /\ status \in [Runs -> Active \cup Ended \cup {"absent", "deleted"}]
    /\ tools \in [Calls -> ToolStatus]
    /\ events \in [Runs -> Seq({"done", "error", "cancelled"})]
    /\ go \in [Agents -> Goroutine]
    /\ cancelFns \subseteq Runs
    /\ cancelled \subseteq Runs
    /\ handler \in [Handlers -> Handler]
    /\ adrift \subseteq Runs
    /\ missed \subseteq Calls
    /\ churn \in 0 .. MaxChurn

ChatTypeOK == ConnectorTypeOK /\ RunTypeOK

ChatInit ==
    /\ ConnectorInit
    /\ status = [r \in Runs |-> "absent"]
    /\ tools = [k \in Calls |-> "none"]
    /\ events = [r \in Runs |-> <<>>]
    /\ go = [a \in Agents |-> [pc |-> "none", round |-> 1, result |-> "none"]]
    /\ cancelFns = {}
    /\ cancelled = {}
    /\ handler = [h \in Handlers |-> Idle]
    /\ adrift = {}
    /\ missed = {}
    /\ churn = 0

IsActive(r) == status[r] \in Active

Main(r) == <<r, 0>>

IsMain(a) == a[2] = 0

(* The tool call of the goroutine's round.                                 *)
Call(a) == <<a, go[a].round>>

-----------------------------------------------------------------------------
(* The requests of the user.                                               *)

BeginStop(h, r) ==
    /\ handler[h] = Idle
    /\ IsActive(r)
    /\ handler' = [handler EXCEPT ![h] = [pc |-> "stop", run |-> r, next |-> NoRun]]
    /\ UNCHANGED <<connectorVars, status, tools, events, go, cancelFns, cancelled,
                   adrift, missed, churn>>

(* A new message interrupts the active run first, if it finds one.         *)
BeginSend(h, new) ==
    /\ handler[h] = Idle
    /\ status[new] = "absent" /\ \A g \in Handlers : handler[g].next # new
    /\ \/ \E r \in Runs :
            /\ IsActive(r)
            /\ handler' = [handler EXCEPT ![h] = [pc |-> "stop", run |-> r, next |-> new]]
       \/ /\ \A r \in Runs : ~IsActive(r)
          /\ handler' = [handler EXCEPT ![h] = [pc |-> "create", run |-> NoRun, next |-> new]]
    /\ UNCHANGED <<connectorVars, status, tools, events, go, cancelFns, cancelled,
                   adrift, missed, churn>>

(* What a handler does when the run in its way is dealt with.  A message   *)
(* is refused when that run is gone, for it cannot be loaded any more.     *)
AfterStop(q) ==
    IF q.next = NoRun \/ status[q.run] = "deleted"
    THEN Idle ELSE [q EXCEPT !.pc = "create", !.run = NoRun]

(* cancelActiveAdvancedChatToolCalls                                       *)
CloseToolCalls(calls, r) ==
    [k \in Calls |-> IF RunOf(k[1]) = r /\ calls[k] \in {"running", "approval_required"}
                     THEN "error" ELSE calls[k]]

(* One transaction: the row, its tool calls and its tasks, or nothing; when *)
(* it fails the request is refused.                                        *)
StopRun(h) ==
    LET q == handler[h] IN
    /\ q.pc = "stop"
    /\ \/ /\ IsActive(q.run)
          /\ status' = [status EXCEPT ![q.run] = "cancelled"]
          /\ tools' = CloseToolCalls(tools, q.run)
          /\ task' = Cancelled(task, q.run)
          /\ handler' = [handler EXCEPT ![h].pc = "signal"]
       \/ /\ ~IsActive(q.run)
          /\ handler' = [handler EXCEPT ![h] = AfterStop(q)]
          /\ UNCHANGED <<status, tools, task>>
       \/ /\ handler' = [handler EXCEPT ![h] = Idle]
          /\ UNCHANGED <<status, tools, task>>
    /\ UNCHANGED <<sensitive, approved, executing, handed, device,
                   events, go, cancelFns, cancelled, adrift, missed, churn>>

(* The cancel function, if the goroutine has registered it and not ended.  *)
SignalCancel(h) ==
    LET q == handler[h] IN
    /\ q.pc = "signal"
    /\ cancelled' = cancelled \cup ({q.run} \cap cancelFns)
    /\ handler' = [handler EXCEPT ![h].pc = "announce"]
    /\ UNCHANGED <<connectorVars, status, tools, events, go, cancelFns, adrift, missed, churn>>

(* The error of the event is dropped; the row is read again after it, and  *)
(* the request refused when that fails.                                    *)
AnnounceCancelled(h) ==
    LET q == handler[h] IN
    /\ q.pc = "announce"
    /\ \/ events' = [events EXCEPT ![q.run] = Append(@, "cancelled")] /\ UNCHANGED adrift
       \/ adrift' = adrift \cup {q.run} /\ UNCHANGED events
    /\ \E next \in {AfterStop(q), Idle} : handler' = [handler EXCEPT ![h] = next]
    /\ UNCHANGED <<connectorVars, status, tools, go, cancelFns, cancelled, missed, churn>>

SessionFreeAnyway == TRUE                      \* mutant: active runs are not counted

SessionFree == \A r \in Runs : ~IsActive(r)

(* Another request may have created a run since: then this one is refused, *)
(* as when its transaction fails.  When the answer cannot be loaded after  *)
(* it, the run is there and nobody starts its goroutine.                   *)
CreateRun(h) ==
    LET q == handler[h] IN
    /\ q.pc = "create"
    /\ \/ /\ SessionFree
          /\ status' = [status EXCEPT ![q.next] = "queued"]
          /\ \/ go' = [go EXCEPT ![Main(q.next)].pc = "spawned"] /\ UNCHANGED adrift
             \/ adrift' = adrift \cup {q.next} /\ UNCHANGED go
       \/ UNCHANGED <<status, go, adrift>>
    /\ handler' = [handler EXCEPT ![h] = Idle]
    /\ UNCHANGED <<connectorVars, tools, events, cancelFns, cancelled, missed, churn>>

Handle(h) == StopRun(h) \/ SignalCancel(h) \/ AnnounceCancelled(h) \/ CreateRun(h)

-----------------------------------------------------------------------------
(* The goroutines.  What an agent does next, in each of its roles: an error *)
(* fails the run when it is the run's own, and else only ends the agent.   *)

AfterError(a) == IF IsMain(a) THEN "fail" ELSE "quit"

AfterText(a) == IF IsMain(a) THEN "finish" ELSE "quit"

StepTo(a, pc) ==
    /\ go' = [go EXCEPT ![a].pc = pc]
    /\ cancelFns' = IF pc = "quit" /\ IsMain(a) THEN cancelFns \ {RunOf(a)} ELSE cancelFns

(* ensureAdvancedChatRunNotCancelled reads the row; what follows is another *)
(* step.  A row that is gone is an error like any other.                   *)
Checked(a, pc) ==
    CASE status[RunOf(a)] = "cancelled" -> "quit"
      [] status[RunOf(a)] = "deleted"   -> AfterError(a)
      [] OTHER                          -> pc

Register(r) ==
    /\ go[Main(r)].pc = "spawned"
    /\ go' = [go EXCEPT ![Main(r)].pc = "registered"]
    /\ cancelFns' = cancelFns \cup {r}
    /\ UNCHANGED <<connectorVars, status, tools, events, cancelled, handler,
                   adrift, missed, churn>>

(* A statement fails without which the run does not start, or not end.     *)
LeaveAdrift(r) ==
    /\ IsActive(r)
    /\ adrift' = adrift \cup {r}
    /\ StepTo(Main(r), "quit")
    /\ UNCHANGED status

StartRun(r) ==
    /\ go[Main(r)].pc = "registered"
    /\ \/ /\ status[r] = "queued"
          /\ status' = [status EXCEPT ![r] = "running"]
          /\ StepTo(Main(r), "round")
          /\ UNCHANGED adrift
       \/ status[r] # "queued" /\ StepTo(Main(r), "quit") /\ UNCHANGED <<status, adrift>>
       \/ LeaveAdrift(r)
    /\ UNCHANGED <<connectorVars, tools, events, cancelled, handler, missed, churn>>

(* The context ends when the run is cancelled or its time is up.           *)
BeginRound(r) ==
    /\ go[Main(r)].pc = "round"
    /\ \/ r \in cancelled /\ StepTo(Main(r), "quit")
       \/ /\ r \notin cancelled
          /\ \E pc \in {Checked(Main(r), "model"), "fail"} : StepTo(Main(r), pc)
    /\ UNCHANGED <<connectorVars, status, tools, events, cancelled, handler,
                   adrift, missed, churn>>

(* The model fails (and may be asked again, if the run is not cancelled),  *)
(* answers with text, or asks for a tool; text is only delivered to a run  *)
(* that is not cancelled.                                                  *)
AskModel(a) ==
    /\ go[a].pc = "model"
    /\ \/ StepTo(a, IF RunOf(a) \in cancelled THEN "quit" ELSE AfterError(a))
       \/ StepTo(a, Checked(a, AfterError(a)))
       \/ \E pc \in {"tool", AfterText(a)} : \E next \in {pc, Checked(a, pc)} : StepTo(a, next)
    /\ UNCHANGED <<connectorVars, status, tools, events, cancelled, handler,
                   adrift, missed, churn>>

(* A task that needs the user's approval exists before its tool call is    *)
(* shown to the user.  A run keeps the device it was prepared with.        *)
PrepareTool(a) ==
    /\ go[a].pc = "tool"
    /\ CreateTask(Call(a), TRUE) \/ UNCHANGED connectorVars
    /\ StepTo(a, "opening")
    /\ UNCHANGED <<status, tools, events, cancelled, handler, adrift, missed, churn>>

Answered(a, result) ==
    /\ go' = [go EXCEPT ![a].pc = "closing", ![a].result = result]
    /\ UNCHANGED cancelFns

Miss(a) == missed' = missed \cup {Call(a)}

CheckOpening(a) ==
    /\ go[a].pc = "opening"
    /\ \/ StepTo(a, Checked(a, "open")) /\ UNCHANGED missed
       \/ StepTo(a, AfterError(a)) /\ Miss(a)
    /\ UNCHANGED <<connectorVars, status, tools, events, cancelled, handler, adrift, churn>>

Shown(a, word) == [tools EXCEPT ![Call(a)] = word]

ShownOpen(a) == Shown(a, IF Call(a) \in sensitive THEN "approval_required" ELSE "running")

(* mergeAdvancedChatRunToolCall: the run is not asked for its status.  The *)
(* event after it may fail when the call is shown already.                 *)
RecordOpen(a) ==
    /\ go[a].pc = "open"
    /\ \/ /\ status[RunOf(a)] # "deleted"
          /\ UNCHANGED missed
          /\ \/ /\ tools' = ShownOpen(a)
                /\ \E pc \in IF Call(a) \in sensitive THEN {"wait"} ELSE {"create", "call"} :
                     StepTo(a, pc)
             \/ /\ Call(a) \notin sensitive    \* its task could not be created
                /\ tools' = Shown(a, "error")
                /\ Answered(a, "error")
       \/ /\ status[RunOf(a)] = "deleted"
          /\ StepTo(a, AfterError(a))
          /\ UNCHANGED <<tools, missed>>
       \/ /\ status[RunOf(a)] # "deleted"
          /\ tools' \in {tools, ShownOpen(a)}
          /\ StepTo(a, AfterError(a))
          /\ Miss(a)
    /\ UNCHANGED <<connectorVars, status, events, cancelled, handler, adrift, churn>>

(* What a reviewer commits to the workspace waits for approval here too.   *)
CreateAutoTask(a) ==
    /\ go[a].pc = "create"
    /\ \/ \E ask \in BOOLEAN : CreateTask(Call(a), ask) /\ StepTo(a, "wait")
       \/ UNCHANGED connectorVars /\ Answered(a, "error")
    /\ UNCHANGED <<status, tools, events, cancelled, handler, adrift, missed, churn>>

(* A tool of a server, or the delivery.                                    *)
CallOther(a) ==
    /\ go[a].pc = "call"
    /\ \E result \in {"ok", "error"} : Answered(a, result)
    /\ UNCHANGED <<connectorVars, status, tools, events, cancelled, handler,
                   adrift, missed, churn>>

SubAgents(r) == {a \in Agents : RunOf(a) = r /\ ~IsMain(a)}

(* agent_split starts several agents, agent_delegate one, and the run's    *)
(* goroutine waits for all of them.                                        *)
StartAgents(r) ==
    /\ go[Main(r)].pc = "call"
    /\ \E team \in SUBSET {a \in SubAgents(r) : go[a].pc = "none"} :
         /\ team # {}
         /\ go' = [a \in Agents |-> IF a = Main(r) THEN [go[a] EXCEPT !.pc = "join"]
                                    ELSE IF a \in team THEN [go[a] EXCEPT !.pc = "model"]
                                    ELSE go[a]]
    /\ UNCHANGED <<connectorVars, status, tools, events, cancelFns, cancelled, handler,
                   adrift, missed, churn>>

JoinSome(r) == \E a \in SubAgents(r) : go[a].pc = "quit"   \* mutant: the first is enough

JoinLucky(r) ==                                \* mutant: one that fails is not counted off
    \A a \in SubAgents(r) : go[a].pc = "none" \/ (go[a].pc = "quit" /\ go[a].result = "ok")

JoinAll(r) == \A a \in SubAgents(r) : go[a].pc \in {"none", "quit"}

JoinAgents(r) ==
    /\ go[Main(r)].pc = "join"
    /\ JoinAll(r)
    /\ \E result \in {"ok", "error"} : Answered(Main(r), result)
    /\ UNCHANGED <<connectorVars, status, tools, events, cancelled, handler,
                   adrift, missed, churn>>

(* The loop that polls the task: it finds it over or gone, or time is up,  *)
(* or it cannot read it and does not look again.                           *)
PollTask(a) ==
    /\ go[a].pc = "wait"
    /\ \/ /\ task[Call(a)] \notin Open
          /\ Answered(a, IF task[Call(a)] = "completed" THEN "ok" ELSE "error")
          /\ UNCHANGED missed
       \/ task[Call(a)] \in Open /\ StepTo(a, "expire") /\ UNCHANGED missed
       \/ Answered(a, "error") /\ Miss(a)
    /\ UNCHANGED <<connectorVars, status, tools, events, cancelled, handler, adrift, churn>>

ForgetTask(a) == UNCHANGED connectorVars       \* mutant: the row stays open

GiveUpTask(a) == ExpireTask(Call(a))

ExpireCall(a) ==
    /\ go[a].pc = "expire"
    /\ \/ GiveUpTask(a) /\ UNCHANGED missed
       \/ UNCHANGED connectorVars /\ Miss(a)
    /\ Answered(a, "error")
    /\ UNCHANGED <<status, tools, events, cancelled, handler, adrift, churn>>

CheckClosing(a) ==
    /\ go[a].pc = "closing"
    /\ \/ StepTo(a, Checked(a, "close")) /\ UNCHANGED missed
       \/ StepTo(a, AfterError(a)) /\ Miss(a)
    /\ UNCHANGED <<connectorVars, status, tools, events, cancelled, handler, adrift, churn>>

ClosedCall(a) == Shown(a, go[a].result)

(* The last round's answer ends the run, or the agent, all the same.       *)
NextRound(a) ==
    IF go[a].round = MaxRounds
    THEN [go[a] EXCEPT !.pc = AfterText(a)]
    ELSE [go[a] EXCEPT !.pc = IF IsMain(a) THEN "round" ELSE "model", !.round = @ + 1]

RecordClosed(a) ==
    /\ go[a].pc = "close"
    /\ \/ /\ status[RunOf(a)] # "deleted"
          /\ tools' = ClosedCall(a)
          /\ go' = [go EXCEPT ![a] = NextRound(a)]
          /\ UNCHANGED <<cancelFns, missed>>
       \/ /\ status[RunOf(a)] = "deleted"
          /\ StepTo(a, AfterError(a))
          /\ UNCHANGED <<tools, missed>>
       \/ /\ status[RunOf(a)] # "deleted"
          /\ tools' \in {tools, ClosedCall(a)}
          /\ StepTo(a, AfterError(a))
          /\ Miss(a)
    /\ UNCHANGED <<connectorVars, status, events, cancelled, handler, adrift, churn>>

EndAnyway(r) == status[r] # "deleted"          \* mutant: the status is not in the WHERE

MayEnd(r) == IsActive(r)

(* The error of the transaction is dropped.                                *)
EndAs(r, end, pc) ==
    /\ \/ MayEnd(r) /\ status' = [status EXCEPT ![r] = end] /\ StepTo(Main(r), pc)
          /\ UNCHANGED adrift
       \/ ~MayEnd(r) /\ StepTo(Main(r), "quit") /\ UNCHANGED <<status, adrift>>
       \/ LeaveAdrift(r)
    /\ UNCHANGED <<connectorVars, tools, events, cancelled, handler, missed, churn>>

FinishRun(r) == go[Main(r)].pc = "finish" /\ EndAs(r, "completed", "done")

FailRun(r) == go[Main(r)].pc = "fail" /\ EndAs(r, "failed", "error")

(* So is that of the event.                                                *)
AnnounceEnd(r) ==
    LET a == Main(r) IN
    /\ go[a].pc \in {"done", "error"}
    /\ \/ events' = [events EXCEPT ![r] = Append(@, go[a].pc)] /\ UNCHANGED adrift
       \/ adrift' = adrift \cup {r} /\ UNCHANGED events
    /\ StepTo(a, "quit")
    /\ UNCHANGED <<connectorVars, status, tools, cancelled, handler, missed, churn>>

(* What the run's own goroutine does, and what every agent does.           *)
Lead(r) ==
    \/ Register(r) \/ StartRun(r) \/ BeginRound(r) \/ StartAgents(r) \/ JoinAgents(r)
    \/ FinishRun(r) \/ FailRun(r) \/ AnnounceEnd(r)

Work(a) ==
    \/ AskModel(a) \/ PrepareTool(a) \/ CheckOpening(a) \/ RecordOpen(a) \/ CreateAutoTask(a)
    \/ CallOther(a) \/ PollTask(a) \/ ExpireCall(a) \/ CheckClosing(a) \/ RecordClosed(a)

-----------------------------------------------------------------------------
(* Everybody else.                                                         *)

Intervene == churn < MaxChurn /\ churn' = churn + 1

(* Rows stay as they are: nothing looks for runs that were active.         *)
Crash ==
    /\ go' = [a \in Agents |-> IF go[a].pc \in {"none", "quit"} THEN go[a]
                               ELSE [go[a] EXCEPT !.pc = "dead"]]
    /\ handler' = [h \in Handlers |-> Idle]
    /\ cancelFns' = {}
    /\ cancelled' = {}
    /\ Intervene
    /\ UNCHANGED <<connectorVars, status, tools, events, adrift, missed>>

(* The rows of the session go; goroutines and connector tasks stay.        *)
DeleteSession ==
    /\ status' = [r \in Runs |-> IF status[r] = "absent" THEN "absent" ELSE "deleted"]
    /\ tools' = [k \in Calls |-> "none"]
    /\ events' = [r \in Runs |-> <<>>]
    /\ Intervene
    /\ UNCHANGED <<connectorVars, go, cancelFns, cancelled, handler, adrift, missed>>

RemoveDevice == DeleteDevice /\ Intervene /\
    UNCHANGED <<status, tools, events, go, cancelFns, cancelled, handler, adrift, missed>>

ChatNext ==
    \/ \E h \in Handlers, r \in Runs : BeginStop(h, r) \/ BeginSend(h, r)
    \/ \E h \in Handlers : Handle(h)
    \/ \E r \in Runs : Lead(r)
    \/ \E a \in Agents : Work(a)
    \/ DeviceNext /\ UNCHANGED runVars
    \/ Crash \/ DeleteSession \/ RemoveDevice

ChatSpec == ChatInit /\ [][ChatNext]_vars

(* Goroutines run; a model, a tool and a wait end, by their time-outs, and *)
(* so does the wait for the lock of an agent, whose holder waits for none. *)
ChatFairSpec ==
    /\ ChatSpec
    /\ \A r \in Runs : WF_vars(Lead(r))
    /\ \A a \in Agents : WF_vars(Work(a))
    /\ \A h \in Handlers : WF_vars(Handle(h))

-----------------------------------------------------------------------------
(* Properties.                                                             *)

(* What the session promises, with a deleted run's log taken as empty: one *)
(* active run at a time, one end for every run, though the goroutine and a *)
(* stop race for it, and one closing event that agrees with the row.       *)
Life == INSTANCE RunLife WITH
          outcome <- [r \in Runs |-> IF status[r] = "deleted" THEN <<>> ELSE events[r]]

ImplementsRunLife == Life!RunLifeSpec

(* A session has one active run, though messages are sent concurrently and *)
(* each of them interrupts and creates in separate steps.                  *)
OneActiveRun == \A r, s \in Runs : IsActive(r) /\ IsActive(s) => r = s

(* A goroutine that has ended leaves no work for the device, but for a     *)
(* call of which a statement failed, and for one more case: the approval   *)
(* it had asked for when it found the run gone, and had not shown yet.     *)
LeftoverTasks ==
    \A k \in Calls :
      go[k[1]].pc = "quit" /\ task[k] \in Open =>
        \/ k \in missed
        \/ /\ status[RunOf(k[1])] \in {"cancelled", "deleted"}
           /\ k \in sensitive /\ tools[k] = "none"

(* A run that ended by itself shows no tool call, its own or a sub-agent's,*)
(* as still going on, unless a statement of that call failed.              *)
NoCallLeftOpen ==
    \A k \in Calls :
      status[RunOf(k[1])] \in {"completed", "failed"} =>
        tools[k] \in {"none", "ok", "error"} \/ k \in missed

(* An active run ends and its log says how, unless the process dies, a     *)
(* session or a device is deleted, or the very statement fails that starts *)
(* the run, ends it or writes its closing event.                           *)
RunsEnd ==
    \A r \in Runs :
      IsActive(r) ~>
        (churn > 0 \/ r \in adrift \/ (status[r] \in Ended /\ events[r] # <<>>))
=============================================================================
