--------------------------- MODULE ChatRunProofs ---------------------------
(* Theorems about ChatRun, for every value of its constants.               *)
EXTENDS ChatRun, TLAPS

(* What an agent does from the first answer of its model on.               *)
Working == {"model", "tool", "opening", "open", "create", "call", "wait", "expire",
            "closing", "close"}

(* What a run's goroutine does between the start of its run and its end.   *)
Middle == Working \cup {"round", "join", "finish", "fail"}

(* The row and the log as the goroutine knows them.                        *)
GoroutinesKnow ==
    \A r \in Runs :
      LET pc == go[Main(r)].pc IN
      /\ status[r] = "absent" => pc = "none"
      /\ status[r] \in Active \cup {"absent"} => events[r] = <<>>
      /\ pc \in Middle => status[r] # "queued"
      /\ pc = "done" => status[r] = "deleted" \/ (status[r] = "completed" /\ events[r] = <<>>)
      /\ pc = "error" => status[r] = "deleted" \/ (status[r] = "failed" /\ events[r] = <<>>)

(* A sub-agent works only while its run's goroutine waits for it.          *)
AgentsKnow ==
    \A a \in Agents :
      LET pc == go[a].pc
          lead == go[Main(RunOf(a))].pc
      IN
      IsMain(a) \/ pc \in {"none", "quit"} \/ (pc \in Working /\ lead = "join")
                \/ (pc = "dead" /\ lead = "dead")

Stopping(h) == handler[h].pc \in {"signal", "announce"}

(* What a request knows of the run it stops and of the run it will create. *)
HandlersKnow ==
    \A h \in Handlers :
      /\ handler[h].pc \in {"stop", "signal", "announce"} =>
           handler[h].run \in Runs /\ status[handler[h].run] # "absent"
      /\ handler[h].pc = "create" => handler[h].next \in Runs
      /\ handler[h].next # NoRun => status[handler[h].next] = "absent"
      /\ Stopping(h) => \/ status[handler[h].run] = "deleted"
                        \/ status[handler[h].run] = "cancelled" /\ events[handler[h].run] = <<>>

(* No two requests have stopped the same run, or create the same run.      *)
HandlersApart ==
    \A g, h \in Handlers :
      g # h =>
        /\ handler[g].next # NoRun => handler[g].next # handler[h].next
        /\ Stopping(g) /\ Stopping(h) /\ handler[g].run = handler[h].run =>
             status[handler[g].run] = "deleted"

LifeInv ==
    /\ RunTypeOK
    /\ OneActiveRun
    /\ GoroutinesKnow
    /\ AgentsKnow
    /\ HandlersKnow
    /\ HandlersApart

-----------------------------------------------------------------------------
(* Agents, and their steps as updates of their records.                    *)

LEMMA AgentOfRun ==
    /\ \A r \in Runs : Main(r) \in Agents /\ RunOf(Main(r)) = r /\ IsMain(Main(r))
    /\ \A a \in Agents : RunOf(a) \in Runs /\ (IsMain(a) => a = Main(RunOf(a)))
    /\ \A a \in Agents, n \in 1 .. MaxRounds : <<a, n>> \in Calls
    /\ \A k \in Calls : k[1] \in Agents /\ k[2] \in 1 .. MaxRounds /\ k = <<k[1], k[2]>>
BY RoundsAssumption DEF Agents, Main, RunOf, IsMain, Calls

LEMMA StepOfGoroutine ==
    ASSUME RunTypeOK, NEW a \in Agents, NEW pc \in Steps, StepTo(a, pc)
    PROVE  /\ go' \in [Agents -> Goroutine]
           /\ go'[a].pc = pc /\ go'[a].round = go[a].round
           /\ \A b \in Agents : b # a => go'[b] = go[b]
           /\ cancelFns' \subseteq Runs
<1>1. go \in [Agents -> Goroutine] /\ cancelFns \subseteq Runs
  BY DEF RunTypeOK
<1> DEFINE new == [go[a] EXCEPT !.pc = pc]
<1>2. new \in Goroutine /\ new.pc = pc /\ new.round = go[a].round
  BY <1>1 DEF Goroutine
<1>3. go' = [go EXCEPT ![a] = new]
  BY DEF StepTo
<1>4. cancelFns' \subseteq Runs
  BY <1>1 DEF StepTo
<1> HIDE DEF new
<1> QED
  BY <1>1, <1>2, <1>3, <1>4

LEMMA AnswerOfGoroutine ==
    ASSUME RunTypeOK, NEW a \in Agents, NEW result \in {"ok", "error"}, Answered(a, result)
    PROVE  /\ go' \in [Agents -> Goroutine]
           /\ go'[a].pc = "closing" /\ go'[a].round = go[a].round
           /\ \A b \in Agents : b # a => go'[b] = go[b]
           /\ cancelFns' \subseteq Runs
<1>1. go \in [Agents -> Goroutine] /\ cancelFns \subseteq Runs
  BY DEF RunTypeOK
<1> DEFINE word == "closing"
           new == [go[a] EXCEPT !.pc = word, !.result = result]
<1>2. word \in Steps /\ word = "closing" /\ result \in {"none", "ok", "error"}
  BY DEF Steps
<1>3. go' = [go EXCEPT ![a] = new] /\ cancelFns' = cancelFns
  BY DEF Answered
<1> HIDE DEF word
<1>4. new \in Goroutine /\ new.pc = word /\ new.round = go[a].round
  BY <1>1, <1>2 DEF Goroutine
<1> HIDE DEF new
<1> QED
  BY <1>1, <1>2, <1>3, <1>4

(* Where an agent goes after an answer, and after the last one.            *)
After(a) == IF IsMain(a) THEN {"round", "finish"} ELSE {"model", "quit"}

LEMMA RoundOfGoroutine ==
    ASSUME RunTypeOK, NEW a \in Agents
    PROVE  /\ NextRound(a) \in Goroutine
           /\ NextRound(a).pc \in After(a)
           /\ NextRound(a).round \in {go[a].round, go[a].round + 1}
           /\ NextRound(a).round = go[a].round => NextRound(a).pc = AfterText(a)
<1> DEFINE last == AfterText(a)
           again == IF IsMain(a) THEN "round" ELSE "model"
           n == go[a].round + 1
<1>1. last \in Steps /\ again \in Steps /\ last \in After(a) /\ again \in After(a)
  BY DEF Steps, AfterText, After
<1>2. go[a] \in Goroutine /\ go[a].round \in 1 .. MaxRounds
  BY DEF RunTypeOK, Goroutine
<1>3. CASE go[a].round = MaxRounds
  <2>1. NextRound(a) = [go[a] EXCEPT !.pc = last]
    BY <1>3 DEF NextRound
  <2> HIDE DEF last
  <2>2. NextRound(a) \in Goroutine /\ NextRound(a).pc = last /\ NextRound(a).round = go[a].round
    BY <1>1, <1>2, <2>1 DEF Goroutine
  <2> QED
    BY <1>1, <2>2 DEF last
<1>4. CASE go[a].round # MaxRounds
  <2>1. NextRound(a) = [go[a] EXCEPT !.pc = again, !.round = n]
    BY <1>4 DEF NextRound
  <2>2. n \in 1 .. MaxRounds /\ n = go[a].round + 1 /\ n # go[a].round
    BY <1>2, <1>4, RoundsAssumption
  <2> HIDE DEF again, n
  <2>3. NextRound(a) \in Goroutine /\ NextRound(a).pc = again /\ NextRound(a).round = n
    BY <1>1, <1>2, <2>1, <2>2 DEF Goroutine
  <2> QED
    BY <1>1, <2>2, <2>3
<1> QED
  BY <1>3, <1>4

-----------------------------------------------------------------------------
(* Steps of a goroutine that touch neither its row nor its log.            *)

(* Where a run's goroutine may be after such a step that starts at pc.     *)
Later(pc) ==
    IF pc = "spawned" THEN {"registered", "quit"}
    ELSE IF pc \in Middle THEN (Middle \ {"join"}) \cup {"quit"} ELSE {"quit"}

(* How the histories may change: an agent that does not step, its calls.   *)
HistoryStep ==
    /\ adrift' \in SUBSET Runs
    /\ missed' \in SUBSET Calls /\ missed \subseteq missed'

LEMMA QuietStep ==
    ASSUME LifeInv, NEW a \in Agents, HistoryStep,
           UNCHANGED <<status, events, cancelled, handler, churn>>,
           go' \in [Agents -> Goroutine],
           IsMain(a) => /\ go'[a].pc \in Later(go[a].pc)
                        /\ go[a].pc \notin {"none", "dead"}
                        /\ go[a].pc = "join" => JoinAll(RunOf(a)),
           ~IsMain(a) => go[a].pc \in Working /\ go'[a].pc \in Working \cup {"quit"},
           \A b \in Agents : b # a => go'[b] = go[b],
           cancelFns' \subseteq Runs,
           tools' \in [Calls -> ToolStatus]
    PROVE  LifeInv'
<1>1. RunTypeOK'
  BY DEF LifeInv, RunTypeOK, HistoryStep
<1>2. OneActiveRun' /\ HandlersKnow' /\ HandlersApart'
  BY DEF LifeInv, OneActiveRun, IsActive, HandlersKnow, HandlersApart, Stopping
<1>3. GoroutinesKnow'
  <2> SUFFICES ASSUME NEW r \in Runs
               PROVE  LET pc == go'[Main(r)].pc IN
                      /\ status[r] = "absent" => pc = "none"
                      /\ status[r] \in Active \cup {"absent"} => events[r] = <<>>
                      /\ pc \in Middle => status[r] # "queued"
                      /\ pc = "done" => status[r] = "deleted" \/ (status[r] = "completed" /\ events[r] = <<>>)
                      /\ pc = "error" => status[r] = "deleted" \/ (status[r] = "failed" /\ events[r] = <<>>)
    BY DEF GoroutinesKnow
  <2>1. CASE Main(r) = a
    <3>1. go'[a].pc \notin {"none", "done", "error"}
          /\ (go'[a].pc \in Middle => go[a].pc \in Middle)
      BY <2>1, AgentOfRun DEF Later, Middle, Working
    <3> QED
      BY <2>1, <3>1, AgentOfRun DEF LifeInv, GoroutinesKnow
  <2>2. CASE Main(r) # a
    BY <2>2, AgentOfRun DEF LifeInv, GoroutinesKnow
  <2> QED
    BY <2>1, <2>2
<1>4. AgentsKnow'
  <2> SUFFICES ASSUME NEW b \in Agents, ~IsMain(b)
               PROVE  LET pc == go'[b].pc
                          lead == go'[Main(RunOf(b))].pc
                      IN
                      pc \in {"none", "quit"} \/ (pc \in Working /\ lead = "join")
                        \/ (pc = "dead" /\ lead = "dead")
    BY DEF AgentsKnow
  <2>1. \/ go[b].pc \in {"none", "quit"}
        \/ go[b].pc \in Working /\ go[Main(RunOf(b))].pc = "join"
        \/ go[b].pc = "dead" /\ go[Main(RunOf(b))].pc = "dead"
    BY DEF LifeInv, AgentsKnow
  <2>2. Main(RunOf(b)) \in Agents /\ IsMain(Main(RunOf(b))) /\ RunOf(b) \in Runs
    BY AgentOfRun
  <2>3. CASE b = a
    <3>1. go'[Main(RunOf(b))] = go[Main(RunOf(b))]
      BY <2>2, <2>3
    <3> QED
      BY <2>1, <2>3, <3>1 DEF Working
  <2>4. CASE b # a /\ Main(RunOf(b)) # a
    BY <2>1, <2>2, <2>4
  <2>5. CASE b # a /\ Main(RunOf(b)) = a
    <3>1. go[a].pc = "join" => go[b].pc \in {"none", "quit"}
      BY <2>2, <2>5, AgentOfRun DEF JoinAll, SubAgents
    <3> QED
      BY <2>1, <2>2, <2>5, <3>1
  <2> QED
    BY <2>3, <2>4, <2>5
<1> QED
  BY <1>1, <1>2, <1>3, <1>4 DEF LifeInv

LEMMA MiddleSteps ==
    Middle \cup {"none", "quit", "dead", "registered", "done", "error"} \subseteq Steps
BY DEF Middle, Working, Steps

(* Where an agent goes from its work.                                      *)
Onward(a) == Working \cup {"quit"} \cup (IF IsMain(a) THEN {"round", "finish", "fail"} ELSE {})

LEMMA OnwardSteps ==
    ASSUME NEW a \in Agents
    PROVE  /\ Onward(a) \subseteq Steps /\ "quit" \in Onward(a)
           /\ AfterError(a) \in Onward(a) /\ AfterText(a) \in Onward(a)
           /\ After(a) \subseteq Onward(a)
           /\ \A pc \in Onward(a) : Checked(a, pc) \in Onward(a)
           /\ Working \subseteq Onward(a)
BY DEF Onward, AfterError, AfterText, After, Checked, Working, Steps

LEMMA WorkStep ==
    ASSUME LifeInv, NEW a \in Agents, HistoryStep,
           UNCHANGED <<status, events, cancelled, handler, churn>>,
           go[a].pc \in Working, go'[a].pc \in Onward(a),
           go' \in [Agents -> Goroutine],
           \A b \in Agents : b # a => go'[b] = go[b],
           cancelFns' \subseteq Runs,
           tools' \in [Calls -> ToolStatus]
    PROVE  LifeInv'
<1>1. IsMain(a) => /\ go'[a].pc \in Later(go[a].pc)
                   /\ go[a].pc \notin {"none", "dead", "join"}
  BY DEF Later, Onward, Middle, Working
<1>2. ~IsMain(a) => go'[a].pc \in Working \cup {"quit"}
  BY DEF Onward
<1> QED
  BY <1>1, <1>2, QuietStep

LEMMA CallOfRun ==
    ASSUME RunTypeOK, NEW a \in Agents
    PROVE  /\ Call(a) \in Calls /\ go[a] \in Goroutine /\ go[a].round \in 1 .. MaxRounds
           /\ Call(a) = <<a, go[a].round>>
<1>1. go[a] \in Goroutine
  BY DEF RunTypeOK
<1> QED
  BY <1>1, AgentOfRun DEF Goroutine, Call

(* One step to a place further on.                                         *)
LEMMA MoveStep ==
    ASSUME LifeInv, NEW a \in Agents, HistoryStep, NEW pc \in Onward(a), StepTo(a, pc),
           go[a].pc \in Working,
           UNCHANGED <<status, events, cancelled, handler, churn>>,
           tools' \in [Calls -> ToolStatus]
    PROVE  LifeInv'
<1>1. RunTypeOK /\ pc \in Steps
  BY OnwardSteps DEF LifeInv
<1> QED
  BY <1>1, StepOfGoroutine, WorkStep

LEMMA AnswerStep ==
    ASSUME LifeInv, NEW a \in Agents, HistoryStep,
           NEW result \in {"ok", "error"}, Answered(a, result), go[a].pc \in Working,
           UNCHANGED <<status, events, cancelled, handler, churn>>,
           tools' \in [Calls -> ToolStatus]
    PROVE  LifeInv'
<1>1. RunTypeOK /\ "closing" \in Onward(a)
  BY DEF LifeInv, Onward, Working
<1> QED
  BY <1>1, AnswerOfGoroutine, WorkStep

LEMMA ToolTypes ==
    LifeInv => tools \in [Calls -> ToolStatus]
BY DEF LifeInv, RunTypeOK

LEMMA Histories ==
    /\ LifeInv /\ UNCHANGED <<adrift, missed>> => HistoryStep
    /\ \A a \in Agents : LifeInv /\ Miss(a) /\ UNCHANGED adrift => HistoryStep
    /\ \A r \in Runs : LifeInv /\ adrift' = adrift \cup {r} /\ UNCHANGED missed => HistoryStep
BY CallOfRun DEF LifeInv, RunTypeOK, HistoryStep, Miss

LEMMA RegisterPreserves ==
    ASSUME LifeInv, NEW r \in Runs, Register(r)
    PROVE  LifeInv'
<1>0. go \in [Agents -> Goroutine] /\ cancelFns \subseteq Runs /\ HistoryStep
  BY Histories DEF LifeInv, RunTypeOK, Register
<1> DEFINE a == Main(r)
           word == "registered"
           new == [go[a] EXCEPT !.pc = word]
<1>1. a \in Agents /\ RunOf(a) = r /\ IsMain(a)
  BY AgentOfRun
<1>2. word \in Steps /\ word = "registered"
  BY DEF Steps
<1>3. /\ go' = [go EXCEPT ![a] = new] /\ cancelFns' = cancelFns \cup {r}
      /\ go[a].pc = "spawned"
      /\ UNCHANGED <<status, tools, events, cancelled, handler, churn>>
  BY DEF Register
<1> HIDE DEF word, a
<1>4. new \in Goroutine /\ new.pc = word
  BY <1>0, <1>1, <1>2 DEF Goroutine
<1> HIDE DEF new
<1>5. /\ go' \in [Agents -> Goroutine] /\ go'[a].pc = word
      /\ \A b \in Agents : b # a => go'[b] = go[b]
      /\ cancelFns' \subseteq Runs
  BY <1>0, <1>1, <1>3, <1>4
<1>6. word \in Later(go[a].pc) /\ go[a].pc \notin {"none", "dead", "join"}
  BY <1>2, <1>3 DEF Later
<1> QED
  BY <1>0, <1>1, <1>3, <1>5, <1>6, ToolTypes, QuietStep

(* A step of the run's own goroutine outside its work.                     *)
LEMMA MainStep ==
    ASSUME LifeInv, NEW r \in Runs, HistoryStep, NEW pc, StepTo(Main(r), pc),
           pc \in Later(go[Main(r)].pc), go[Main(r)].pc \notin {"none", "dead", "join"},
           UNCHANGED <<status, tools, events, cancelled, handler, churn>>
    PROVE  LifeInv'
<1>1. Main(r) \in Agents /\ IsMain(Main(r)) /\ RunTypeOK
  BY AgentOfRun DEF LifeInv
<1>2. pc \in Steps
  BY MiddleSteps DEF Later
<1> QED
  BY <1>1, <1>2, ToolTypes, StepOfGoroutine, QuietStep

LEMMA RoundPreserves ==
    ASSUME LifeInv, NEW r \in Runs, BeginRound(r)
    PROVE  LifeInv'
<1>1. PICK pc : StepTo(Main(r), pc) /\ pc \in {"quit", "fail", Checked(Main(r), "model")}
  BY DEF BeginRound
<1>2. Main(r) \in Agents /\ IsMain(Main(r))
  BY AgentOfRun
<1>3. Checked(Main(r), "model") \in {"quit", "fail", "model"}
  BY <1>2 DEF Checked, AfterError
<1>4. go[Main(r)].pc = "round" /\ UNCHANGED <<status, tools, events, cancelled, handler, churn>>
  BY DEF BeginRound
<1>5. pc \in Later(go[Main(r)].pc) /\ HistoryStep
  BY <1>1, <1>3, <1>4, Histories DEF Later, Middle, Working, BeginRound
<1> QED
  BY <1>1, <1>4, <1>5, MainStep

(* The sub-agents.                                                         *)
LEMMA StartAgentsPreserves ==
    ASSUME LifeInv, NEW r \in Runs, StartAgents(r)
    PROVE  LifeInv'
<1> DEFINE m == Main(r)
           model == "model"
           join == "join"
<1>1. m \in Agents /\ IsMain(m) /\ go[m].pc = "call"
  BY AgentOfRun DEF StartAgents
<1>2. PICK team \in SUBSET {a \in SubAgents(r) : go[a].pc = "none"} :
        go' = [a \in Agents |-> IF a = m THEN [go[a] EXCEPT !.pc = join]
                                ELSE IF a \in team THEN [go[a] EXCEPT !.pc = model]
                                ELSE go[a]]
  BY DEF StartAgents
<1>3. /\ UNCHANGED <<status, tools, events, cancelFns, cancelled, handler, churn, adrift, missed>>
      /\ go \in [Agents -> Goroutine]
  BY DEF StartAgents, LifeInv, RunTypeOK
<1>4. \A a \in team : a \in Agents /\ ~IsMain(a) /\ RunOf(a) = r /\ go[a].pc = "none"
  BY <1>2 DEF SubAgents
<1>5. join \in Steps /\ model \in Steps /\ join = "join" /\ model = "model"
  BY DEF Steps
<1> HIDE DEF model, join, m
<1>6. \A a \in Agents :
        /\ go'[a] \in Goroutine
        /\ a = m => go'[a].pc = "join"
        /\ a # m /\ a \in team => go'[a].pc = "model"
        /\ a # m /\ a \notin team => go'[a] = go[a]
  BY <1>2, <1>3, <1>5 DEF Goroutine
<1>7. go' \in [Agents -> Goroutine]
  BY <1>2, <1>6
<1>8. RunTypeOK'
  BY <1>3, <1>7 DEF LifeInv, RunTypeOK
<1>9. OneActiveRun' /\ HandlersKnow' /\ HandlersApart'
  BY <1>3 DEF LifeInv, OneActiveRun, IsActive, HandlersKnow, HandlersApart, Stopping
<1>10. GoroutinesKnow'
  <2>1. ASSUME NEW s \in Runs
        PROVE  \/ go'[Main(s)] = go[Main(s)]
               \/ go'[Main(s)].pc = "join" /\ go[Main(s)].pc = "call"
    <3>1. Main(s) \in Agents /\ IsMain(Main(s))
      BY AgentOfRun
    <3>2. Main(s) \notin team
      BY <1>4, <3>1
    <3> QED
      BY <1>1, <1>6, <3>1, <3>2
  <2> QED
    BY <1>3, <2>1 DEF LifeInv, GoroutinesKnow, Middle, Working
<1>11. AgentsKnow'
  <2> SUFFICES ASSUME NEW b \in Agents, ~IsMain(b)
               PROVE  LET pc == go'[b].pc
                          lead == go'[Main(RunOf(b))].pc
                      IN
                      pc \in {"none", "quit"} \/ (pc \in Working /\ lead = "join")
                        \/ (pc = "dead" /\ lead = "dead")
    BY DEF AgentsKnow
  <2>1. \/ go[b].pc \in {"none", "quit"}
        \/ go[b].pc \in Working /\ go[Main(RunOf(b))].pc = "join"
        \/ go[b].pc = "dead" /\ go[Main(RunOf(b))].pc = "dead"
    BY DEF LifeInv, AgentsKnow
  <2>2. Main(RunOf(b)) \in Agents /\ IsMain(Main(RunOf(b))) /\ b # m
    BY <1>1, AgentOfRun
  <2>3. CASE b \in team
    <3>1. Main(RunOf(b)) = m
      BY <1>4, <2>3 DEF m
    <3> QED
      BY <1>1, <1>6, <2>2, <2>3, <3>1 DEF Working
  <2>4. CASE b \notin team
    <3>1. go'[b] = go[b] /\ Main(RunOf(b)) \notin team
      BY <1>4, <1>6, <2>2, <2>4
    <3>2. \/ go'[Main(RunOf(b))] = go[Main(RunOf(b))]
          \/ go[Main(RunOf(b))].pc = "call" /\ go'[Main(RunOf(b))].pc = "join"
      BY <1>1, <1>6, <2>2, <3>1
    <3> QED
      BY <2>1, <3>1, <3>2
  <2> QED
    BY <2>3, <2>4
<1> QED
  BY <1>8, <1>9, <1>10, <1>11 DEF LifeInv

LEMMA JoinPreserves ==
    ASSUME LifeInv, NEW r \in Runs, JoinAgents(r)
    PROVE  LifeInv'
<1>1. PICK result \in {"ok", "error"} : Answered(Main(r), result)
  BY DEF JoinAgents
<1>2. Main(r) \in Agents /\ IsMain(Main(r)) /\ RunOf(Main(r)) = r /\ RunTypeOK
  BY AgentOfRun DEF LifeInv
<1>3. /\ go[Main(r)].pc = "join" /\ JoinAll(r) /\ HistoryStep
      /\ UNCHANGED <<status, tools, events, cancelled, handler, churn>>
  BY Histories DEF JoinAgents
<1>4. "closing" \in Later(go[Main(r)].pc)
  BY <1>3 DEF Later, Middle, Working
<1> QED
  BY <1>1, <1>2, <1>3, <1>4, ToolTypes, AnswerOfGoroutine, QuietStep

(* Answers and tool calls.                                                 *)
LEMMA WorkPreserves ==
    ASSUME LifeInv, NEW a \in Agents, Work(a)
    PROVE  LifeInv'
<1>0. RunTypeOK /\ tools \in [Calls -> ToolStatus] /\ go[a] \in Goroutine /\ Call(a) \in Calls
  BY CallOfRun DEF LifeInv, RunTypeOK
<1>h. UNCHANGED adrift /\ (UNCHANGED missed \/ Miss(a)) => HistoryStep
  BY Histories
<1>a. /\ AfterError(a) \in Onward(a) /\ AfterText(a) \in Onward(a) /\ "quit" \in Onward(a)
      /\ \A pc \in Onward(a) : Checked(a, pc) \in Onward(a)
  BY OnwardSteps
<1>b. {"tool", "opening", "open", "wait", "create", "call", "expire", "close"} \subseteq Onward(a)
  BY DEF Onward, Working
<1>1. ASSUME go[a].pc \in Working, UNCHANGED <<status, events, cancelled, handler, churn, adrift>>,
             UNCHANGED missed \/ Miss(a), tools' \in [Calls -> ToolStatus],
             \/ \E pc \in Onward(a) : StepTo(a, pc)
             \/ \E result \in {"ok", "error"} : Answered(a, result)
      PROVE  LifeInv'
  BY <1>h, <1>1, MoveStep, AnswerStep
<1>2. CASE AskModel(a)
  <2>1. PICK pc : StepTo(a, pc) /\ pc \in {"quit", AfterError(a), AfterText(a), "tool",
                      Checked(a, AfterError(a)), Checked(a, "tool"), Checked(a, AfterText(a))}
    BY <1>2 DEF AskModel
  <2>2. pc \in Onward(a) /\ go[a].pc \in Working
    BY <1>2, <1>a, <1>b, <2>1 DEF AskModel, Working
  <2> QED
    BY <1>0, <1>1, <1>2, <2>1, <2>2 DEF AskModel
<1>3. CASE PrepareTool(a)
  BY <1>0, <1>1, <1>3, <1>b DEF PrepareTool, Working
<1>4. CASE CheckOpening(a)
  <2>1. \E pc \in Onward(a) : StepTo(a, pc)
    BY <1>4, <1>a, <1>b DEF CheckOpening
  <2> QED
    BY <1>0, <1>1, <1>4, <2>1 DEF CheckOpening, Working
<1>5. CASE RecordOpen(a)
  <2>1. tools' \in [Calls -> ToolStatus]
    <3>1. PICK word \in {"running", "approval_required", "error"} :
             tools' \in {tools, [tools EXCEPT ![Call(a)] = word]}
      BY <1>5 DEF RecordOpen, ShownOpen, Shown
    <3>2. word \in ToolStatus
      BY DEF ToolStatus
    <3> QED
      BY <1>0, <3>1, <3>2
  <2>2. \/ \E pc \in {"wait", "create", "call", AfterError(a)} : StepTo(a, pc)
        \/ Answered(a, "error")
    BY <1>5 DEF RecordOpen
  <2>3. \/ \E pc \in Onward(a) : StepTo(a, pc)
        \/ \E result \in {"ok", "error"} : Answered(a, result)
    BY <1>a, <1>b, <2>2
  <2> QED
    BY <1>1, <1>5, <2>1, <2>3 DEF RecordOpen, Working
<1>6. CASE CreateAutoTask(a)
  BY <1>0, <1>1, <1>6, <1>b DEF CreateAutoTask, Working
<1>7. CASE CallOther(a)
  BY <1>0, <1>1, <1>7 DEF CallOther, Working
<1>8. CASE PollTask(a)
  <2>1. StepTo(a, "expire") \/ \E result \in {"ok", "error"} : Answered(a, result)
    BY <1>8 DEF PollTask
  <2> QED
    BY <1>0, <1>1, <1>8, <1>b, <2>1 DEF PollTask, Working
<1>9. CASE ExpireCall(a)
  BY <1>0, <1>1, <1>9 DEF ExpireCall, Working
<1>10. CASE CheckClosing(a)
  <2>1. \E pc \in Onward(a) : StepTo(a, pc)
    BY <1>10, <1>a, <1>b DEF CheckClosing
  <2> QED
    BY <1>0, <1>1, <1>10, <2>1 DEF CheckClosing, Working
<1>11. CASE RecordClosed(a)
  <2>0. go[a].pc \in Working /\ UNCHANGED <<status, events, cancelled, handler, churn, adrift>>
        /\ (UNCHANGED missed \/ Miss(a))
    BY <1>11 DEF RecordClosed, Working
  <2>1. tools' \in [Calls -> ToolStatus]
    <3>1. go[a].result \in ToolStatus
      BY <1>0 DEF Goroutine, ToolStatus
    <3> QED
      BY <1>0, <1>11, <3>1 DEF RecordClosed, ClosedCall, Shown
  <2>2. CASE StepTo(a, AfterError(a))
    BY <1>1, <1>a, <2>0, <2>1, <2>2
  <2>3. CASE go' = [go EXCEPT ![a] = NextRound(a)] /\ UNCHANGED cancelFns
    <3>1. NextRound(a) \in Goroutine /\ NextRound(a).pc \in Onward(a)
      BY <1>0, RoundOfGoroutine, OnwardSteps
    <3>2. /\ go' \in [Agents -> Goroutine] /\ go'[a].pc \in Onward(a)
          /\ \A b \in Agents : b # a => go'[b] = go[b]
          /\ cancelFns' \subseteq Runs
      BY <1>0, <2>3, <3>1 DEF RunTypeOK
    <3> QED
      BY <1>h, <2>0, <2>1, <3>2, WorkStep
  <2> QED
    BY <1>11, <2>2, <2>3 DEF RecordClosed
<1> QED
  BY <1>2, <1>3, <1>4, <1>5, <1>6, <1>7, <1>8, <1>9, <1>10, <1>11 DEF Work

-----------------------------------------------------------------------------
(* The steps of a goroutine that change its row or its log.                *)

(* A statement failed, and the goroutine leaves the row as it is.          *)
LEMMA AdriftPreserves ==
    ASSUME LifeInv, NEW r \in Runs, LeaveAdrift(r),
           go[Main(r)].pc \in {"registered", "finish", "fail"},
           UNCHANGED <<tools, events, cancelled, handler, missed, churn>>
    PROVE  LifeInv'
<1>1. /\ StepTo(Main(r), "quit") /\ UNCHANGED status
      /\ HistoryStep
  BY Histories DEF LeaveAdrift
<1>2. "quit" \in Later(go[Main(r)].pc)
  BY DEF Later
<1> QED
  BY <1>1, <1>2, MainStep

LEMMA StartPreserves ==
    ASSUME LifeInv, NEW r \in Runs, StartRun(r)
    PROVE  LifeInv'
<1> DEFINE m == Main(r)
<1>1. RunTypeOK /\ go[m].pc = "registered"
      /\ UNCHANGED <<tools, events, cancelled, handler, missed, churn>>
  BY DEF LifeInv, StartRun
<1>m. m \in Agents /\ RunOf(m) = r /\ IsMain(m)
  BY AgentOfRun
<1>2. CASE status[r] # "queued" /\ StepTo(m, "quit") /\ UNCHANGED <<status, adrift>>
  <2>1. "quit" \in Later(go[m].pc) /\ HistoryStep
    BY <1>1, <1>2, Histories DEF Later, Middle
  <2> QED
    BY <1>1, <1>2, <2>1, MainStep
<1>3. CASE /\ status[r] = "queued" /\ status' = [status EXCEPT ![r] = "running"]
           /\ StepTo(m, "round") /\ UNCHANGED adrift
  <2>2. /\ go' \in [Agents -> Goroutine] /\ go'[m].pc = "round"
        /\ \A b \in Agents : b # m => go'[b] = go[b]
        /\ cancelFns' \subseteq Runs
    BY <1>1, <1>m, <1>3, StepOfGoroutine DEF Steps
  <2>3. /\ status'[r] = "running" /\ \A s \in Runs : s # r => status'[s] = status[s]
        /\ status' \in [Runs -> Active \cup Ended \cup {"absent", "deleted"}]
    BY <1>1, <1>3 DEF RunTypeOK, Active
  <2>4. RunTypeOK'
    BY <1>1, <1>3, <2>2, <2>3 DEF RunTypeOK
  <2>5. \A s \in Runs : status'[s] \in Active <=> status[s] \in Active
    BY <1>3, <2>3 DEF Active
  <2>6. OneActiveRun'
    BY <2>5 DEF LifeInv, OneActiveRun, IsActive
  <2>7. GoroutinesKnow'
    <3>1. \A s \in Runs : s # r => go'[Main(s)] = go[Main(s)]
      BY <2>2, AgentOfRun
    <3> QED
      BY <1>1, <1>3, <2>2, <2>3, <3>1 DEF LifeInv, GoroutinesKnow, Active
  <2>8. AgentsKnow'
    BY <1>1, <1>m, <2>2, AgentOfRun DEF LifeInv, AgentsKnow
  <2>9. HandlersKnow' /\ HandlersApart'
    <3>1. \A h \in Handlers : handler[h].next \in Runs \cup {NoRun}
                             /\ handler[h].run \in Runs \cup {NoRun}
      BY <1>1 DEF RunTypeOK, Handler
    <3> QED
      BY <1>1, <1>3, <2>3, <3>1, ChatAssumption
         DEF LifeInv, HandlersKnow, HandlersApart, Stopping
  <2> QED
    BY <2>4, <2>6, <2>7, <2>8, <2>9 DEF LifeInv
<1>4. CASE LeaveAdrift(r)
  BY <1>1, <1>4, AdriftPreserves
<1> QED
  BY <1>2, <1>3, <1>4 DEF StartRun

LEMMA EndPreserves ==
    ASSUME LifeInv, NEW r \in Runs, FinishRun(r) \/ FailRun(r)
    PROVE  LifeInv'
<1> DEFINE m == Main(r)
<1>1. PICK end, pc : /\ \/ end = "completed" /\ pc = "done"
                        \/ end = "failed" /\ pc = "error"
                     /\ EndAs(r, end, pc)
  BY DEF FinishRun, FailRun
<1>2. /\ RunTypeOK /\ go[m].pc \in {"finish", "fail"}
      /\ UNCHANGED <<tools, events, cancelled, handler, missed, churn>>
  BY DEF LifeInv, FinishRun, FailRun, EndAs
<1>m. m \in Agents /\ RunOf(m) = r /\ IsMain(m)
  BY AgentOfRun
<1>3. CASE StepTo(m, "quit") /\ UNCHANGED <<status, adrift>>
  <2>1. "quit" \in Later(go[m].pc) /\ HistoryStep
    BY <1>2, <1>3, Histories DEF Later, Middle
  <2> QED
    BY <1>2, <1>3, <2>1, MainStep
<1>4. CASE MayEnd(r) /\ status' = [status EXCEPT ![r] = end] /\ StepTo(m, pc) /\ UNCHANGED adrift
  <2>2. pc \in Steps /\ pc \in {"done", "error"}
    BY <1>1 DEF Steps
  <2>3. /\ go' \in [Agents -> Goroutine] /\ go'[m].pc = pc
        /\ \A b \in Agents : b # m => go'[b] = go[b]
        /\ cancelFns' \subseteq Runs
    BY <1>2, <1>4, <1>m, <2>2, StepOfGoroutine
  <2>4. /\ status'[r] = end /\ \A s \in Runs : s # r => status'[s] = status[s]
        /\ status' \in [Runs -> Active \cup Ended \cup {"absent", "deleted"}]
    BY <1>1, <1>2, <1>4 DEF RunTypeOK, Ended
  <2>5. RunTypeOK'
    BY <1>2, <1>4, <2>3, <2>4 DEF RunTypeOK
  <2>6. OneActiveRun'
    BY <1>1, <2>4 DEF LifeInv, OneActiveRun, IsActive, Active
  <2>7. events[r] = <<>> /\ status[r] \in Active
    BY <1>4 DEF MayEnd, IsActive, LifeInv, GoroutinesKnow
  <2>8. GoroutinesKnow'
    <3>1. \A s \in Runs : s # r => go'[Main(s)] = go[Main(s)]
      BY <2>3, AgentOfRun
    <3> QED
      BY <1>1, <1>2, <2>3, <2>4, <2>7, <3>1 DEF LifeInv, GoroutinesKnow, Active, Middle, Working
  <2>9. AgentsKnow'
    BY <1>2, <1>m, <2>3, AgentOfRun DEF LifeInv, AgentsKnow
  <2>10. HandlersKnow' /\ HandlersApart'
    <3>1. \A h \in Handlers : handler[h].next \in Runs \cup {NoRun}
                             /\ handler[h].run \in Runs \cup {NoRun}
      BY <1>2 DEF RunTypeOK, Handler
    <3> QED
      BY <1>1, <1>2, <2>4, <2>7, <3>1, ChatAssumption
         DEF LifeInv, HandlersKnow, HandlersApart, Stopping, Active
  <2> QED
    BY <2>5, <2>6, <2>8, <2>9, <2>10 DEF LifeInv
<1>5. CASE LeaveAdrift(r)
  BY <1>2, <1>5, AdriftPreserves
<1> QED
  BY <1>1, <1>3, <1>4, <1>5 DEF EndAs

LEMMA AnnouncePreserves ==
    ASSUME LifeInv, NEW r \in Runs, AnnounceEnd(r)
    PROVE  LifeInv'
<1> DEFINE m == Main(r)
<1>1. /\ RunTypeOK /\ go[m].pc \in {"done", "error"} /\ StepTo(m, "quit")
      /\ UNCHANGED <<status, tools, cancelled, handler, missed, churn>>
  BY DEF LifeInv, AnnounceEnd
<1>m. m \in Agents /\ RunOf(m) = r /\ IsMain(m)
  BY AgentOfRun
<1>2. CASE adrift' = adrift \cup {r} /\ UNCHANGED events
  <2>1. "quit" \in Later(go[m].pc) /\ HistoryStep
    BY <1>1, <1>2, Histories DEF Later, Middle
  <2> QED
    BY <1>1, <1>2, <2>1, MainStep
<1>3. CASE events' = [events EXCEPT ![r] = Append(@, go[m].pc)] /\ UNCHANGED adrift
  <2>2. /\ go' \in [Agents -> Goroutine] /\ go'[m].pc = "quit"
        /\ \A b \in Agents : b # m => go'[b] = go[b]
        /\ cancelFns' \subseteq Runs
    BY <1>1, <1>m, StepOfGoroutine DEF Steps
  <2>3. /\ events' \in [Runs -> Seq({"done", "error", "cancelled"})]
        /\ \A s \in Runs : s # r => events'[s] = events[s]
    <3>1. events \in [Runs -> Seq({"done", "error", "cancelled"})]
      BY <1>1 DEF RunTypeOK
    <3>2. Append(events[r], go[m].pc) \in Seq({"done", "error", "cancelled"})
      BY <1>1, <3>1
    <3> QED
      BY <1>3, <3>1, <3>2
  <2>4. status[r] \in {"deleted", "completed", "failed"}
    BY <1>1 DEF LifeInv, GoroutinesKnow
  <2>5. RunTypeOK'
    BY <1>1, <1>3, <2>2, <2>3 DEF RunTypeOK
  <2>6. OneActiveRun' /\ HandlersApart'
    BY <1>1 DEF LifeInv, OneActiveRun, IsActive, HandlersApart, Stopping
  <2>7. GoroutinesKnow'
    <3>1. \A s \in Runs : s # r => go'[Main(s)] = go[Main(s)]
      BY <2>2, AgentOfRun
    <3> QED
      BY <1>1, <2>2, <2>3, <2>4, <3>1 DEF LifeInv, GoroutinesKnow, Active, Middle, Working
  <2>8. AgentsKnow'
    BY <1>1, <1>m, <2>2, AgentOfRun DEF LifeInv, AgentsKnow
  <2>9. HandlersKnow'
    <3> SUFFICES ASSUME NEW h \in Handlers, Stopping(h)
                 PROVE  \/ status[handler[h].run] = "deleted"
                        \/ status[handler[h].run] = "cancelled" /\ events'[handler[h].run] = <<>>
      BY <1>1 DEF LifeInv, HandlersKnow, Stopping
    <3>1. handler[h].run \in Runs
      BY DEF LifeInv, HandlersKnow, Stopping
    <3> QED
      BY <3>1, <2>3, <2>4 DEF LifeInv, HandlersKnow
  <2> QED
    BY <2>5, <2>6, <2>7, <2>8, <2>9 DEF LifeInv
<1> QED
  BY <1>2, <1>3 DEF AnnounceEnd

LEMMA LeadPreserves ==
    ASSUME LifeInv, NEW r \in Runs, Lead(r)
    PROVE  LifeInv'
BY RegisterPreserves, StartPreserves, RoundPreserves, StartAgentsPreserves, JoinPreserves,
   EndPreserves, AnnouncePreserves DEF Lead

-----------------------------------------------------------------------------
(* The requests.                                                           *)

LEMMA IdleRequest == Idle \in Handler /\ Idle.next = NoRun /\ Idle.pc = "idle"
BY DEF Idle, Handler

LEMMA RequestAfterStop ==
    ASSUME NEW q \in Handler
    PROVE  /\ AfterStop(q) \in Handler
           /\ AfterStop(q).next # NoRun => AfterStop(q).next = q.next
           /\ AfterStop(q).pc \in {"idle", "create"}
           /\ AfterStop(q).pc = "create" => AfterStop(q).next \in Runs
<1>1. CASE AfterStop(q) = Idle
  BY <1>1, IdleRequest
<1>2. CASE q.next # NoRun /\ AfterStop(q) # Idle
  <2> DEFINE word == "create"
  <2>1. AfterStop(q) = [q EXCEPT !.pc = word, !.run = NoRun]
    BY <1>2 DEF AfterStop
  <2>2. word \in {"idle", "stop", "signal", "announce", "create"} /\ word = "create"
    OBVIOUS
  <2> HIDE DEF word
  <2> QED
    BY <1>2, <2>1, <2>2 DEF Handler
<1> QED
  BY <1>1, <1>2 DEF AfterStop

LEMMA RequestMoves ==
    ASSUME NEW q \in Handler, NEW word \in {"signal", "announce"}
    PROVE  /\ [q EXCEPT !.pc = word] \in Handler
           /\ [q EXCEPT !.pc = word].pc = word
           /\ [q EXCEPT !.pc = word].run = q.run
           /\ [q EXCEPT !.pc = word].next = q.next
BY DEF Handler

LEMMA StepOfHandler ==
    ASSUME RunTypeOK, NEW h \in Handlers, NEW q \in Handler,
           handler' = [handler EXCEPT ![h] = q]
    PROVE  /\ handler' \in [Handlers -> Handler]
           /\ handler'[h] = q
           /\ \A g \in Handlers : g # h => handler'[g] = handler[g]
BY DEF RunTypeOK

(* A request that only moves on.                                           *)
LEMMA RequestStep ==
    ASSUME LifeInv, NEW h \in Handlers, NEW q \in Handler,
           handler' = [handler EXCEPT ![h] = q],
           UNCHANGED <<status, events, go, tools, cancelFns, missed, churn>>,
           cancelled' \subseteq Runs, adrift' \subseteq Runs,
           q.pc \in {"stop", "signal", "announce"} => q.run \in Runs /\ status[q.run] # "absent",
           q.pc = "create" => q.next \in Runs,
           q.next # NoRun =>
             /\ status[q.next] = "absent"
             /\ \A g \in Handlers : g # h => handler[g].next # q.next,
           q.pc \in {"signal", "announce"} => Stopping(h) /\ q.run = handler[h].run
    PROVE  LifeInv'
<1>1. /\ handler' \in [Handlers -> Handler] /\ handler'[h] = q
      /\ \A g \in Handlers : g # h => handler'[g] = handler[g]
  BY StepOfHandler DEF LifeInv
<1>2. RunTypeOK'
  BY <1>1 DEF LifeInv, RunTypeOK
<1>3. OneActiveRun' /\ GoroutinesKnow' /\ AgentsKnow'
  BY DEF LifeInv, OneActiveRun, IsActive, GoroutinesKnow, AgentsKnow
<1>4. HandlersKnow'
  BY <1>1 DEF LifeInv, HandlersKnow, Stopping
<1>5. HandlersApart'
  BY <1>1 DEF LifeInv, HandlersApart, Stopping
<1> QED
  BY <1>2, <1>3, <1>4, <1>5 DEF LifeInv

LEMMA BeginPreserves ==
    ASSUME LifeInv, NEW h \in Handlers, NEW r \in Runs, BeginStop(h, r) \/ BeginSend(h, r)
    PROVE  LifeInv'
<1> DEFINE stop == "stop"
           create == "create"
<1>1. stop \in {"idle", "stop", "signal", "announce", "create"} /\ stop = "stop"
      /\ create \in {"idle", "stop", "signal", "announce", "create"} /\ create = "create"
  OBVIOUS
<1>2. cancelled \subseteq Runs /\ adrift \subseteq Runs /\ NoRun \notin Runs
  BY ChatAssumption DEF LifeInv, RunTypeOK
<1>3. CASE BeginStop(h, r)
  <2> DEFINE q == [pc |-> stop, run |-> r, next |-> NoRun]
  <2>1. handler' = [handler EXCEPT ![h] = q] /\ status[r] # "absent"
        /\ UNCHANGED <<status, events, go, tools, cancelFns, cancelled, adrift, missed, churn>>
    BY <1>3 DEF BeginStop, IsActive, Active
  <2> HIDE DEF stop
  <2>2. q \in Handler /\ q.pc = stop /\ q.run = r /\ q.next = NoRun
    BY <1>1 DEF Handler
  <2> HIDE DEF q
  <2> QED
    BY <1>1, <1>2, <2>1, <2>2, RequestStep
<1>4. CASE BeginSend(h, r)
  <2>1. /\ status[r] = "absent" /\ \A g \in Handlers : handler[g].next # r
        /\ UNCHANGED <<status, events, go, tools, cancelFns, cancelled, adrift, missed, churn>>
    BY <1>4 DEF BeginSend
  <2>2. CASE \E s \in Runs : /\ IsActive(s)
                             /\ handler' = [handler EXCEPT ![h] = [pc |-> stop, run |-> s, next |-> r]]
    <3>1. PICK s \in Runs : /\ IsActive(s)
                            /\ handler' = [handler EXCEPT ![h] = [pc |-> stop, run |-> s, next |-> r]]
      BY <2>2
    <3> DEFINE q == [pc |-> stop, run |-> s, next |-> r]
    <3>2. handler' = [handler EXCEPT ![h] = q] /\ status[s] # "absent"
      BY <3>1 DEF IsActive, Active
    <3> HIDE DEF stop
    <3>3. q \in Handler /\ q.pc = stop /\ q.run = s /\ q.next = r
      BY <1>1 DEF Handler
    <3> HIDE DEF q
    <3> QED
      BY <1>1, <1>2, <2>1, <3>2, <3>3, RequestStep
  <2>3. CASE handler' = [handler EXCEPT ![h] = [pc |-> create, run |-> NoRun, next |-> r]]
    <3> DEFINE q == [pc |-> create, run |-> NoRun, next |-> r]
    <3>1. handler' = [handler EXCEPT ![h] = q]
      BY <2>3
    <3> HIDE DEF create
    <3>2. q \in Handler /\ q.pc = create /\ q.next = r
      BY <1>1 DEF Handler
    <3> HIDE DEF q
    <3> QED
      BY <1>1, <1>2, <2>1, <3>1, <3>2, RequestStep
  <2> QED
    BY <1>4, <2>2, <2>3 DEF BeginSend
<1> QED
  BY <1>3, <1>4

LEMMA StopPreserves ==
    ASSUME LifeInv, NEW h \in Handlers, StopRun(h)
    PROVE  LifeInv'
<1> DEFINE q == handler[h]
           r == q.run
<1>1. /\ RunTypeOK /\ q \in Handler /\ q.pc = "stop" /\ r \in Runs
      /\ UNCHANGED <<events, go, cancelFns, cancelled, adrift, missed, churn>>
  BY DEF LifeInv, RunTypeOK, HandlersKnow, StopRun
<1>2. q.next # NoRun => status[q.next] = "absent"
                       /\ \A g \in Handlers : g # h => handler[g].next # q.next
  BY DEF LifeInv, HandlersKnow, HandlersApart
<1>3. ASSUME NEW new \in {AfterStop(q), Idle}, handler' = [handler EXCEPT ![h] = new],
             UNCHANGED <<status, tools>>
      PROVE  LifeInv'
  <2>1. /\ new \in Handler
        /\ new.next # NoRun => new.next = q.next
        /\ new.pc \in {"idle", "create"}
        /\ new.pc = "create" => new.next \in Runs
    BY <1>1, <1>3, RequestAfterStop, IdleRequest
  <2>2. cancelled' \subseteq Runs /\ adrift' \subseteq Runs
    BY <1>1 DEF RunTypeOK
  <2> HIDE DEF q
  <2> QED
    BY <1>1, <1>2, <1>3, <2>1, <2>2, RequestStep
<1>4. CASE /\ IsActive(r) /\ status' = [status EXCEPT ![r] = "cancelled"]
           /\ tools' = CloseToolCalls(tools, r)
           /\ handler' = [handler EXCEPT ![h].pc = "signal"]
  <2> DEFINE new == [q EXCEPT !.pc = "signal"]
  <2>1. /\ status' = [status EXCEPT ![r] = "cancelled"]
        /\ tools' = CloseToolCalls(tools, r)
        /\ handler' = [handler EXCEPT ![h] = new]
    BY <1>4
  <2>2. new \in Handler /\ new.pc = "signal" /\ new.run = r /\ new.next = q.next
    BY <1>1, RequestMoves
  <2> HIDE DEF new
  <2>3. /\ handler' \in [Handlers -> Handler] /\ handler'[h] = new
        /\ \A g \in Handlers : g # h => handler'[g] = handler[g]
    BY <1>1, <2>1, <2>2, StepOfHandler
  <2>4. /\ status'[r] = "cancelled" /\ \A s \in Runs : s # r => status'[s] = status[s]
        /\ status' \in [Runs -> Active \cup Ended \cup {"absent", "deleted"}]
    BY <1>1, <2>1 DEF RunTypeOK, Ended
  <2>5. tools' \in [Calls -> ToolStatus]
    BY <1>1, <2>1 DEF RunTypeOK, CloseToolCalls, ToolStatus
  <2>6. RunTypeOK'
    BY <1>1, <2>3, <2>4, <2>5 DEF RunTypeOK
  <2>7. OneActiveRun'
    BY <2>4 DEF LifeInv, OneActiveRun, IsActive, Active
  <2>8. status[r] \in Active /\ events[r] = <<>>
    BY <1>1, <1>4 DEF IsActive, LifeInv, GoroutinesKnow
  <2>9. GoroutinesKnow'
    BY <1>1, <2>4, <2>8 DEF LifeInv, GoroutinesKnow, Active
  <2>a. AgentsKnow'
    BY <1>1 DEF LifeInv, AgentsKnow
  <2>10. \A g \in Handlers : handler[g].next \in Runs \cup {NoRun}
                           /\ handler[g].run \in Runs \cup {NoRun}
    BY <1>1 DEF RunTypeOK, Handler
  <2>11. HandlersKnow'
    BY <1>1, <1>2, <2>2, <2>3, <2>4, <2>8, <2>10, ChatAssumption
       DEF LifeInv, HandlersKnow, Stopping, Active
  <2>12. HandlersApart'
    <3>1. \A g \in Handlers : Stopping(g) => handler[g].run # r
      BY <2>8 DEF LifeInv, HandlersKnow, Stopping, Active
    <3> QED
      BY <1>1, <2>2, <2>3, <2>4, <2>10, <3>1 DEF LifeInv, HandlersKnow, HandlersApart, Stopping
  <2> QED
    BY <2>6, <2>7, <2>9, <2>a, <2>11, <2>12 DEF LifeInv
<1> QED
  BY <1>3, <1>4 DEF StopRun

LEMMA SignalPreserves ==
    ASSUME LifeInv, NEW h \in Handlers, SignalCancel(h)
    PROVE  LifeInv'
<1> DEFINE q == handler[h]
           new == [q EXCEPT !.pc = "announce"]
<1>1. /\ q \in Handler /\ q.pc = "signal" /\ handler' = [handler EXCEPT ![h] = new]
      /\ cancelled' = cancelled \cup ({q.run} \cap cancelFns)
      /\ cancelled \subseteq Runs /\ cancelFns \subseteq Runs
      /\ UNCHANGED <<status, events, go, tools, cancelFns, missed, churn>>
      /\ adrift' \subseteq Runs
  BY DEF LifeInv, RunTypeOK, SignalCancel
<1>2. new \in Handler /\ new.pc = "announce" /\ new.run = q.run /\ new.next = q.next
  BY <1>1, RequestMoves
<1>3. /\ Stopping(h) /\ q.run \in Runs /\ status[q.run] # "absent"
      /\ q.next # NoRun => status[q.next] = "absent"
                         /\ \A g \in Handlers : g # h => handler[g].next # q.next
  BY <1>1 DEF LifeInv, HandlersKnow, HandlersApart, Stopping
<1>4. cancelled' \subseteq Runs
  BY <1>1
<1> HIDE DEF new, q
<1> QED
  BY <1>1, <1>2, <1>3, <1>4, RequestStep DEF q

LEMMA AnnounceCancelledPreserves ==
    ASSUME LifeInv, NEW h \in Handlers, AnnounceCancelled(h)
    PROVE  LifeInv'
<1> DEFINE q == handler[h]
           r == q.run
<1>0. PICK new \in {AfterStop(q), Idle} : handler' = [handler EXCEPT ![h] = new]
  BY DEF AnnounceCancelled
<1>1. /\ RunTypeOK /\ q \in Handler /\ q.pc = "announce" /\ Stopping(h)
      /\ handler' = [handler EXCEPT ![h] = new]
      /\ UNCHANGED <<status, tools, go, cancelFns, cancelled, missed, churn>>
  BY <1>0 DEF LifeInv, RunTypeOK, AnnounceCancelled, Stopping
<1>2. r \in Runs /\ status[r] \in {"deleted", "cancelled"}
  BY <1>1 DEF LifeInv, HandlersKnow
<1>3. /\ new \in Handler /\ new.pc \in {"idle", "create"}
      /\ new.next # NoRun => new.next = q.next
      /\ new.pc = "create" => new.next \in Runs
  BY <1>0, <1>1, RequestAfterStop, IdleRequest
<1>a. CASE adrift' = adrift \cup {r} /\ UNCHANGED events
  <2>1. adrift' \subseteq Runs /\ cancelled' \subseteq Runs
    BY <1>1, <1>2, <1>a DEF RunTypeOK
  <2>2. q.next # NoRun => status[q.next] = "absent"
                         /\ \A g \in Handlers : g # h => handler[g].next # q.next
    BY DEF LifeInv, HandlersKnow, HandlersApart
  <2> HIDE DEF q
  <2> QED
    BY <1>1, <1>3, <1>a, <2>1, <2>2, RequestStep
<1>b. CASE events' = [events EXCEPT ![r] = Append(@, "cancelled")] /\ UNCHANGED adrift
  <2>4. /\ handler' \in [Handlers -> Handler] /\ handler'[h] = new
        /\ \A g \in Handlers : g # h => handler'[g] = handler[g]
    BY <1>1, <1>3, StepOfHandler
  <2>5. /\ events' \in [Runs -> Seq({"done", "error", "cancelled"})]
        /\ \A s \in Runs : s # r => events'[s] = events[s]
    <3> DEFINE word == "cancelled"
    <3>1. events \in [Runs -> Seq({"done", "error", "cancelled"})] /\ word \in {"done", "error", "cancelled"}
      BY <1>1 DEF RunTypeOK
    <3>2. events' = [events EXCEPT ![r] = Append(@, word)]
      BY <1>b
    <3> HIDE DEF word
    <3>3. Append(events[r], word) \in Seq({"done", "error", "cancelled"})
      BY <1>2, <3>1
    <3> QED
      BY <1>2, <3>1, <3>2, <3>3
  <2>6. RunTypeOK'
    BY <1>1, <1>b, <2>4, <2>5 DEF RunTypeOK
  <2>7. OneActiveRun'
    BY <1>1 DEF LifeInv, OneActiveRun, IsActive
  <2>8. GoroutinesKnow'
    BY <1>1, <1>2, <2>5 DEF LifeInv, GoroutinesKnow, Active
  <2>a. AgentsKnow'
    BY <1>1 DEF LifeInv, AgentsKnow
  <2>9. HandlersApart'
    BY <1>1, <1>3, <2>4 DEF LifeInv, HandlersApart, Stopping
  <2>10. HandlersKnow'
    <3> SUFFICES ASSUME NEW g \in Handlers
                 PROVE  /\ handler'[g].pc \in {"stop", "signal", "announce"} =>
                             handler'[g].run \in Runs /\ status[handler'[g].run] # "absent"
                        /\ handler'[g].pc = "create" => handler'[g].next \in Runs
                        /\ handler'[g].next # NoRun => status[handler'[g].next] = "absent"
                        /\ handler'[g].pc \in {"signal", "announce"} =>
                             \/ status[handler'[g].run] = "deleted"
                             \/ /\ status[handler'[g].run] = "cancelled"
                                /\ events'[handler'[g].run] = <<>>
      BY <1>1 DEF HandlersKnow, Stopping
    <3>1. CASE g = h
      BY <1>1, <1>3, <2>4, <3>1 DEF LifeInv, HandlersKnow
    <3>2. CASE g # h
      <4>1. handler'[g] = handler[g]
        BY <2>4, <3>2
      <4>2. Stopping(g) /\ handler[g].run = r => status[r] = "deleted"
        BY <1>1, <3>2 DEF LifeInv, HandlersApart
      <4> QED
        BY <1>1, <1>2, <2>5, <4>1, <4>2 DEF LifeInv, HandlersKnow, Stopping
    <3> QED
      BY <3>1, <3>2
  <2> QED
    BY <2>6, <2>7, <2>8, <2>a, <2>9, <2>10 DEF LifeInv
<1> QED
  BY <1>a, <1>b DEF AnnounceCancelled

LEMMA CreatePreserves ==
    ASSUME LifeInv, NEW h \in Handlers, CreateRun(h)
    PROVE  LifeInv'
<1> DEFINE r == handler[h].next
<1>1. /\ RunTypeOK /\ handler[h].pc = "create" /\ r \in Runs /\ r # NoRun /\ status[r] = "absent"
      /\ handler' = [handler EXCEPT ![h] = Idle]
      /\ UNCHANGED <<tools, events, cancelFns, cancelled, missed, churn>>
  BY ChatAssumption DEF LifeInv, HandlersKnow, CreateRun
<1>2. /\ handler' \in [Handlers -> Handler] /\ handler'[h] = Idle
      /\ \A g \in Handlers : g # h => handler'[g] = handler[g]
  BY <1>1, IdleRequest, StepOfHandler
<1>3. CASE UNCHANGED <<status, go, adrift>>
  <2>1. cancelled' \subseteq Runs /\ adrift' \subseteq Runs
    BY <1>1, <1>3 DEF RunTypeOK
  <2> QED
    BY <1>1, <1>3, <2>1, IdleRequest, RequestStep
<1>4. CASE /\ SessionFree /\ status' = [status EXCEPT ![r] = "queued"]
           /\ \/ go' = [go EXCEPT ![Main(r)].pc = "spawned"] /\ UNCHANGED adrift
              \/ adrift' = adrift \cup {r} /\ UNCHANGED go
  <2> DEFINE word == "spawned"
             new == [go[Main(r)] EXCEPT !.pc = word]
  <2>1. word \in Steps /\ word = "spawned" /\ Main(r) \in Agents /\ go[Main(r)] \in Goroutine
        /\ RunOf(Main(r)) = r /\ IsMain(Main(r))
    BY <1>1, AgentOfRun DEF Steps, RunTypeOK
  <2>2. go' = [go EXCEPT ![Main(r)] = new] \/ go' = go
    BY <1>4
  <2> HIDE DEF word
  <2>3. new \in Goroutine /\ new.pc = word
    BY <2>1 DEF Goroutine
  <2> HIDE DEF new
  <2>4. /\ go' \in [Agents -> Goroutine] /\ go'[Main(r)].pc \in {"none", "spawned"}
        /\ \A b \in Agents : b # Main(r) => go'[b] = go[b]
        /\ go[Main(r)].pc = "none" /\ adrift' \subseteq Runs
    BY <1>1, <1>4, <2>1, <2>2, <2>3 DEF RunTypeOK, LifeInv, GoroutinesKnow
  <2>5. /\ status'[r] = "queued" /\ \A s \in Runs : s # r => status'[s] = status[s]
        /\ status' \in [Runs -> Active \cup Ended \cup {"absent", "deleted"}]
    BY <1>1, <1>4 DEF RunTypeOK, Active
  <2>6. RunTypeOK'
    BY <1>1, <1>2, <2>4, <2>5 DEF RunTypeOK
  <2>7. OneActiveRun'
    BY <1>4, <2>5 DEF OneActiveRun, SessionFree, IsActive
  <2>8. GoroutinesKnow'
    <3>1. \A s \in Runs : s # r => go'[Main(s)] = go[Main(s)]
      BY <1>1, <2>1, <2>4, AgentOfRun
    <3>a. events[r] = <<>>
      BY <1>1 DEF LifeInv, GoroutinesKnow
    <3>b. go'[Main(r)].pc \notin Middle \cup {"done", "error"}
      BY <2>4 DEF Middle, Working
    <3>2. go'[Main(r)].pc \notin Middle \cup {"done", "error"} /\ events'[r] = <<>>
      BY <1>1, <3>a, <3>b
    <3>3. UNCHANGED events /\ status'[r] \notin {"absent", "deleted"}
      BY <1>1, <2>5
    <3> SUFFICES ASSUME NEW s \in Runs
                 PROVE  LET pc == go'[Main(s)].pc IN
                        /\ status'[s] = "absent" => pc = "none"
                        /\ status'[s] \in Active \cup {"absent"} => events'[s] = <<>>
                        /\ pc \in Middle => status'[s] # "queued"
                        /\ pc = "done" =>
                             status'[s] = "deleted" \/ (status'[s] = "completed" /\ events'[s] = <<>>)
                        /\ pc = "error" =>
                             status'[s] = "deleted" \/ (status'[s] = "failed" /\ events'[s] = <<>>)
      BY DEF GoroutinesKnow
    <3>4. CASE s = r
      BY <3>2, <3>3, <3>4
    <3>5. CASE s # r
      <4>1. status'[s] = status[s] /\ go'[Main(s)] = go[Main(s)] /\ events'[s] = events[s]
        BY <2>5, <3>1, <3>3, <3>5
      <4> QED
        BY <4>1 DEF LifeInv, GoroutinesKnow
    <3> QED
      BY <3>4, <3>5
  <2>9. AgentsKnow'
    BY <2>1, <2>4, AgentOfRun DEF LifeInv, AgentsKnow
  <2>10. /\ Idle.next = NoRun /\ Idle.pc = "idle"
         /\ \A g \in Handlers : g # h => handler[g].next # r
         /\ \A g \in Handlers : handler[g].next \in Runs \cup {NoRun}
    BY <1>1, IdleRequest DEF LifeInv, HandlersApart, RunTypeOK, Handler
  <2>11. HandlersKnow'
    BY <1>1, <1>2, <2>5, <2>10, ChatAssumption DEF LifeInv, HandlersKnow, Stopping
  <2>12. HandlersApart'
    BY <1>1, <1>2, <2>5, <2>10 DEF LifeInv, HandlersApart, HandlersKnow, Stopping
  <2> QED
    BY <2>6, <2>7, <2>8, <2>9, <2>11, <2>12 DEF LifeInv
<1> QED
  BY <1>3, <1>4 DEF CreateRun

LEMMA HandlePreserves ==
    ASSUME LifeInv, NEW h \in Handlers, Handle(h)
    PROVE  LifeInv'
BY StopPreserves, SignalPreserves, AnnounceCancelledPreserves, CreatePreserves DEF Handle

-----------------------------------------------------------------------------
(* Everybody else.                                                         *)

LEMMA CrashPreserves ==
    ASSUME LifeInv, Crash
    PROVE  LifeInv'
<1>1. /\ RunTypeOK /\ UNCHANGED <<status, tools, events, adrift, missed>>
      /\ handler' = [h \in Handlers |-> Idle]
      /\ cancelFns' = {} /\ cancelled' = {}
      /\ churn' \in 0 .. MaxChurn
  BY ChatAssumption DEF LifeInv, RunTypeOK, Crash, Intervene
<1>2. /\ go' \in [Agents -> Goroutine]
      /\ \A a \in Agents : go'[a].pc = IF go[a].pc \in {"none", "quit"} THEN go[a].pc ELSE "dead"
  <2> DEFINE word == "dead"
             killed == [a \in Agents |-> [go[a] EXCEPT !.pc = word]]
  <2>1. word \in Steps /\ word = "dead"
    BY DEF Steps
  <2>2. go' = [a \in Agents |-> IF go[a].pc \in {"none", "quit"} THEN go[a] ELSE killed[a]]
    BY DEF Crash
  <2> HIDE DEF word
  <2>3. \A a \in Agents : killed[a] \in Goroutine /\ killed[a].pc = word
    BY <1>1, <2>1 DEF RunTypeOK, Goroutine
  <2> HIDE DEF killed
  <2>4. \A a \in Agents : go[a] \in Goroutine
    BY <1>1 DEF RunTypeOK
  <2> QED
    BY <2>1, <2>2, <2>3, <2>4
<1>3. \A h \in Handlers : handler'[h] = Idle
  BY <1>1
<1>4. RunTypeOK'
  BY <1>1, <1>2, IdleRequest DEF RunTypeOK
<1>5. OneActiveRun'
  BY <1>1 DEF LifeInv, OneActiveRun, IsActive
<1>6. GoroutinesKnow'
  BY <1>1, <1>2, AgentOfRun DEF LifeInv, GoroutinesKnow, Middle, Working
<1>a. AgentsKnow'
  BY <1>1, <1>2, AgentOfRun DEF LifeInv, AgentsKnow, Working
<1>7. HandlersKnow' /\ HandlersApart'
  BY <1>3, IdleRequest DEF HandlersKnow, HandlersApart, Stopping
<1> QED
  BY <1>4, <1>5, <1>6, <1>a, <1>7 DEF LifeInv

LEMMA DeleteSessionPreserves ==
    ASSUME LifeInv, DeleteSession
    PROVE  LifeInv'
<1>1. /\ RunTypeOK /\ UNCHANGED <<go, cancelFns, cancelled, handler, adrift, missed>>
      /\ churn' \in 0 .. MaxChurn
  BY ChatAssumption DEF LifeInv, RunTypeOK, DeleteSession, Intervene
<1>2. /\ status' \in [Runs -> Active \cup Ended \cup {"absent", "deleted"}]
      /\ \A r \in Runs : status'[r] = IF status[r] = "absent" THEN "absent" ELSE "deleted"
  BY DEF DeleteSession
<1>3. /\ events' \in [Runs -> Seq({"done", "error", "cancelled"})]
      /\ \A r \in Runs : events'[r] = <<>>
  BY DEF DeleteSession
<1>4. tools' \in [Calls -> ToolStatus]
  BY DEF DeleteSession, ToolStatus
<1>5. RunTypeOK'
  BY <1>1, <1>2, <1>3, <1>4 DEF RunTypeOK
<1>6. OneActiveRun'
  BY <1>2 DEF OneActiveRun, IsActive, Active
<1>7. GoroutinesKnow'
  BY <1>1, <1>2, <1>3 DEF LifeInv, GoroutinesKnow, Active
<1>a. AgentsKnow'
  BY <1>1 DEF LifeInv, AgentsKnow
<1>8. HandlersKnow' /\ HandlersApart'
  <2>1. \A h \in Handlers : handler[h].next \in Runs \cup {NoRun}
                           /\ handler[h].run \in Runs \cup {NoRun}
    BY <1>1 DEF RunTypeOK, Handler
  <2> QED
    BY <1>1, <1>2, <2>1, ChatAssumption DEF LifeInv, HandlersKnow, HandlersApart, Stopping
<1> QED
  BY <1>5, <1>6, <1>7, <1>a, <1>8 DEF LifeInv

LEMMA LifeInitial == ChatInit => LifeInv
<1> SUFFICES ASSUME ChatInit PROVE LifeInv
  OBVIOUS
<1>1. /\ \A r \in Runs : status[r] = "absent" /\ events[r] = <<>>
      /\ \A a \in Agents : go[a].pc = "none"
  BY DEF ChatInit
<1>2. \A h \in Handlers : handler[h] = Idle
  BY DEF ChatInit
<1>3. RunTypeOK
  <2> DEFINE pc0 == "none"
             new == [pc |-> pc0, round |-> 1, result |-> pc0]
  <2>1. pc0 \in Steps /\ pc0 \in {"none", "ok", "error"} /\ 1 \in 1 .. MaxRounds
    BY RoundsAssumption DEF Steps
  <2>2. go = [a \in Agents |-> new]
    BY DEF ChatInit
  <2> HIDE DEF pc0
  <2>3. new \in Goroutine
    BY <2>1 DEF Goroutine
  <2> HIDE DEF new
  <2>4. go \in [Agents -> Goroutine]
    BY <2>2, <2>3
  <2>5. /\ status \in [Runs -> Active \cup Ended \cup {"absent", "deleted"}]
        /\ tools \in [Calls -> ToolStatus]
        /\ events \in [Runs -> Seq({"done", "error", "cancelled"})]
    BY DEF ChatInit, ToolStatus
  <2>6. /\ cancelFns \subseteq Runs /\ cancelled \subseteq Runs
        /\ handler \in [Handlers -> Handler]
        /\ churn \in 0 .. MaxChurn
        /\ adrift \subseteq Runs /\ missed \subseteq Calls
    BY IdleRequest, ChatAssumption DEF ChatInit
  <2> QED
    BY <2>4, <2>5, <2>6 DEF RunTypeOK
<1>4. OneActiveRun
  BY <1>1 DEF OneActiveRun, IsActive, Active
<1>5. GoroutinesKnow
  BY <1>1, AgentOfRun DEF GoroutinesKnow, Middle, Working
<1>a. AgentsKnow
  BY <1>1 DEF AgentsKnow
<1>6. HandlersKnow /\ HandlersApart
  BY <1>2, IdleRequest DEF HandlersKnow, HandlersApart, Stopping
<1> QED
  BY <1>3, <1>4, <1>5, <1>a, <1>6 DEF LifeInv

LEMMA LifeStep == LifeInv /\ [ChatNext]_vars => LifeInv'
<1> SUFFICES ASSUME LifeInv, [ChatNext]_vars PROVE LifeInv'
  OBVIOUS
<1>1. ASSUME NEW h \in Handlers, NEW r \in Runs, BeginStop(h, r) \/ BeginSend(h, r)
      PROVE  LifeInv'
  BY <1>1, BeginPreserves
<1>2. ASSUME NEW h \in Handlers, Handle(h)
      PROVE  LifeInv'
  BY <1>2, HandlePreserves
<1>3. ASSUME NEW r \in Runs, Lead(r)
      PROVE  LifeInv'
  BY <1>3, LeadPreserves
<1>a. ASSUME NEW a \in Agents, Work(a)
      PROVE  LifeInv'
  BY <1>a, WorkPreserves
<1>4. ASSUME UNCHANGED <<status, tools, events, go, cancelFns, cancelled, handler, adrift, missed>>,
             churn' \in 0 .. MaxChurn
      PROVE  LifeInv'
  BY <1>4 DEF LifeInv, RunTypeOK, OneActiveRun, IsActive, GoroutinesKnow, AgentsKnow, HandlersKnow,
              HandlersApart, Stopping
<1>5. CASE DeviceNext /\ UNCHANGED runVars
  BY <1>4, <1>5 DEF runVars, LifeInv, RunTypeOK
<1>6. CASE RemoveDevice
  BY <1>4, <1>6, ChatAssumption DEF RemoveDevice, Intervene, LifeInv, RunTypeOK
<1>7. CASE UNCHANGED vars
  BY <1>4, <1>7 DEF vars, runVars, LifeInv, RunTypeOK
<1> QED
  BY <1>1, <1>2, <1>3, <1>a, <1>5, <1>6, <1>7, CrashPreserves, DeleteSessionPreserves DEF ChatNext

(* The invariant holds in every state of every session.                    *)
THEOREM LifeInvariance == ChatSpec => []LifeInv
<1>1. ChatInit => LifeInv
  BY LifeInitial
<1>2. LifeInv /\ [ChatNext]_vars => LifeInv'
  BY LifeStep
<1> QED
  BY <1>1, <1>2, PTL DEF ChatSpec

(* One active run in a session, however many messages and stops race for   *)
(* it: the rule of createRun, with the steps around it.                    *)
THEOREM SingleActiveRun == ChatSpec => []OneActiveRun
<1>1. LifeInv => OneActiveRun
  BY DEF LifeInv
<1> QED
  BY <1>1, LifeInvariance, PTL

-----------------------------------------------------------------------------
(* ChatRun implements RunLife: every step is a step of it, or a stutter.   *)

(* What RunLife calls outcome.                                             *)
Log == [r \in Runs |-> IF status[r] = "deleted" THEN <<>> ELSE events[r]]

LEMMA ClosingEvents ==
    /\ Life!Ended = Ended
    /\ Life!ClosingEvent["completed"] = "done"
    /\ Life!ClosingEvent["failed"] = "error"
    /\ Life!ClosingEvent["cancelled"] = "cancelled"
BY DEF Life!Ended, Life!ClosingEvent, Ended

(* Only what the user cannot see any more has changed.                     *)
LEMMA HiddenStep ==
    ASSUME UNCHANGED status,
           \A r \in Runs : status[r] = "deleted" \/ events'[r] = events[r]
    PROVE  UNCHANGED <<status, Log>>
BY DEF Log

LEMMA EndStep ==
    ASSUME LifeInv, NEW r \in Runs, NEW end \in Ended, IsActive(r),
           status[r] = "queued" => end = "cancelled",
           status' = [status EXCEPT ![r] = end], UNCHANGED events
    PROVE  Life!End(r, end)
<1>1. /\ status \in [Runs -> Active \cup Ended \cup {"absent", "deleted"}]
      /\ status[r] # "deleted" /\ end # "deleted"
  BY DEF LifeInv, RunTypeOK, IsActive, Active, Ended
<1>2. \A s \in Runs : (status'[s] = "deleted") <=> (status[s] = "deleted")
  BY <1>1
<1>3. UNCHANGED Log
  BY <1>2 DEF Log
<1> QED
  BY <1>3 DEF Life!End, Log, IsActive, Active, Life!Active

LEMMA AnnounceStep ==
    ASSUME LifeInv, NEW r \in Runs, NEW event \in {"done", "error", "cancelled"},
           events' = [events EXCEPT ![r] = Append(@, event)], UNCHANGED status,
           \/ status[r] = "deleted"
           \/ /\ status[r] \in Ended /\ events[r] = <<>>
              /\ event = Life!ClosingEvent[status[r]]
    PROVE  Life!Announce(r) \/ UNCHANGED <<status, Log>>
<1>1. events \in [Runs -> Seq({"done", "error", "cancelled"})]
  BY DEF LifeInv, RunTypeOK
<1>2. CASE status[r] = "deleted"
  BY <1>1, <1>2, HiddenStep
<1>3. CASE /\ status[r] \in Ended /\ events[r] = <<>>
           /\ event = Life!ClosingEvent[status[r]]
  <2>1. Log[r] = <<>> /\ status[r] # "deleted"
    BY <1>3 DEF Log, Ended
  <2>2. events'[r] = <<event>> /\ \A s \in Runs : s # r => events'[s] = events[s]
    BY <1>1, <1>3
  <2>3. Log' = [Log EXCEPT ![r] = <<event>>]
    BY <2>1, <2>2 DEF Log
  <2> QED
    BY <1>3, <2>1, <2>3, ClosingEvents DEF Life!Announce, Log
<1> QED
  BY <1>2, <1>3

LEMMA LeadImplements ==
    ASSUME LifeInv, NEW r \in Runs, Lead(r)
    PROVE  Life!RunLifeNext \/ UNCHANGED <<status, Log>>
<1>1. ASSUME UNCHANGED <<status, events>> PROVE UNCHANGED <<status, Log>>
  BY <1>1, HiddenStep
<1>2. CASE Register(r) \/ BeginRound(r) \/ StartAgents(r) \/ JoinAgents(r)
  BY <1>1, <1>2 DEF Register, BeginRound, StartAgents, JoinAgents
<1>3. CASE StartRun(r)
  <2>1. CASE UNCHANGED status
    BY <1>1, <1>3, <2>1 DEF StartRun
  <2>2. CASE status[r] = "queued" /\ status' = [status EXCEPT ![r] = "running"]
    <3>1. status' = [status EXCEPT ![r] = "running"] /\ UNCHANGED events
      BY <1>3, <2>2 DEF StartRun
    <3>2. UNCHANGED Log
      BY <2>2, <3>1 DEF Log, LifeInv, RunTypeOK
    <3>3. Life!Start(r)
      BY <2>2, <3>1, <3>2 DEF Life!Start, Log
    <3> QED
      BY <3>3 DEF Life!RunLifeNext
  <2> QED
    BY <1>3, <2>1, <2>2 DEF StartRun, LeaveAdrift
<1>4. CASE FinishRun(r) \/ FailRun(r)
  <2>1. PICK end, pc : /\ end \in {"completed", "failed"}
                       /\ EndAs(r, end, pc)
    BY <1>4 DEF FinishRun, FailRun
  <2>2. CASE UNCHANGED status
    BY <1>1, <2>1, <2>2 DEF EndAs
  <2>3. CASE MayEnd(r) /\ status' = [status EXCEPT ![r] = end]
    <3>1. status' = [status EXCEPT ![r] = end] /\ UNCHANGED events /\ end \in Ended
      BY <2>1, <2>3 DEF EndAs, Ended
    <3>2. IsActive(r) /\ status[r] # "queued"
      BY <1>4, <2>3 DEF MayEnd, LifeInv, GoroutinesKnow, Middle, FinishRun, FailRun
    <3>3. Life!End(r, end)
      BY <3>1, <3>2, EndStep
    <3> QED
      BY <3>1, <3>3, ClosingEvents DEF Life!RunLifeNext
  <2> QED
    BY <2>1, <2>2, <2>3 DEF EndAs, LeaveAdrift
<1>5. CASE AnnounceEnd(r)
  <2> DEFINE event == go[Main(r)].pc
  <2>1. event \in {"done", "error"} /\ UNCHANGED status
    BY <1>5 DEF AnnounceEnd
  <2>2. \/ status[r] = "deleted"
        \/ /\ status[r] \in Ended /\ events[r] = <<>>
           /\ event = Life!ClosingEvent[status[r]]
    BY <2>1, ClosingEvents DEF LifeInv, GoroutinesKnow, Ended
  <2>3. UNCHANGED events \/ events' = [events EXCEPT ![r] = Append(@, event)]
    BY <1>5 DEF AnnounceEnd
  <2> HIDE DEF event
  <2>4. Life!Announce(r) \/ UNCHANGED <<status, Log>>
    BY <1>1, <2>1, <2>2, <2>3, AnnounceStep
  <2> QED
    BY <2>4 DEF Life!RunLifeNext
<1> QED
  BY <1>2, <1>3, <1>4, <1>5 DEF Lead

LEMMA HandleImplements ==
    ASSUME LifeInv, NEW h \in Handlers, Handle(h)
    PROVE  Life!RunLifeNext \/ UNCHANGED <<status, Log>>
<1> DEFINE r == handler[h].run
           new == handler[h].next
<1>1. ASSUME UNCHANGED <<status, events>> PROVE UNCHANGED <<status, Log>>
  BY <1>1, HiddenStep
<1>2. CASE StopRun(h)
  <2>1. CASE UNCHANGED status
    BY <1>1, <1>2, <2>1 DEF StopRun
  <2>2. CASE IsActive(r) /\ status' = [status EXCEPT ![r] = "cancelled"]
    <3>1. /\ r \in Runs /\ "cancelled" \in Ended
          /\ status' = [status EXCEPT ![r] = "cancelled"] /\ UNCHANGED events
      BY <1>2, <2>2 DEF StopRun, LifeInv, HandlersKnow, Ended
    <3>2. Life!End(r, "cancelled")
      BY <2>2, <3>1, EndStep
    <3> QED
      BY <3>1, <3>2, ClosingEvents DEF Life!RunLifeNext
  <2> QED
    BY <1>2, <2>1, <2>2 DEF StopRun
<1>3. CASE SignalCancel(h)
  BY <1>1, <1>3 DEF SignalCancel
<1>4. CASE AnnounceCancelled(h)
  <2>1. r \in Runs /\ Stopping(h)
    BY <1>4 DEF AnnounceCancelled, Stopping, LifeInv, HandlersKnow
  <2>2. PICK s \in Runs : s = r
    BY <2>1
  <2>3. /\ UNCHANGED status
        /\ UNCHANGED events \/ events' = [events EXCEPT ![s] = Append(@, "cancelled")]
    BY <1>4, <2>2 DEF AnnounceCancelled
  <2>4. \/ status[s] = "deleted"
        \/ /\ status[s] \in Ended /\ events[s] = <<>>
           /\ "cancelled" = Life!ClosingEvent[status[s]]
    BY <2>1, <2>2, ClosingEvents DEF LifeInv, HandlersKnow, Stopping, Ended
  <2>5. Life!Announce(s) \/ UNCHANGED <<status, Log>>
    BY <1>1, <2>3, <2>4, AnnounceStep
  <2> QED
    BY <2>5 DEF Life!RunLifeNext
<1>5. CASE CreateRun(h)
  <2>1. CASE UNCHANGED status
    BY <1>1, <1>5, <2>1 DEF CreateRun
  <2>2. CASE SessionFree /\ status' = [status EXCEPT ![new] = "queued"]
    <3>1. /\ new \in Runs /\ status[new] = "absent" /\ UNCHANGED events
          /\ status' = [status EXCEPT ![new] = "queued"]
      BY <1>5, <2>2, ChatAssumption DEF CreateRun, LifeInv, HandlersKnow
    <3>2. UNCHANGED Log
      BY <3>1 DEF Log, LifeInv, RunTypeOK
    <3>3. Life!Create(new)
      BY <2>2, <3>1, <3>2 DEF Life!Create, Log, SessionFree, IsActive, Active, Life!Active
    <3> QED
      BY <3>1, <3>3 DEF Life!RunLifeNext
  <2> QED
    BY <1>5, <2>1, <2>2 DEF CreateRun
<1> QED
  BY <1>2, <1>3, <1>4, <1>5 DEF Handle

LEMMA StepImplements ==
    LifeInv /\ [ChatNext]_vars => [Life!RunLifeNext]_<<status, Log>>
<1> SUFFICES ASSUME LifeInv, [ChatNext]_vars
             PROVE  Life!RunLifeNext \/ UNCHANGED <<status, Log>>
  OBVIOUS
<1>1. ASSUME UNCHANGED <<status, events>> PROVE UNCHANGED <<status, Log>>
  BY <1>1, HiddenStep
<1>2. ASSUME NEW h \in Handlers, NEW r \in Runs, BeginStop(h, r) \/ BeginSend(h, r)
      PROVE  UNCHANGED <<status, Log>>
  BY <1>1, <1>2 DEF BeginStop, BeginSend
<1>3. CASE DeleteSession
  <2>1. Log' = [r \in Runs |-> <<>>]
    BY <1>3 DEF DeleteSession, Log
  <2>2. Life!DeleteAll
    BY <1>3, <2>1 DEF DeleteSession, Life!DeleteAll, Log
  <2> QED
    BY <2>2 DEF Life!RunLifeNext
<1>4. CASE DeviceNext /\ UNCHANGED runVars
  BY <1>1, <1>4 DEF runVars
<1>5. CASE Crash \/ RemoveDevice \/ UNCHANGED vars
  BY <1>1, <1>5 DEF Crash, RemoveDevice, vars, runVars
<1>6. ASSUME NEW a \in Agents, Work(a) PROVE UNCHANGED <<status, Log>>
  BY <1>1, <1>6 DEF Work, AskModel, PrepareTool, CheckOpening, RecordOpen, CreateAutoTask,
                    CallOther, PollTask, ExpireCall, CheckClosing, RecordClosed
<1> QED
  BY <1>2, <1>3, <1>4, <1>5, <1>6, LeadImplements, HandleImplements DEF ChatNext

(* What the session promises its user, RunLife, is what the handlers, the  *)
(* goroutines and their guarded UPDATEs implement.                         *)
THEOREM RunLifeRefined == ChatSpec => ImplementsRunLife
<1>1. ChatInit => Life!RunLifeInit
  BY DEF ChatInit, Life!RunLifeInit
<1>2. LifeInv /\ [ChatNext]_vars => [Life!RunLifeNext]_<<status, Log>>
  BY StepImplements
<1> QED
  BY <1>1, <1>2, LifeInvariance, PTL DEF ChatSpec, ImplementsRunLife, Life!RunLifeSpec, Log

-----------------------------------------------------------------------------
(* The tasks of the device.  A tool call the run has not reached has left  *)
(* no trace, so a task is created once, and its claims start from zero.    *)

Untouched(k) ==
    /\ task[k] = "absent"
    /\ handed[k] = 0
    /\ k \notin sensitive /\ k \notin approved /\ k \notin executing

Early == {"none", "spawned", "registered", "round", "model", "tool", "create"}

(* A call of "opening" and "open" has its task already if it is sensitive. *)
NotReached(a, n) ==
    \/ n > go[a].round
    \/ /\ n = go[a].round
       /\ \/ go[a].pc \in Early
          \/ go[a].pc \in {"opening", "open"} /\ <<a, n>> \notin sensitive

FreshCalls ==
    \A a \in Agents, n \in 1 .. MaxRounds : NotReached(a, n) => Untouched(<<a, n>>)

(* A task nobody has claimed was not handed out, and waits for its         *)
(* approval if it needs one.                                               *)
WaitingTasks ==
    \A k \in Calls :
      /\ task[k] \in {"pending_approval", "queued"} => handed[k] = 0
      /\ task[k] = "queued" /\ k \in sensitive => k \in approved

DeviceInv ==
    /\ ConnectorTypeOK
    /\ WaitingTasks
    /\ HandedOutOnce
    /\ ApprovedFirst

TaskInv == DeviceInv /\ FreshCalls

(* What the device, the user and the clock do to a task, or to all.        *)
LEMMA DevicePreserves ==
    ASSUME DeviceInv,
           \/ DeviceNext \/ DeleteDevice
           \/ \E k \in Calls : ExpireTask(k)
           \/ \E r \in Runs : task' = Cancelled(task, r)
                              /\ UNCHANGED <<sensitive, approved, executing, handed, device>>
           \/ UNCHANGED connectorVars
    PROVE  /\ DeviceInv' /\ sensitive' = sensitive
           /\ \A j \in Calls : Untouched(j) => Untouched(j)'
<1>0. /\ ConnectorTypeOK /\ WaitingTasks /\ HandedOutOnce /\ ApprovedFirst
  BY DEF DeviceInv
<1>1. ASSUME NEW k \in Calls, ClaimTask(k)
      PROVE  DeviceInv' /\ sensitive' = sensitive /\ \A j \in Calls : Untouched(j) => Untouched(j)'
  <2>1. handed[k] = 0 /\ (k \in sensitive => k \in approved)
    BY <1>0, <1>1 DEF ClaimTask, Claimable, WaitingTasks
  <2>2. /\ task'[k] = "running" /\ \A j \in Calls : j # k => task'[j] = task[j]
        /\ handed'[k] = 1 /\ \A j \in Calls : j # k => handed'[j] = handed[j]
        /\ executing' \subseteq Calls /\ \A j \in Calls : j # k => (j \in executing' <=> j \in executing)
        /\ UNCHANGED <<sensitive, approved, device>>
    BY <1>0, <1>1, <2>1 DEF ClaimTask, ConnectorTypeOK
  <2>3. ConnectorTypeOK'
    BY <1>0, <1>1 DEF ClaimTask, ConnectorTypeOK, Open
  <2>4. WaitingTasks' /\ HandedOutOnce' /\ ApprovedFirst'
    BY <1>0, <2>1, <2>2 DEF WaitingTasks, HandedOutOnce, ApprovedFirst, ConnectorTypeOK
  <2> QED
    BY <1>1, <2>2, <2>3, <2>4 DEF DeviceInv, Untouched, ClaimTask, Claimable
<1>2. ASSUME NEW k \in Calls, NEW yes \in BOOLEAN, DecideTask(k, yes)
      PROVE  DeviceInv' /\ sensitive' = sensitive /\ \A j \in Calls : Untouched(j) => Untouched(j)'
  <2>1. ConnectorTypeOK'
    BY <1>0, <1>2 DEF DecideTask, ConnectorTypeOK, Open, Closed
  <2>2. WaitingTasks' /\ HandedOutOnce' /\ ApprovedFirst'
    BY <1>0, <1>2 DEF DecideTask, Decidable, WaitingTasks, HandedOutOnce, ApprovedFirst,
                      ConnectorTypeOK
  <2> QED
    BY <1>0, <1>2, <2>1, <2>2 DEF DeviceInv, Untouched, DecideTask, Decidable, ConnectorTypeOK
<1>3. ASSUME NEW k \in Calls, NEW success \in BOOLEAN, NEW again \in BOOLEAN,
             PostResult(k, success, again)
      PROVE  DeviceInv' /\ sensitive' = sensitive /\ \A j \in Calls : Untouched(j) => Untouched(j)'
  <2>1. ConnectorTypeOK'
    BY <1>0, <1>3 DEF PostResult, ConnectorTypeOK, Closed
  <2>2. WaitingTasks' /\ HandedOutOnce' /\ ApprovedFirst'
    BY <1>0, <1>3 DEF PostResult, WaitingTasks, HandedOutOnce, ApprovedFirst, ConnectorTypeOK
  <2> QED
    BY <1>0, <1>3, <2>1, <2>2 DEF DeviceInv, Untouched, PostResult, ConnectorTypeOK
<1>4. ASSUME \A j \in Calls : task'[j] \in {task[j], "failed", "absent"}
                             /\ (task[j] = "absent" => task'[j] = "absent"),
             task' \in [Calls -> Open \cup Closed \cup {"absent"}],
             executing' \in {executing, {}}, device' \in {device, FALSE},
             UNCHANGED <<sensitive, approved, handed>>
      PROVE  DeviceInv' /\ sensitive' = sensitive /\ \A j \in Calls : Untouched(j) => Untouched(j)'
  <2>1. ConnectorTypeOK'
    BY <1>0, <1>4 DEF ConnectorTypeOK
  <2>2. WaitingTasks' /\ HandedOutOnce' /\ ApprovedFirst'
    BY <1>0, <1>4 DEF WaitingTasks, HandedOutOnce, ApprovedFirst
  <2> QED
    BY <1>4, <2>1, <2>2 DEF DeviceInv, Untouched
<1>5. CASE DeleteDevice
  BY <1>4, <1>5 DEF DeleteDevice
<1>6. ASSUME NEW k \in Calls, ExpireTask(k)
      PROVE  DeviceInv' /\ sensitive' = sensitive /\ \A j \in Calls : Untouched(j) => Untouched(j)'
  BY <1>0, <1>4, <1>6 DEF ExpireTask, ConnectorTypeOK, Closed
<1>7. ASSUME NEW r \in Runs, task' = Cancelled(task, r),
             UNCHANGED <<sensitive, approved, executing, handed, device>>
      PROVE  DeviceInv' /\ sensitive' = sensitive /\ \A j \in Calls : Untouched(j) => Untouched(j)'
  BY <1>0, <1>4, <1>7 DEF Cancelled, ConnectorTypeOK, Open, Closed
<1>8. CASE UNCHANGED connectorVars
  BY <1>0, <1>4, <1>8 DEF connectorVars, ConnectorTypeOK
<1> QED
  BY <1>1, <1>2, <1>3, <1>5, <1>6, <1>7, <1>8 DEF DeviceNext

LEMMA CreatePreservesTasks ==
    ASSUME DeviceInv, NEW k \in Calls, NEW ask \in BOOLEAN, CreateTask(k, ask), Untouched(k)
    PROVE  /\ DeviceInv'
           /\ ask => k \in sensitive'
           /\ \A j \in Calls : j # k /\ Untouched(j) => Untouched(j)'
           /\ \A j \in Calls : j # k => (j \in sensitive' <=> j \in sensitive)
<1>0. /\ ConnectorTypeOK /\ WaitingTasks /\ HandedOutOnce /\ ApprovedFirst
  BY DEF DeviceInv
<1>1. ConnectorTypeOK'
  BY <1>0 DEF CreateTask, ConnectorTypeOK, Open
<1>2. WaitingTasks' /\ HandedOutOnce' /\ ApprovedFirst'
  BY <1>0 DEF CreateTask, WaitingTasks, HandedOutOnce, ApprovedFirst, ConnectorTypeOK, Untouched
<1> QED
  BY <1>0, <1>1, <1>2 DEF DeviceInv, CreateTask, Untouched, ConnectorTypeOK

(* A goroutine that moves on, and touches no task it has not reached.      *)
LEMMA FreshStep ==
    ASSUME FreshCalls, NEW a \in Agents, sensitive' = sensitive,
           \A j \in Calls : Untouched(j) => Untouched(j)',
           \A b \in Agents : b # a => go'[b] = go[b],
           \A n \in 1 .. MaxRounds : NotReached(a, n)' => NotReached(a, n)
    PROVE  FreshCalls'
<1> SUFFICES ASSUME NEW b \in Agents, NEW n \in 1 .. MaxRounds, NotReached(b, n)'
             PROVE  Untouched(<<b, n>>)'
  BY DEF FreshCalls
<1>1. NotReached(b, n)
  BY DEF NotReached
<1>2. Untouched(<<b, n>>) /\ <<b, n>> \in Calls
  BY <1>1, AgentOfRun DEF FreshCalls
<1> QED
  BY <1>2

(* Agents move on, and the tasks stay as they are.                         *)
LEMMA OnwardTasks ==
    ASSUME TaskInv, UNCHANGED connectorVars,
           \A b \in Agents :
             /\ go'[b].round = go[b].round
             /\ go'[b].pc \in Early => go[b].pc \in Early
             /\ go'[b].pc \in {"opening", "open"} => go[b].pc \in Early \cup {"opening", "open"}
    PROVE  TaskInv'
<1>1. /\ DeviceInv' /\ sensitive' = sensitive
      /\ \A j \in Calls : Untouched(j) => Untouched(j)'
  BY DevicePreserves DEF TaskInv
<1>2. ASSUME NEW b \in Agents, NEW n \in 1 .. MaxRounds, NotReached(b, n)'
      PROVE  Untouched(<<b, n>>)'
  <2>1. NotReached(b, n)
    BY <1>1, <1>2 DEF NotReached
  <2>2. Untouched(<<b, n>>) /\ <<b, n>> \in Calls
    BY <2>1, AgentOfRun DEF TaskInv, FreshCalls
  <2> QED
    BY <1>1, <2>2
<1> QED
  BY <1>1, <1>2 DEF TaskInv, FreshCalls

(* The same with one step to pc.                                           *)
LEMMA TaskStep ==
    ASSUME RunTypeOK, TaskInv, NEW a \in Agents, NEW pc \in Steps, StepTo(a, pc),
           pc \in Early => go[a].pc \in Early,
           pc \in {"opening", "open"} => go[a].pc \in Early \cup {"opening", "open"},
           UNCHANGED connectorVars
    PROVE  TaskInv'
<1>1. /\ go'[a].pc = pc /\ go'[a].round = go[a].round
      /\ \A b \in Agents : b # a => go'[b] = go[b]
  BY StepOfGoroutine
<1> QED
  BY <1>1, OnwardTasks

(* A step that leaves the stages before the call's task.                   *)
Past == Steps \ (Early \cup {"opening", "open"})

LEMMA PastSteps ==
    /\ {"quit", "fail", "wait", "call", "expire", "close", "done", "error", "finish", "join",
        "closing"} \subseteq Past
    /\ \A a \in Agents : AfterError(a) \in Past /\ AfterText(a) \in Past
    /\ {"registered", "round", "model", "tool", "opening", "open", "create"} \subseteq Steps
BY DEF Past, Steps, Early, AfterError, AfterText

(* A check of the row leads on, or out.                                    *)
LEMMA CheckedTaskStep ==
    ASSUME RunTypeOK, TaskInv, NEW a \in Agents, NEW pc \in Steps,
           StepTo(a, Checked(a, pc)),
           pc \in Early => go[a].pc \in Early,
           pc \in {"opening", "open"} => go[a].pc \in Early \cup {"opening", "open"},
           UNCHANGED connectorVars
    PROVE  TaskInv'
<1> DEFINE next == Checked(a, pc)
<1>1. next = pc \/ next \in Past
  BY PastSteps DEF Checked
<1>2. next \in Steps /\ StepTo(a, next)
  BY <1>1 DEF Past
<1>3. next \in Past => next \notin Early \cup {"opening", "open"}
  BY DEF Past
<1> HIDE DEF next
<1> QED
  BY <1>1, <1>2, <1>3, TaskStep

LEMMA AnswerTasks ==
    ASSUME RunTypeOK, TaskInv, NEW a \in Agents, NEW result \in {"ok", "error"},
           Answered(a, result), go[a].pc \notin Early,
           DeviceInv', sensitive' = sensitive,
           \A j \in Calls : Untouched(j) => Untouched(j)'
    PROVE  TaskInv'
<1>1. /\ go'[a].pc = "closing" /\ go'[a].round = go[a].round
      /\ \A b \in Agents : b # a => go'[b] = go[b]
  BY AnswerOfGoroutine
<1>2. \A n \in 1 .. MaxRounds : NotReached(a, n)' => NotReached(a, n)
  BY <1>1 DEF NotReached, Early
<1> QED
  BY <1>1, <1>2, FreshStep DEF TaskInv
LEMMA LeadPreservesTasks ==
    ASSUME LifeInv, TaskInv, NEW r \in Runs, Lead(r)
    PROVE  TaskInv'
<1>0. RunTypeOK /\ Main(r) \in Agents
  BY AgentOfRun DEF LifeInv
<1>1. ASSUME UNCHANGED connectorVars, NEW pc \in Past, StepTo(Main(r), pc)
      PROVE  TaskInv'
  BY <1>0, <1>1, TaskStep DEF Past
<1>2. CASE Register(r)
  <2> DEFINE a == Main(r)
             word == "registered"
             new == [go[a] EXCEPT !.pc = word]
  <2>1. /\ go' = [go EXCEPT ![a] = new] /\ go[a].pc = "spawned" /\ UNCHANGED connectorVars
        /\ go[a] \in Goroutine /\ word \in Early /\ word \notin {"opening", "open"}
    BY <1>0, <1>2 DEF Register, RunTypeOK, Early
  <2> HIDE DEF word
  <2>2. new.pc = word /\ new.round = go[a].round
    BY <2>1 DEF Goroutine
  <2> HIDE DEF new
  <2>3. go'[a] = new /\ \A b \in Agents : b # a => go'[b] = go[b]
    BY <1>0, <2>1 DEF RunTypeOK
  <2>4. go[a].pc \in Early
    BY <2>1 DEF Early
  <2> QED
    BY <2>1, <2>2, <2>3, <2>4, OnwardTasks
<1>3. CASE StartRun(r)
  <2>1. UNCHANGED connectorVars /\ go[Main(r)].pc \in Early
        /\ \E pc \in {"round", "quit"} : StepTo(Main(r), pc)
    BY <1>3 DEF StartRun, LeaveAdrift, Early
  <2>2. "round" \in Steps /\ "round" \notin {"opening", "open"} /\ "quit" \in Past
    BY PastSteps
  <2> QED
    BY <1>0, <1>1, <2>1, <2>2, TaskStep
<1>4. CASE BeginRound(r)
  <2>1. UNCHANGED connectorVars /\ go[Main(r)].pc \in Early
        /\ \/ \E pc \in {"quit", "fail"} : StepTo(Main(r), pc)
           \/ StepTo(Main(r), Checked(Main(r), "model"))
    BY <1>4 DEF BeginRound, Early
  <2>2. "model" \in Steps /\ "model" \notin {"opening", "open"} /\ {"quit", "fail"} \subseteq Past
    BY PastSteps
  <2> QED
    BY <1>0, <1>1, <2>1, <2>2, CheckedTaskStep
<1>5. CASE StartAgents(r)
  <2>0. PICK team \in SUBSET {a \in SubAgents(r) : go[a].pc = "none"} :
             go' = [a \in Agents |-> IF a = Main(r) THEN [go[a] EXCEPT !.pc = "join"]
                                     ELSE IF a \in team THEN [go[a] EXCEPT !.pc = "model"]
                                     ELSE go[a]]
    BY <1>5 DEF StartAgents
  <2> DEFINE join == "join"
             model == "model"
             joined == [a \in Agents |-> [go[a] EXCEPT !.pc = join]]
             started == [a \in Agents |-> [go[a] EXCEPT !.pc = model]]
  <2>1. /\ join \notin Early \cup {"opening", "open"}
        /\ model \in Early /\ model \notin {"opening", "open"}
        /\ \A a \in Agents : go[a] \in Goroutine
    BY <1>0 DEF Early, RunTypeOK
  <2>2. go' = [a \in Agents |-> IF a = Main(r) THEN joined[a]
                                ELSE IF a \in team THEN started[a] ELSE go[a]]
    BY <2>0
  <2> HIDE DEF join, model
  <2>3. \A a \in Agents : /\ joined[a].pc = join /\ joined[a].round = go[a].round
                          /\ started[a].pc = model /\ started[a].round = go[a].round
    BY <2>1 DEF Goroutine
  <2> HIDE DEF joined, started
  <2>4. UNCHANGED connectorVars /\ \A a \in team : go[a].pc \in Early
    BY <1>5 DEF StartAgents, Early
  <2>5. \A b \in Agents :
          /\ go'[b].round = go[b].round
          /\ go'[b].pc \in Early => go[b].pc \in Early
          /\ go'[b].pc \in {"opening", "open"} => go[b].pc \in Early \cup {"opening", "open"}
    BY <2>1, <2>2, <2>3, <2>4
  <2> QED
    BY <2>4, <2>5, OnwardTasks
<1>6. CASE JoinAgents(r)
  <2>1. PICK result \in {"ok", "error"} : Answered(Main(r), result)
    BY <1>6 DEF JoinAgents
  <2>2. UNCHANGED connectorVars /\ go[Main(r)].pc \notin Early
    BY <1>6 DEF JoinAgents, Early
  <2>3. /\ DeviceInv' /\ sensitive' = sensitive
        /\ \A j \in Calls : Untouched(j) => Untouched(j)'
    BY <2>2, DevicePreserves DEF TaskInv
  <2> QED
    BY <1>0, <2>1, <2>2, <2>3, AnswerTasks
<1>7. CASE FinishRun(r) \/ FailRun(r)
  <2>1. UNCHANGED connectorVars /\ \E pc \in {"done", "error", "quit"} : StepTo(Main(r), pc)
    BY <1>7 DEF FinishRun, FailRun, EndAs, LeaveAdrift
  <2> QED
    BY <1>1, <2>1, PastSteps
<1>8. CASE AnnounceEnd(r)
  <2>1. UNCHANGED connectorVars /\ StepTo(Main(r), "quit")
    BY <1>8 DEF AnnounceEnd
  <2> QED
    BY <1>1, <2>1, PastSteps
<1> QED
  BY <1>2, <1>3, <1>4, <1>5, <1>6, <1>7, <1>8 DEF Lead

LEMMA WorkPreservesTasks ==
    ASSUME RunTypeOK, TaskInv, NEW a \in Agents, Work(a)
    PROVE  TaskInv'
<1>0. DeviceInv /\ FreshCalls /\ Call(a) \in Calls /\ go[a] \in Goroutine
      /\ Call(a) = <<a, go[a].round>> /\ go[a].round \in 1 .. MaxRounds
  BY CallOfRun DEF TaskInv
<1>1. ASSUME UNCHANGED connectorVars, NEW pc \in Past, StepTo(a, pc)
      PROVE  TaskInv'
  BY <1>1, TaskStep DEF Past
<1>5. CASE AskModel(a)
  <2>1. UNCHANGED connectorVars /\ go[a].pc \in Early
        /\ \/ \E pc \in {"quit", "tool", AfterError(a), AfterText(a)} : StepTo(a, pc)
           \/ \E pc \in {"tool", AfterError(a), AfterText(a)} : StepTo(a, Checked(a, pc))
    BY <1>5 DEF AskModel, Early
  <2>2. "tool" \in Steps /\ "tool" \notin {"opening", "open"}
        /\ {"quit", AfterError(a), AfterText(a)} \subseteq Past
    BY PastSteps
  <2>3. \A pc \in Past : pc \in Steps /\ pc \notin Early \cup {"opening", "open"}
    BY DEF Past
  <2> QED
    BY <1>1, <2>1, <2>2, <2>3, TaskStep, CheckedTaskStep
<1>6. CASE PrepareTool(a)
  <2>1. StepTo(a, "opening") /\ go[a].pc = "tool" /\ Untouched(Call(a))
    BY <1>0, <1>6 DEF PrepareTool, FreshCalls, NotReached, Early
  <2>2. /\ go'[a].pc = "opening" /\ go'[a].round = go[a].round
        /\ \A b \in Agents : b # a => go'[b] = go[b]
    BY <2>1, StepOfGoroutine, PastSteps
  <2>3. CASE UNCHANGED connectorVars
    BY <2>1, <2>3, TaskStep, PastSteps DEF Early
  <2>4. CASE CreateTask(Call(a), TRUE)
    <3>1. /\ DeviceInv' /\ Call(a) \in sensitive'
          /\ \A j \in Calls : j # Call(a) /\ Untouched(j) => Untouched(j)'
          /\ \A j \in Calls : j # Call(a) => (j \in sensitive' <=> j \in sensitive)
      BY <1>0, <2>1, <2>4, CreatePreservesTasks
    <3>2. ASSUME NEW b \in Agents, NEW n \in 1 .. MaxRounds, NotReached(b, n)'
          PROVE  Untouched(<<b, n>>)'
      <4>1. <<b, n>> \in Calls /\ <<b, n>> # Call(a)
        BY <1>0, <2>2, <3>1, <3>2, AgentOfRun DEF NotReached, Early
      <4>2. NotReached(b, n)
        BY <1>0, <2>1, <2>2, <3>1, <3>2, <4>1 DEF NotReached, Early
      <4>3. Untouched(<<b, n>>)
        BY <1>0, <4>2 DEF FreshCalls
      <4> QED
        BY <3>1, <4>1, <4>3
    <3> QED
      BY <3>1, <3>2 DEF TaskInv, FreshCalls
  <2> QED
    BY <1>6, <2>3, <2>4 DEF PrepareTool
<1>7. CASE CheckOpening(a)
  <2>1. go[a].pc = "opening" /\ UNCHANGED connectorVars
        /\ (StepTo(a, Checked(a, "open")) \/ StepTo(a, AfterError(a)))
    BY <1>7 DEF CheckOpening
  <2>2. "open" \in Steps /\ "open" \notin Early /\ AfterError(a) \in Past
    BY PastSteps DEF Early
  <2> QED
    BY <1>1, <2>1, <2>2, CheckedTaskStep
<1>8. ASSUME UNCHANGED connectorVars \/ ExpireTask(Call(a)), go[a].pc \notin Early,
             NEW result \in {"ok", "error"}, Answered(a, result)
      PROVE  TaskInv'
  <2>1. /\ DeviceInv' /\ sensitive' = sensitive
        /\ \A j \in Calls : Untouched(j) => Untouched(j)'
    BY <1>0, <1>8, DevicePreserves
  <2> QED
    BY <1>8, <2>1, AnswerTasks
<1>10. CASE RecordOpen(a)
  <2>1. /\ UNCHANGED connectorVars /\ go[a].pc = "open" /\ go[a].pc \notin Early
        /\ \/ \E pc \in {"wait", "call", AfterError(a)} : StepTo(a, pc)
           \/ Answered(a, "error")
           \/ Call(a) \notin sensitive /\ StepTo(a, "create")
    BY <1>10 DEF RecordOpen, Early
  <2>2. CASE \E pc \in {"wait", "call", AfterError(a)} : StepTo(a, pc)
    BY <1>1, <2>1, <2>2, PastSteps
  <2>3. CASE Call(a) \notin sensitive /\ StepTo(a, "create")
    <3>1. /\ go'[a].pc = "create" /\ go'[a].round = go[a].round
          /\ \A b \in Agents : b # a => go'[b] = go[b]
      BY <2>3, StepOfGoroutine, PastSteps
    <3>2. /\ DeviceInv' /\ sensitive' = sensitive
          /\ \A j \in Calls : Untouched(j) => Untouched(j)'
      BY <1>0, <2>1, DevicePreserves
    <3>3. \A n \in 1 .. MaxRounds : NotReached(a, n)' => NotReached(a, n)
      BY <1>0, <2>1, <2>3, <3>1, <3>2 DEF NotReached
    <3> QED
      BY <1>0, <3>1, <3>2, <3>3, FreshStep DEF TaskInv
  <2> QED
    BY <1>8, <2>1, <2>2, <2>3
<1>9. CASE CreateAutoTask(a)
  <2>0. Untouched(Call(a)) /\ go[a].pc = "create" /\ go[a].pc \notin Early \ {"create"}
    BY <1>0, <1>9 DEF CreateAutoTask, FreshCalls, NotReached, Early
  <2>a. CASE UNCHANGED connectorVars /\ Answered(a, "error")
    <3>1. /\ DeviceInv' /\ sensitive' = sensitive
          /\ \A j \in Calls : Untouched(j) => Untouched(j)'
      BY <1>0, <2>a, DevicePreserves
    <3>2. /\ go'[a].pc = "closing" /\ go'[a].round = go[a].round
          /\ \A b \in Agents : b # a => go'[b] = go[b]
      BY <2>a, AnswerOfGoroutine
    <3>3. \A n \in 1 .. MaxRounds : NotReached(a, n)' => NotReached(a, n)
      BY <3>2 DEF NotReached, Early
    <3> QED
      BY <1>0, <3>1, <3>2, <3>3, FreshStep DEF TaskInv
  <2>b. CASE \E ask \in BOOLEAN : CreateTask(Call(a), ask) /\ StepTo(a, "wait")
    <3>1. PICK ask \in BOOLEAN : CreateTask(Call(a), ask) /\ StepTo(a, "wait")
      BY <2>b
    <3>2. /\ go'[a].pc = "wait" /\ go'[a].round = go[a].round
          /\ \A b \in Agents : b # a => go'[b] = go[b]
      BY <3>1, StepOfGoroutine DEF Steps
    <3>3. /\ DeviceInv'
          /\ \A j \in Calls : j # Call(a) /\ Untouched(j) => Untouched(j)'
          /\ \A j \in Calls : j # Call(a) => (j \in sensitive' <=> j \in sensitive)
      BY <1>0, <2>0, <3>1, CreatePreservesTasks
    <3>4. ASSUME NEW b \in Agents, NEW n \in 1 .. MaxRounds, NotReached(b, n)'
          PROVE  Untouched(<<b, n>>)'
      <4>1. <<b, n>> \in Calls /\ <<b, n>> # Call(a)
        BY <1>0, <3>2, <3>4, AgentOfRun DEF NotReached, Early
      <4>2. NotReached(b, n)
        BY <1>0, <3>2, <3>3, <3>4, <4>1 DEF NotReached, Early
      <4>3. Untouched(<<b, n>>)
        BY <1>0, <4>2 DEF FreshCalls
      <4> QED
        BY <3>3, <4>1, <4>3
    <3> QED
      BY <3>3, <3>4 DEF TaskInv, FreshCalls
  <2> QED
    BY <1>9, <2>a, <2>b DEF CreateAutoTask
<1>11. CASE CallOther(a)
  BY <1>8, <1>11 DEF CallOther, Early
<1>12. CASE PollTask(a)
  <2>1. UNCHANGED connectorVars /\ go[a].pc \notin Early
        /\ (StepTo(a, "expire") \/ \E result \in {"ok", "error"} : Answered(a, result))
    BY <1>12 DEF PollTask, Early
  <2> QED
    BY <1>1, <1>8, <2>1, PastSteps
<1>13. CASE ExpireCall(a)
  BY <1>8, <1>13 DEF ExpireCall, GiveUpTask, Early
<1>14. CASE CheckClosing(a)
  <2>1. (StepTo(a, Checked(a, "close")) \/ StepTo(a, AfterError(a))) /\ UNCHANGED connectorVars
    BY <1>14 DEF CheckClosing
  <2>2. /\ "close" \in Steps /\ "close" \notin Early \cup {"opening", "open"}
        /\ AfterError(a) \in Past
    BY PastSteps DEF Past
  <2> QED
    BY <1>1, <2>1, <2>2, CheckedTaskStep
<1>15. CASE RecordClosed(a)
  <2>1. UNCHANGED connectorVars /\ go[a].pc \notin Early
    BY <1>15 DEF RecordClosed, Early
  <2>2. CASE StepTo(a, AfterError(a))
    BY <1>1, <2>1, <2>2, PastSteps
  <2>3. CASE go' = [go EXCEPT ![a] = NextRound(a)]
    <3>1. /\ NextRound(a).round \in {go[a].round, go[a].round + 1}
          /\ NextRound(a).round = go[a].round => NextRound(a).pc = AfterText(a)
      BY RoundOfGoroutine
    <3>2. go'[a] = NextRound(a) /\ \A b \in Agents : b # a => go'[b] = go[b]
      BY <2>3 DEF RunTypeOK
    <3>3. /\ DeviceInv' /\ sensitive' = sensitive
          /\ \A j \in Calls : Untouched(j) => Untouched(j)'
      BY <1>0, <2>1, DevicePreserves
    <3>4. AfterText(a) \notin Early \cup {"opening", "open"}
      BY PastSteps DEF Past
    <3>5. \A n \in 1 .. MaxRounds : NotReached(a, n)' => NotReached(a, n)
      BY <1>0, <3>1, <3>2, <3>4 DEF NotReached
    <3> QED
      BY <1>0, <3>2, <3>3, <3>5, FreshStep DEF TaskInv
  <2> QED
    BY <1>15, <2>2, <2>3 DEF RecordClosed
<1> QED
  BY <1>5, <1>6, <1>7, <1>9, <1>10, <1>11, <1>12, <1>13, <1>14, <1>15 DEF Work

LEMMA TaskInitial == ChatInit => TaskInv
<1> SUFFICES ASSUME ChatInit PROVE TaskInv
  OBVIOUS
<1>1. /\ \A k \in Calls : task[k] = "absent" /\ handed[k] = 0
      /\ sensitive = {} /\ approved = {} /\ executing = {} /\ device = TRUE
  BY DEF ChatInit, ConnectorInit
<1>2. ConnectorTypeOK
  BY DEF ChatInit, ConnectorInit, ConnectorTypeOK
<1>3. WaitingTasks /\ HandedOutOnce /\ ApprovedFirst
  BY <1>1 DEF WaitingTasks, HandedOutOnce, ApprovedFirst
<1>4. FreshCalls
  BY <1>1, AgentOfRun DEF FreshCalls, Untouched
<1> QED
  BY <1>2, <1>3, <1>4 DEF TaskInv, DeviceInv

LEMMA TaskSteps == LifeInv /\ TaskInv /\ [ChatNext]_vars => TaskInv'
<1> SUFFICES ASSUME LifeInv, TaskInv, [ChatNext]_vars PROVE TaskInv'
  OBVIOUS
<1>0. RunTypeOK
  BY DEF LifeInv
<1>1. ASSUME \/ DeviceNext \/ DeleteDevice \/ UNCHANGED connectorVars
             \/ \E r \in Runs : task' = Cancelled(task, r)
                                /\ UNCHANGED <<sensitive, approved, executing, handed, device>>,
             UNCHANGED go
      PROVE  TaskInv'
  <2>1. /\ DeviceInv' /\ sensitive' = sensitive
        /\ \A j \in Calls : Untouched(j) => Untouched(j)'
    BY <1>1, DevicePreserves DEF TaskInv
  <2> SUFFICES ASSUME NEW a \in Agents, NEW n \in 1 .. MaxRounds, NotReached(a, n)'
               PROVE  Untouched(<<a, n>>)'
    BY <2>1 DEF TaskInv, FreshCalls
  <2>2. NotReached(a, n)
    BY <1>1, <2>1 DEF NotReached
  <2>3. Untouched(<<a, n>>) /\ <<a, n>> \in Calls
    BY <2>2, AgentOfRun DEF TaskInv, FreshCalls
  <2> QED
    BY <2>1, <2>3
<1>3. ASSUME NEW h \in Handlers, NEW r \in Runs, BeginStop(h, r) \/ BeginSend(h, r)
      PROVE  TaskInv'
  BY <1>1, <1>3 DEF BeginStop, BeginSend
<1>4. ASSUME NEW r \in Runs, Lead(r)
      PROVE  TaskInv'
  BY <1>4, LeadPreservesTasks
<1>a. ASSUME NEW a \in Agents, Work(a)
      PROVE  TaskInv'
  BY <1>0, <1>a, WorkPreservesTasks
<1>5. CASE DeviceNext /\ UNCHANGED runVars
  BY <1>1, <1>5 DEF runVars
<1>6. CASE RemoveDevice
  BY <1>1, <1>6 DEF RemoveDevice
<1>7. CASE UNCHANGED vars
  BY <1>1, <1>7 DEF vars, runVars
<1>8. CASE DeleteSession
  BY <1>1, <1>8 DEF DeleteSession
<1>10. CASE Crash
  <2> DEFINE word == "dead"
             killed == [a \in Agents |-> [go[a] EXCEPT !.pc = word]]
  <2>1. /\ UNCHANGED connectorVars /\ word \notin Early \cup {"opening", "open"}
        /\ go' = [a \in Agents |-> IF go[a].pc \in {"none", "quit"} THEN go[a] ELSE killed[a]]
        /\ \A a \in Agents : go[a] \in Goroutine
    BY <1>0, <1>10 DEF Crash, Early, RunTypeOK
  <2> HIDE DEF word
  <2>2. \A a \in Agents : killed[a].pc = word /\ killed[a].round = go[a].round
    BY <2>1 DEF Goroutine
  <2> HIDE DEF killed
  <2> QED
    BY <2>1, <2>2, OnwardTasks
<1>11. ASSUME NEW h \in Handlers, Handle(h)
       PROVE  TaskInv'
  <2>1. CASE CreateRun(h)
    <3>1. UNCHANGED connectorVars
      BY <2>1 DEF CreateRun
    <3>2. CASE UNCHANGED go
      BY <1>1, <3>1, <3>2
    <3>3. CASE go' = [go EXCEPT ![Main(handler[h].next)].pc = "spawned"]
      <4> DEFINE a == Main(handler[h].next)
                 word == "spawned"
                 new == [go[a] EXCEPT !.pc = word]
      <4>1. a \in Agents /\ go[a].pc = "none"
        BY <2>1, AgentOfRun, ChatAssumption DEF CreateRun, LifeInv, HandlersKnow, GoroutinesKnow
      <4>2. go[a] \in Goroutine /\ go' = [go EXCEPT ![a] = new] /\ word \notin {"opening", "open"}
        BY <1>0, <3>3, <4>1 DEF RunTypeOK
      <4> HIDE DEF word, a
      <4>3. new.pc = word /\ new.round = go[a].round
        BY <4>2 DEF Goroutine
      <4> HIDE DEF new
      <4>4. go'[a] = new /\ \A b \in Agents : b # a => go'[b] = go[b]
        BY <1>0, <4>1, <4>2 DEF RunTypeOK
      <4>5. go[a].pc \in Early
        BY <4>1 DEF Early
      <4> QED
        BY <3>1, <4>2, <4>3, <4>4, <4>5, OnwardTasks
    <3> QED
      BY <2>1, <3>2, <3>3 DEF CreateRun
  <2>2. CASE StopRun(h)
    <3>1. handler[h].run \in Runs
      BY <2>2 DEF StopRun, LifeInv, HandlersKnow
    <3> QED
      BY <1>1, <2>2, <3>1 DEF StopRun, connectorVars
  <2>3. CASE SignalCancel(h) \/ AnnounceCancelled(h)
    BY <1>1, <2>3 DEF SignalCancel, AnnounceCancelled
  <2> QED
    BY <1>11, <2>1, <2>2, <2>3 DEF Handle
<1> QED
  BY <1>3, <1>4, <1>a, <1>5, <1>6, <1>7, <1>8, <1>10, <1>11 DEF ChatNext

(* The inductive invariant of the connector tasks: what each stage of a    *)
(* tool call implies for its task.                                         *)
THEOREM TaskInvariance == ChatSpec => []TaskInv
<1>1. ChatInit => TaskInv
  BY TaskInitial
<1>2. LifeInv /\ TaskInv /\ [ChatNext]_vars => TaskInv'
  BY TaskSteps
<1> QED
  BY <1>1, <1>2, LifeInvariance, PTL DEF ChatSpec

(* Both halves of the state keep their types.                              *)
THEOREM ChatTypeCorrect == ChatSpec => []ChatTypeOK
<1>1. LifeInv /\ TaskInv => ChatTypeOK
  BY DEF LifeInv, TaskInv, DeviceInv, ChatTypeOK
<1> QED
  BY <1>1, LifeInvariance, TaskInvariance, PTL

(* A task reaches the device once: claims race, but only a queued row can  *)
(* be claimed, and a row is queued once.                                   *)
THEOREM HandedOutAtMostOnce == ChatSpec => []HandedOutOnce
<1>1. TaskInv => HandedOutOnce
  BY DEF TaskInv, DeviceInv
<1> QED
  BY <1>1, TaskInvariance, PTL

(* A task that asks for the user's approval reaches the device with it.    *)
THEOREM ApprovedBeforeHandedOut == ChatSpec => []ApprovedFirst
<1>1. TaskInv => ApprovedFirst
  BY DEF TaskInv, DeviceInv
<1> QED
  BY <1>1, TaskInvariance, PTL

LEMMA ClosedStep ==
    ASSUME LifeInv, TaskInv, [ChatNext]_vars, NEW k \in Calls, task[k] \in Closed
    PROVE  task'[k] \notin Open
<1>0. ConnectorTypeOK /\ RunTypeOK /\ Closed \cap Open = {}
  BY DEF LifeInv, TaskInv, DeviceInv, Open, Closed
<1>1. CASE UNCHANGED task
  BY <1>0, <1>1
<1>2. ASSUME NEW j \in Calls, NEW ask \in BOOLEAN, CreateTask(j, ask), Untouched(j)
      PROVE  task'[k] \notin Open
  BY <1>0, <1>2 DEF CreateTask, Untouched, ConnectorTypeOK, Closed
<1>a. ASSUME NEW r \in Runs, Lead(r)
      PROVE  task'[k] \notin Open
  BY <1>1, <1>a DEF connectorVars, Lead, Register, StartRun, BeginRound, StartAgents, JoinAgents,
                    FinishRun, FailRun, EndAs, AnnounceEnd
<1>3. ASSUME NEW a \in Agents, Work(a)
      PROVE  task'[k] \notin Open
  <2>1. Call(a) \in Calls /\ (go[a].pc \in {"tool", "create"} => Untouched(Call(a)))
    BY <1>0, CallOfRun DEF TaskInv, FreshCalls, NotReached, Early
  <2>2. CASE PrepareTool(a)
    BY <1>1, <1>2, <2>1, <2>2 DEF PrepareTool, connectorVars
  <2>3. CASE CreateAutoTask(a)
    BY <1>1, <1>2, <2>1, <2>3 DEF CreateAutoTask, connectorVars
  <2>4. CASE ExpireCall(a)
    BY <1>0, <1>1, <2>1, <2>4 DEF ExpireCall, GiveUpTask, ExpireTask, ConnectorTypeOK, Open,
                                  Closed, connectorVars
  <2>5. CASE \/ AskModel(a) \/ CheckOpening(a) \/ RecordOpen(a) \/ CallOther(a) \/ PollTask(a)
             \/ CheckClosing(a) \/ RecordClosed(a)
    BY <1>1, <2>5 DEF connectorVars, AskModel, CheckOpening, RecordOpen, CallOther, PollTask,
                      CheckClosing, RecordClosed
  <2> QED
    BY <1>3, <2>2, <2>3, <2>4, <2>5 DEF Work
<1>4. ASSUME NEW h \in Handlers, Handle(h)
      PROVE  task'[k] \notin Open
  <2>1. UNCHANGED task \/ task' = Cancelled(task, handler[h].run)
    BY <1>4 DEF Handle, StopRun, SignalCancel, AnnounceCancelled, CreateRun, connectorVars
  <2>2. ASSUME NEW r, task' = Cancelled(task, r)
        PROVE  task'[k] \notin Open
    BY <1>0, <2>2 DEF Cancelled, Open, Closed
  <2> QED
    BY <1>1, <2>1, <2>2
<1>5. CASE DeviceNext
  BY <1>0, <1>5 DEF DeviceNext, ClaimTask, Claimable, DecideTask, Decidable, PostResult,
                    ConnectorTypeOK, Open, Closed
<1>6. CASE RemoveDevice
  BY <1>6 DEF RemoveDevice, DeleteDevice, Open
<1>7. CASE Crash \/ DeleteSession \/ UNCHANGED vars
  BY <1>1, <1>7 DEF Crash, DeleteSession, vars, connectorVars
<1>8. ASSUME NEW h \in Handlers, NEW r \in Runs, BeginStop(h, r) \/ BeginSend(h, r)
      PROVE  task'[k] \notin Open
  BY <1>1, <1>8 DEF BeginStop, BeginSend, connectorVars
<1> QED
  BY <1>a, <1>3, <1>4, <1>5, <1>6, <1>7, <1>8 DEF ChatNext

(* No late decision, late claim or new round reopens a task that is over.  *)
THEOREM ClosedForGood == ChatSpec => ClosedStaysClosed
<1>1. LifeInv /\ TaskInv /\ [ChatNext]_vars =>
        [\A k \in Calls : task[k] \in Closed => task'[k] \notin Open]_connectorVars
  BY ClosedStep
<1> QED
  BY <1>1, LifeInvariance, TaskInvariance, PTL DEF ChatSpec, ClosedStaysClosed

-----------------------------------------------------------------------------
(* What the user is shown of tool calls, and what is left for the device.  *)

OpenCall == {"running", "approval_required"}

(* Where an agent may be while its call is shown as going on, before its   *)
(* call is shown at all, and while a run's goroutine can still end its run.*)
Showing == {"create", "call", "join", "wait", "expire", "closing", "close", "dead"}

NotShown == {"none", "spawned", "registered", "round", "model", "tool", "opening", "open"}

Alive == Middle \cup {"spawned", "registered"}

(* Who will close an open task: the agent that waits for it, or nobody     *)
(* when the process has died or the run was gone before the call was shown.*)
Held(a, k) ==
    \/ go[a].pc \in {"wait", "expire", "dead"}
    \/ /\ k \in sensitive /\ tools[k] = "none"
       /\ \/ go[a].pc \in {"opening", "open"}
          \/ go[a].pc = "fail" /\ status[RunOf(a)] = "deleted"
          \/ go[a].pc = "quit" /\ status[RunOf(a)] \in {"cancelled", "deleted"}

CallShown(a, n) ==
    LET k == <<a, n>> IN
    /\ tools[k] \in OpenCall /\ status[RunOf(a)] \in Active \cup {"absent"} =>
         k \in missed \/ (n = go[a].round /\ go[a].pc \in Showing)
    /\ n > go[a].round \/ (n = go[a].round /\ go[a].pc \in NotShown) => tools[k] = "none"
    /\ task[k] \in Open => k \in missed \/ (n = go[a].round /\ Held(a, k))
    /\ status[RunOf(a)] \in {"completed", "failed"} => tools[k] \notin OpenCall \/ k \in missed

LiveRuns ==
    \A r \in Runs : go[Main(r)].pc \in Alive => status[r] \notin {"completed", "failed"}

CallsShown(a) == \A n \in 1 .. MaxRounds : CallShown(a, n)

ShownInv == LiveRuns /\ \A a \in Agents : CallsShown(a)

(* Nothing happens to the agent, and at most tasks of it are closed.       *)
LEMMA ShownElsewhere ==
    ASSUME NEW b \in Agents, CallsShown(b),
           go'[b] = go[b], status'[RunOf(b)] = status[RunOf(b)], missed \subseteq missed',
           \A n \in 1 .. MaxRounds :
             /\ tools'[<<b, n>>] = tools[<<b, n>>]
             /\ <<b, n>> \in sensitive' <=> <<b, n>> \in sensitive
             /\ task'[<<b, n>>] \in Open => task[<<b, n>>] \in Open
    PROVE  CallsShown(b)'
<1>1. ASSUME NEW n \in 1 .. MaxRounds
      PROVE  CallShown(b, n)'
  <2>1. CallShown(b, n)
    BY DEF CallsShown
  <2> QED
    BY <2>1 DEF CallShown, Held
<1> QED
  BY <1>1 DEF CallsShown

(* An agent that works, works for a run that can still end.                *)
LEMMA WorkLive ==
    ASSUME LifeInv, ShownInv, NEW a \in Agents, go[a].pc \in Working
    PROVE  status[RunOf(a)] \notin {"completed", "failed"}
<1>1. RunOf(a) \in Runs /\ (IsMain(a) => a = Main(RunOf(a)))
  BY AgentOfRun
<1>2. go[Main(RunOf(a))].pc \in Alive
  BY <1>1 DEF LifeInv, AgentsKnow, Alive, Middle, Working
<1> QED
  BY <1>1, <1>2 DEF ShownInv, LiveRuns

(* An agent moves within its round: what it must not forget.               *)
LEMMA MoveShown ==
    ASSUME ShownInv, NEW a \in Agents, NEW n \in 1 .. MaxRounds, go[a].round = n,
           UNCHANGED <<status, tools>>, missed \subseteq missed', go'[a].round = n,
           \A b \in Agents : b # a => go'[b] = go[b],
           \A k \in Calls : k # <<a, n>> =>
             /\ k \in sensitive' <=> k \in sensitive
             /\ task'[k] \in Open => task[k] \in Open,
           go[a].pc \in Showing /\ go'[a].pc \notin Showing =>
             status[RunOf(a)] \notin Active \cup {"absent"} \/ <<a, n>> \in missed',
           go'[a].pc \in NotShown => go[a].pc \in NotShown,
           go'[a].pc \in Alive => go[a].pc \in Alive,
           task'[<<a, n>>] \in Open => <<a, n>> \in missed' \/ Held(a, <<a, n>>)'
    PROVE  ShownInv'
<1>1. ASSUME NEW b \in Agents, b # a
      PROVE  CallsShown(b)'
  <2>1. \A m \in 1 .. MaxRounds : <<b, m>> \in Calls /\ <<b, m>> # <<a, n>>
    BY <1>1, AgentOfRun
  <2> QED
    BY <1>1, <2>1, ShownElsewhere DEF ShownInv
<1>2. ASSUME NEW m \in 1 .. MaxRounds
      PROVE  CallShown(a, m)'
  <2>1. CallShown(a, m)
    BY DEF ShownInv, CallsShown
  <2>2. CASE m = n
    BY <2>1, <2>2 DEF CallShown
  <2>3. CASE m # n
    <3>1. <<a, m>> \in Calls /\ <<a, m>> # <<a, n>>
      BY <2>3, AgentOfRun
    <3>2. task'[<<a, m>>] \in Open => <<a, m>> \in missed'
      BY <2>1, <2>3, <3>1 DEF CallShown
    <3> QED
      BY <2>1, <2>3, <3>2 DEF CallShown
  <2> QED
    BY <2>2, <2>3
<1>3. LiveRuns'
  <2>1. \A r \in Runs : go'[Main(r)].pc \in Alive => go[Main(r)].pc \in Alive
    BY AgentOfRun
  <2> QED
    BY <2>1 DEF ShownInv, LiveRuns
<1> QED
  BY <1>1, <1>2, <1>3 DEF ShownInv, CallsShown

(* What the invariant says of the call of the agent's round.               *)
LEMMA CurrentCall ==
    ASSUME RunTypeOK, ShownInv, NEW a \in Agents
    PROVE  /\ go[a].round \in 1 .. MaxRounds /\ go[a] \in Goroutine
           /\ Call(a) = <<a, go[a].round>> /\ Call(a) \in Calls
           /\ CallShown(a, go[a].round)
           /\ task[Call(a)] \in Open => Call(a) \in missed \/ Held(a, Call(a))
<1>1. /\ go[a].round \in 1 .. MaxRounds /\ go[a] \in Goroutine
      /\ Call(a) = <<a, go[a].round>> /\ Call(a) \in Calls
  BY CallOfRun
<1>3. CallShown(a, go[a].round)
  BY <1>1 DEF ShownInv, CallsShown
<1> QED
  BY <1>1, <1>3 DEF CallShown

(* The device, the user and the clock open no task.                        *)
LEMMA NoneOpened ==
    ASSUME DeviceInv,
           \/ DeviceNext \/ DeleteDevice
           \/ \E k \in Calls : ExpireTask(k)
           \/ UNCHANGED connectorVars
    PROVE  /\ sensitive' = sensitive
           /\ \A k \in Calls : task'[k] \in Open => task[k] \in Open
<1>0. task \in [Calls -> Open \cup Closed \cup {"absent"}]
  BY DEF DeviceInv, ConnectorTypeOK
<1>1. ASSUME NEW k \in Calls, ClaimTask(k) \/ \E yes \in BOOLEAN : DecideTask(k, yes)
      PROVE  sensitive' = sensitive /\ \A j \in Calls : task'[j] \in Open => task[j] \in Open
  BY <1>0, <1>1 DEF ClaimTask, Claimable, DecideTask, Decidable, Open
<1>2. ASSUME NEW k \in Calls, \E success, again \in BOOLEAN : PostResult(k, success, again)
      PROVE  sensitive' = sensitive /\ \A j \in Calls : task'[j] \in Open => task[j] \in Open
  BY <1>0, <1>2 DEF PostResult, Open
<1>3. ASSUME NEW k \in Calls, ExpireTask(k)
      PROVE  sensitive' = sensitive /\ \A j \in Calls : task'[j] \in Open => task[j] \in Open
  BY <1>0, <1>3 DEF ExpireTask, Open
<1>4. CASE DeleteDevice
  BY <1>4 DEF DeleteDevice, Open
<1> QED
  BY <1>1, <1>2, <1>3, <1>4 DEF DeviceNext, connectorVars

(* One step to pc while the call's task, if it is open, is held.           *)
LEMMA StepShown ==
    ASSUME LifeInv, ShownInv, NEW a \in Agents, NEW pc \in Steps, StepTo(a, pc),
           UNCHANGED <<status, tools, connectorVars>>, missed \subseteq missed',
           go[a].pc \in Showing /\ pc \notin Showing =>
             status[RunOf(a)] \notin Active \cup {"absent"} \/ Call(a) \in missed',
           pc \in NotShown => go[a].pc \in NotShown,
           pc \in Alive => go[a].pc \in Alive,
           task[Call(a)] \in Open =>
             \/ Call(a) \in missed'
             \/ pc \in {"wait", "expire"}
             \/ /\ Call(a) \in sensitive /\ tools[Call(a)] = "none"
                /\ \/ pc = "open"
                   \/ pc = "fail" /\ status[RunOf(a)] = "deleted"
                   \/ pc = "quit" /\ status[RunOf(a)] \in {"cancelled", "deleted"}
    PROVE  ShownInv'
<1>1. RunTypeOK
  BY DEF LifeInv
<1>2. PICK n \in 1 .. MaxRounds : n = go[a].round
  BY <1>1, CurrentCall
<1>3. Call(a) = <<a, n>>
  BY <1>2 DEF Call
<1>4. /\ go'[a].pc = pc /\ go'[a].round = n
      /\ \A b \in Agents : b # a => go'[b] = go[b]
  BY <1>1, <1>2, StepOfGoroutine
<1>5. task' = task /\ sensitive' = sensitive
  BY DEF connectorVars
<1>6. task'[<<a, n>>] \in Open => <<a, n>> \in missed' \/ Held(a, <<a, n>>)'
  BY <1>3, <1>4, <1>5 DEF Held
<1> QED
  BY <1>2, <1>3, <1>4, <1>5, <1>6, MoveShown

(* The same for an answer.                                                 *)
LEMMA AnswerShown ==
    ASSUME LifeInv, ShownInv, NEW a \in Agents,
           NEW result \in {"ok", "error"}, Answered(a, result),
           go[a].pc \in {"create", "call", "join", "wait", "expire"},
           UNCHANGED <<status, tools, sensitive>>, missed \subseteq missed',
           \A k \in Calls : task'[k] \in Open => task[k] \in Open,
           task'[Call(a)] \in Open => Call(a) \in missed'
    PROVE  ShownInv'
<1>1. RunTypeOK
  BY DEF LifeInv
<1>2. PICK n \in 1 .. MaxRounds : n = go[a].round
  BY <1>1, CurrentCall
<1>3. Call(a) = <<a, n>>
  BY <1>2 DEF Call
<1>4. /\ go'[a].pc = "closing" /\ go'[a].round = n
      /\ \A b \in Agents : b # a => go'[b] = go[b]
  BY <1>1, <1>2, AnswerOfGoroutine
<1>5. /\ go'[a].pc \in Showing /\ go'[a].pc \notin NotShown /\ go[a].pc \in Alive
  BY <1>4 DEF Showing, NotShown, Alive, Middle, Working
<1> QED
  BY <1>2, <1>3, <1>4, <1>5, MoveShown

(* The places an agent goes to when its call does not go on.               *)
LEMMA OutPlaces ==
    /\ \A a \in Agents :
         /\ AfterError(a) \in {"quit", "fail"} /\ AfterText(a) \in {"quit", "finish"}
         /\ \A pc : Checked(a, pc) = pc \/ Checked(a, pc) \in {"quit", "fail"}
    /\ {"quit", "fail", "finish", "tool", "model", "round", "open", "close", "expire", "wait"}
         \subseteq Steps
    /\ {"quit", "fail", "finish"} \cap (NotShown \cup Showing) = {}
    /\ Working \subseteq Alive /\ {"round", "fail", "finish", "join"} \subseteq Alive
BY DEF AfterError, AfterText, Checked, Steps, NotShown, Showing, Working, Alive, Middle

(* Asking, checking and waiting: the steps that show nothing.              *)
LEMMA QuietShown ==
    ASSUME LifeInv, ShownInv, NEW a \in Agents,
           AskModel(a) \/ CheckOpening(a) \/ CheckClosing(a)
    PROVE  ShownInv'
<1>0. RunTypeOK /\ (task[Call(a)] \in Open => Call(a) \in missed \/ Held(a, Call(a)))
  BY CurrentCall DEF LifeInv
<1>2. CASE AskModel(a)
  <2>1. PICK pc \in {"quit", "fail", "tool", "finish"} : StepTo(a, pc)
    BY <1>2, OutPlaces DEF AskModel
  <2>2. go[a].pc = "model" /\ UNCHANGED <<status, tools, connectorVars, missed>> /\ pc \in Steps
    BY <1>2, OutPlaces DEF AskModel
  <2>3. task[Call(a)] \in Open => Call(a) \in missed
    BY <1>0, <2>2 DEF Held
  <2> QED
    BY <2>1, <2>2, <2>3, StepShown DEF Showing, NotShown, Alive, Middle, Working
<1>3. CASE CheckOpening(a)
  <2>1. PICK pc \in {"open", "quit", "fail"} :
          /\ StepTo(a, pc) /\ missed \subseteq missed'
          /\ \/ Call(a) \in missed'
             \/ pc = "open"
             \/ pc = "fail" /\ status[RunOf(a)] = "deleted"
             \/ pc = "quit" /\ status[RunOf(a)] \in {"cancelled", "deleted"}
    BY <1>3 DEF CheckOpening, Checked, Miss, AfterError
  <2>2. go[a].pc = "opening" /\ UNCHANGED <<status, tools, connectorVars>> /\ pc \in Steps
    BY <1>3, OutPlaces DEF CheckOpening
  <2>4. task[Call(a)] \in Open =>
          Call(a) \in missed \/ (Call(a) \in sensitive /\ tools[Call(a)] = "none")
    BY <1>0, <2>2 DEF Held
  <2> QED
    BY <2>1, <2>2, <2>4, StepShown DEF Showing, NotShown, Alive, Middle, Working
<1>4. CASE CheckClosing(a)
  <2>1. PICK pc \in {"close", "quit", "fail"} :
          /\ StepTo(a, pc) /\ missed \subseteq missed'
          /\ \/ Call(a) \in missed'
             \/ pc = "close"
             \/ status[RunOf(a)] \in {"cancelled", "deleted"}
    BY <1>4 DEF CheckClosing, Checked, Miss, AfterError
  <2>2. go[a].pc = "closing" /\ UNCHANGED <<status, tools, connectorVars>> /\ pc \in Steps
    BY <1>4, OutPlaces DEF CheckClosing
  <2>4. task[Call(a)] \in Open => Call(a) \in missed
    BY <1>0, <2>2 DEF Held
  <2> QED
    BY <2>1, <2>2, <2>4, StepShown DEF Showing, NotShown, Alive, Middle, Working, Active
<1> QED
  BY <1>2, <1>3, <1>4

(* The steps that give the device a task or leave it one.                  *)
LEMMA GivingShown ==
    ASSUME LifeInv, TaskInv, ShownInv, NEW a \in Agents,
           PrepareTool(a) \/ CreateAutoTask(a) \/ CallOther(a) \/ PollTask(a) \/ ExpireCall(a)
    PROVE  ShownInv'
<1>0. /\ RunTypeOK /\ task \in [Calls -> Open \cup Closed \cup {"absent"}]
      /\ Call(a) \in Calls /\ (task[Call(a)] \in Open => Call(a) \in missed \/ Held(a, Call(a)))
      /\ missed \subseteq Calls
  BY CurrentCall DEF LifeInv, RunTypeOK, TaskInv, DeviceInv, ConnectorTypeOK
<1>1. PICK n \in 1 .. MaxRounds : n = go[a].round
  BY <1>0, CurrentCall
<1>2. Call(a) = <<a, n>>
  BY <1>1 DEF Call
<1>4. CASE PrepareTool(a)
  <2>1. /\ go[a].pc = "tool" /\ UNCHANGED <<status, tools, missed>> /\ StepTo(a, "opening")
        /\ CreateTask(Call(a), TRUE) \/ UNCHANGED connectorVars
    BY <1>4 DEF PrepareTool
  <2>2. /\ go'[a].pc = "opening" /\ go'[a].round = n
        /\ \A b \in Agents : b # a => go'[b] = go[b]
    BY <1>0, <1>1, <2>1, StepOfGoroutine DEF Steps
  <2>3. /\ \A k \in Calls : k # <<a, n>> =>
             (k \in sensitive' <=> k \in sensitive) /\ task'[k] = task[k]
        /\ task'[<<a, n>>] \in Open => <<a, n>> \in sensitive' \/ <<a, n>> \in missed'
    BY <1>0, <1>2, <2>1 DEF CreateTask, connectorVars, Held
  <2>4. tools'[<<a, n>>] = "none"
    BY <1>0, <1>1, <2>1, CurrentCall DEF CallShown, NotShown
  <2>5. task'[<<a, n>>] \in Open => <<a, n>> \in missed' \/ Held(a, <<a, n>>)'
    BY <2>2, <2>3, <2>4 DEF Held
  <2>6. go[a].pc \notin Showing /\ go[a].pc \in NotShown /\ go[a].pc \in Alive
    BY <2>1 DEF Showing, NotShown, Alive, Middle, Working
  <2> QED
    BY <1>1, <2>1, <2>2, <2>3, <2>5, <2>6, MoveShown
<1>5. CASE CreateAutoTask(a)
  <2>1. go[a].pc = "create" /\ UNCHANGED <<status, tools, missed>>
    BY <1>5 DEF CreateAutoTask
  <2>2. CASE UNCHANGED connectorVars /\ Answered(a, "error")
    <3>1. task' = task /\ sensitive' = sensitive /\ (task'[Call(a)] \in Open => Call(a) \in missed')
      BY <1>0, <2>1, <2>2 DEF connectorVars, Held
    <3> QED
      BY <2>1, <2>2, <3>1, AnswerShown
  <2>3. CASE \E ask \in BOOLEAN : CreateTask(Call(a), ask) /\ StepTo(a, "wait")
    <3>1. PICK ask \in BOOLEAN : CreateTask(Call(a), ask) /\ StepTo(a, "wait")
      BY <2>3
    <3>2. /\ go'[a].pc = "wait" /\ go'[a].round = n
          /\ \A b \in Agents : b # a => go'[b] = go[b]
      BY <1>0, <1>1, <3>1, StepOfGoroutine DEF Steps
    <3>3. \A k \in Calls : k # <<a, n>> =>
               (k \in sensitive' <=> k \in sensitive) /\ task'[k] = task[k]
      BY <1>0, <1>2, <3>1 DEF CreateTask
    <3>4. Held(a, <<a, n>>)'
      BY <3>2 DEF Held
    <3>5. go'[a].pc \in Showing /\ go'[a].pc \notin NotShown /\ go[a].pc \in Alive
      BY <2>1, <3>2 DEF Showing, NotShown, Alive, Middle, Working
    <3> QED
      BY <1>1, <2>1, <3>2, <3>3, <3>4, <3>5, MoveShown
  <2> QED
    BY <1>5, <2>2, <2>3 DEF CreateAutoTask
<1>7. CASE CallOther(a)
  <2>1. go[a].pc = "call" /\ UNCHANGED <<status, tools, connectorVars, missed>>
    BY <1>7 DEF CallOther
  <2>2. task' = task /\ sensitive' = sensitive /\ (task'[Call(a)] \in Open => Call(a) \in missed')
    BY <1>0, <2>1 DEF connectorVars, Held
  <2> QED
    BY <1>7, <2>1, <2>2, AnswerShown DEF CallOther
<1>8. CASE PollTask(a)
  <2>1. go[a].pc = "wait" /\ UNCHANGED <<status, tools, connectorVars>> /\ missed \subseteq missed'
    BY <1>8 DEF PollTask, Miss
  <2>2. task' = task /\ sensitive' = sensitive
    BY <2>1 DEF connectorVars
  <2>3. CASE \E result \in {"ok", "error"} : /\ Answered(a, result)
                                             /\ task[Call(a)] \in Open => Call(a) \in missed'
    BY <2>1, <2>2, <2>3, AnswerShown
  <2>4. CASE StepTo(a, "expire")
    BY <2>1, <2>4, OutPlaces, StepShown DEF Showing, NotShown, Alive, Middle, Working
  <2> QED
    BY <1>8, <2>3, <2>4 DEF PollTask, Miss
<1>9. CASE ExpireCall(a)
  <2>1. /\ go[a].pc = "expire" /\ UNCHANGED <<status, tools>> /\ Answered(a, "error")
        /\ missed \subseteq missed'
        /\ \/ ExpireTask(Call(a))
           \/ UNCHANGED connectorVars /\ Call(a) \in missed'
    BY <1>9 DEF ExpireCall, GiveUpTask, Miss
  <2>2. /\ sensitive' = sensitive /\ (task'[Call(a)] \in Open => Call(a) \in missed')
        /\ \A k \in Calls : task'[k] \in Open => task[k] \in Open
    BY <1>0, <2>1 DEF ExpireTask, Open, connectorVars
  <2> QED
    BY <2>1, <2>2, AnswerShown
<1> QED
  BY <1>4, <1>5, <1>7, <1>8, <1>9

(* An agent shows its call, or how it ended, and goes on or out.           *)
LEMMA ToolShown ==
    ASSUME LifeInv, ShownInv, NEW a \in Agents, NEW n \in 1 .. MaxRounds, n = go[a].round,
           NEW word, tools' = [tools EXCEPT ![<<a, n>>] = word],
           UNCHANGED <<status, connectorVars>>, missed \subseteq missed',
           go[a].pc \in Working,
           \A b \in Agents : b # a => go'[b] = go[b],
           go'[a].round \in {n, n + 1},
           go'[a].round = n => go'[a].pc \notin NotShown,
           word \in OpenCall =>
             <<a, n>> \in missed' \/ (go'[a].round = n /\ go'[a].pc \in Showing),
           task[<<a, n>>] \in Open =>
             <<a, n>> \in missed' \/ (go'[a].round = n /\ Held(a, <<a, n>>)')
    PROVE  ShownInv'
<1>0. /\ tools \in [Calls -> ToolStatus] /\ task' = task /\ sensitive' = sensitive
      /\ status[RunOf(a)] \notin {"completed", "failed"} /\ <<a, n>> \in Calls
  BY ToolTypes, WorkLive, AgentOfRun DEF connectorVars
<1>1. tools'[<<a, n>>] = word /\ \A k \in Calls : k # <<a, n>> => tools'[k] = tools[k]
  BY <1>0
<1>2. ASSUME NEW b \in Agents, b # a
      PROVE  CallsShown(b)'
  <2>1. \A m \in 1 .. MaxRounds : <<b, m>> \in Calls /\ <<b, m>> # <<a, n>>
    BY <1>2, AgentOfRun
  <2> QED
    BY <1>0, <1>1, <1>2, <2>1, ShownElsewhere DEF ShownInv
<1>3. ASSUME NEW m \in 1 .. MaxRounds
      PROVE  CallShown(a, m)'
  <2>1. CallShown(a, m)
    BY DEF ShownInv, CallsShown
  <2>2. CASE m = n
    <3>1. ~(m > go'[a].round) /\ ~(m = go'[a].round /\ go'[a].pc \in NotShown)
      BY <2>2
    <3> QED
      BY <1>0, <1>1, <2>2, <3>1 DEF CallShown
  <2>3. CASE m # n
    <3>1. /\ tools'[<<a, m>>] = tools[<<a, m>>]
          /\ task[<<a, m>>] \in Open => <<a, m>> \in missed
      BY <1>1, <2>1, <2>3, AgentOfRun DEF CallShown
    <3>2. status[RunOf(a)] \in Active \cup {"absent"} =>
            tools[<<a, m>>] \notin OpenCall \/ <<a, m>> \in missed
      BY <2>1, <2>3 DEF CallShown
    <3>3. m > go'[a].round \/ m = go'[a].round => m > n
      BY <2>3
    <3>4. m > n => tools[<<a, m>>] = "none"
      BY <2>1 DEF CallShown
    <3> QED
      BY <1>0, <3>1, <3>2, <3>3, <3>4 DEF CallShown
  <2> QED
    BY <2>2, <2>3
<1>4. LiveRuns'
  <2> SUFFICES ASSUME NEW r \in Runs, go'[Main(r)].pc \in Alive
               PROVE  status[r] \notin {"completed", "failed"}
    BY DEF LiveRuns
  <2>1. CASE Main(r) = a
    BY <1>0, <2>1, AgentOfRun
  <2>2. CASE Main(r) # a
    BY <2>2, AgentOfRun DEF ShownInv, LiveRuns
  <2> QED
    BY <2>1, <2>2
<1> QED
  BY <1>2, <1>3, <1>4 DEF ShownInv, CallsShown

LEMMA RecordOpenShown ==
    ASSUME LifeInv, ShownInv, NEW a \in Agents, RecordOpen(a)
    PROVE  ShownInv'
<1>0. /\ RunTypeOK /\ tools \in [Calls -> ToolStatus] /\ go[a].pc = "open" /\ go[a].pc \in Working
      /\ Call(a) \in Calls /\ (task[Call(a)] \in Open => Call(a) \in missed \/ Held(a, Call(a)))
      /\ UNCHANGED <<connectorVars, status>> /\ missed \subseteq missed'
  BY CurrentCall, ToolTypes DEF LifeInv, RecordOpen, Working, Miss
<1>1. PICK n \in 1 .. MaxRounds : n = go[a].round
  BY <1>0, CurrentCall
<1>2. Call(a) = <<a, n>> /\ task' = task /\ sensitive' = sensitive
  BY <1>0, <1>1 DEF Call, connectorVars
<1>3. task[Call(a)] \in Open => Call(a) \in missed \/ (Call(a) \in sensitive /\ tools[Call(a)] = "none")
  BY <1>0 DEF Held
<1>4. CASE /\ StepTo(a, AfterError(a)) /\ UNCHANGED tools
           /\ status[RunOf(a)] = "deleted" \/ Call(a) \in missed'
  <2>1. PICK pc \in {"quit", "fail"} : pc = AfterError(a)
    BY OutPlaces
  <2>2. go[a].pc \notin Showing /\ pc \notin NotShown /\ pc \in Steps /\ go[a].pc \in Alive
    BY <1>0, OutPlaces DEF Showing
  <2> QED
    BY <1>0, <1>3, <1>4, <2>1, <2>2, StepShown
<1>5. ASSUME NEW word, NEW pc \in Steps \ NotShown, StepTo(a, pc),
             tools' = Shown(a, word),
             word \in OpenCall => Call(a) \in missed' \/ pc \in Showing,
             Call(a) \in sensitive => pc = "wait" \/ Call(a) \in missed'
      PROVE  ShownInv'
  <2>1. /\ go'[a].pc = pc /\ go'[a].round = n
        /\ \A b \in Agents : b # a => go'[b] = go[b]
    BY <1>0, <1>1, <1>5, StepOfGoroutine
  <2>2. task[<<a, n>>] \in Open => <<a, n>> \in missed' \/ Held(a, <<a, n>>)'
    BY <1>0, <1>2, <1>3, <1>5, <2>1 DEF Held
  <2> QED
    BY <1>0, <1>1, <1>2, <1>5, <2>1, <2>2, ToolShown DEF Shown
<1>6. CASE /\ Call(a) \notin sensitive /\ tools' = Shown(a, "error") /\ Answered(a, "error")
  <2>1. /\ go'[a].pc = "closing" /\ go'[a].round = n
        /\ \A b \in Agents : b # a => go'[b] = go[b]
    BY <1>0, <1>1, <1>6, AnswerOfGoroutine
  <2>2. /\ "closing" \notin NotShown /\ "error" \notin OpenCall
        /\ task[<<a, n>>] \in Open => <<a, n>> \in missed'
    BY <1>0, <1>2, <1>3, <1>6 DEF NotShown, OpenCall
  <2> QED
    BY <1>0, <1>1, <1>2, <1>6, <2>1, <2>2, ToolShown DEF Shown
<1>7. CASE /\ StepTo(a, AfterError(a)) /\ tools' = ShownOpen(a) /\ Call(a) \in missed'
  <2>1. PICK pc \in {"quit", "fail"} : pc = AfterError(a)
    BY OutPlaces
  <2>2. pc \in Steps \ NotShown
    BY OutPlaces
  <2> QED
    BY <1>5, <1>7, <2>1, <2>2 DEF ShownOpen
<1>8. CASE \E pc \in IF Call(a) \in sensitive THEN {"wait"} ELSE {"create", "call"} :
             StepTo(a, pc) /\ tools' = ShownOpen(a)
  <2>1. PICK pc \in {"wait", "create", "call"} :
          /\ StepTo(a, pc) /\ tools' = ShownOpen(a)
          /\ Call(a) \in sensitive => pc = "wait"
    BY <1>8
  <2>2. pc \in Steps \ NotShown /\ pc \in Showing
    BY DEF Steps, NotShown, Showing
  <2> QED
    BY <1>5, <2>1, <2>2 DEF ShownOpen
<1> QED
  BY <1>0, <1>4, <1>6, <1>7, <1>8, CallOfRun DEF RecordOpen, Miss

LEMMA RecordClosedShown ==
    ASSUME LifeInv, ShownInv, NEW a \in Agents, RecordClosed(a)
    PROVE  ShownInv'
<1>0. /\ RunTypeOK /\ go[a].pc = "close" /\ go[a].pc \in Working /\ go[a] \in Goroutine
      /\ Call(a) \in Calls /\ (task[Call(a)] \in Open => Call(a) \in missed \/ Held(a, Call(a)))
      /\ UNCHANGED <<connectorVars, status>> /\ missed \subseteq missed'
  BY CurrentCall DEF LifeInv, RecordClosed, Working, Miss
<1>1. PICK n \in 1 .. MaxRounds : n = go[a].round
  BY <1>0, CurrentCall
<1>2. /\ Call(a) = <<a, n>> /\ (task[Call(a)] \in Open => Call(a) \in missed')
      /\ go[a].result \notin OpenCall
  BY <1>0, <1>1 DEF Call, Held, Goroutine, OpenCall
<1>3. CASE /\ StepTo(a, AfterError(a)) /\ UNCHANGED tools
           /\ status[RunOf(a)] = "deleted" \/ Call(a) \in missed'
  <2>1. PICK pc \in {"quit", "fail"} : pc = AfterError(a)
    BY OutPlaces
  <2>2. pc \notin NotShown /\ pc \in Steps /\ go[a].pc \in Alive
    BY <1>0, OutPlaces
  <2> QED
    BY <1>0, <1>2, <1>3, <2>1, <2>2, StepShown DEF Active
<1>4. CASE StepTo(a, AfterError(a)) /\ tools' = ClosedCall(a)
  <2>1. PICK pc \in {"quit", "fail"} : pc = AfterError(a)
    BY OutPlaces
  <2>2. pc \in Steps /\ pc \notin NotShown
    BY OutPlaces
  <2>3. /\ go'[a].pc = pc /\ go'[a].round = n
        /\ \A b \in Agents : b # a => go'[b] = go[b]
    BY <1>0, <1>1, <1>4, <2>1, <2>2, StepOfGoroutine
  <2> QED
    BY <1>0, <1>1, <1>2, <1>4, <2>2, <2>3, ToolShown DEF ClosedCall, Shown
<1>5. CASE tools' = ClosedCall(a) /\ go' = [go EXCEPT ![a] = NextRound(a)]
  <2>1. /\ NextRound(a).round \in {n, n + 1}
        /\ NextRound(a).round = n => NextRound(a).pc = AfterText(a)
    BY <1>0, <1>1, RoundOfGoroutine
  <2>2. go'[a] = NextRound(a) /\ \A b \in Agents : b # a => go'[b] = go[b]
    BY <1>0, <1>5 DEF RunTypeOK
  <2>3. AfterText(a) \notin NotShown
    BY OutPlaces
  <2>4. /\ go'[a].round \in {n, n + 1} /\ (go'[a].round = n => go'[a].pc \notin NotShown)
        /\ \A b \in Agents : b # a => go'[b] = go[b]
    BY <2>1, <2>2, <2>3
  <2>5. tools' = [tools EXCEPT ![<<a, n>>] = go[a].result]
    BY <1>2, <1>5 DEF ClosedCall, Shown
  <2> QED
    BY <1>0, <1>1, <1>2, <2>4, <2>5, ToolShown
<1> QED
  BY <1>0, <1>3, <1>4, <1>5, CallOfRun DEF RecordClosed, Miss

LEMMA WorkShown ==
    ASSUME LifeInv, TaskInv, ShownInv, NEW a \in Agents, Work(a)
    PROVE  ShownInv'
BY QuietShown, GivingShown, RecordOpenShown, RecordClosedShown DEF Work

-----------------------------------------------------------------------------
(* The same for the steps of a run's own goroutine.                        *)

(* The goroutine of a run alone: no sub-agent works.                       *)
LEMMA AloneShown ==
    ASSUME LifeInv, ShownInv, NEW r \in Runs,
           go[Main(r)].pc \in {"registered", "finish", "fail"}, IsActive(r)
    PROVE  \A b \in Agents : RunOf(b) = r =>
             /\ go[b].pc \notin Showing
             /\ \A n \in 1 .. MaxRounds :
                  /\ task[<<b, n>>] \in Open => <<b, n>> \in missed
                  /\ tools[<<b, n>>] \in OpenCall => <<b, n>> \in missed
<1> SUFFICES ASSUME NEW b \in Agents, RunOf(b) = r
             PROVE  /\ go[b].pc \notin Showing
                    /\ \A n \in 1 .. MaxRounds :
                         /\ task[<<b, n>>] \in Open => <<b, n>> \in missed
                         /\ tools[<<b, n>>] \in OpenCall => <<b, n>> \in missed
  OBVIOUS
<1>1. go[b].pc \in {"none", "quit", "registered", "finish", "fail"}
  BY AgentOfRun DEF LifeInv, AgentsKnow
<1>2. go[b].pc \notin Showing
  BY <1>1 DEF Showing
<1>3. ASSUME NEW n \in 1 .. MaxRounds
      PROVE  /\ task[<<b, n>>] \in Open => <<b, n>> \in missed
             /\ tools[<<b, n>>] \in OpenCall => <<b, n>> \in missed
  <2>1. CallShown(b, n)
    BY DEF ShownInv, CallsShown
  <2>2. status[RunOf(b)] \notin {"deleted", "cancelled"} /\ status[RunOf(b)] \in Active
    BY DEF IsActive, Active
  <2> QED
    BY <1>1, <1>2, <2>1, <2>2 DEF CallShown, Held
<1> QED
  BY <1>2, <1>3

(* The row of one run moves on.                                            *)
LEMMA StatusShown ==
    ASSUME LifeInv, ShownInv, NEW r \in Runs, NEW new \in {"running", "completed", "failed"},
           go[Main(r)].pc \in {"registered", "finish", "fail"}, IsActive(r),
           status' = [status EXCEPT ![r] = new],
           UNCHANGED <<tools, connectorVars, missed>>,
           go'[Main(r)].round = go[Main(r)].round,
           \A b \in Agents : b # Main(r) => go'[b] = go[b],
           go'[Main(r)].pc \in NotShown => go[Main(r)].pc \in NotShown,
           go'[Main(r)].pc \in Alive => new = "running"
    PROVE  ShownInv'
<1>1. /\ status'[r] = new /\ (\A s \in Runs : s # r => status'[s] = status[s])
      /\ task' = task /\ sensitive' = sensitive
  BY DEF connectorVars, LifeInv, RunTypeOK
<1>2. ASSUME NEW b \in Agents, RunOf(b) # r
      PROVE  CallsShown(b)'
  <2>1. RunOf(b) \in Runs /\ b # Main(r)
    BY <1>2, AgentOfRun
  <2> QED
    BY <1>1, <1>2, <2>1, ShownElsewhere DEF ShownInv
<1>3. ASSUME NEW b \in Agents, RunOf(b) = r
      PROVE  CallsShown(b)'
  <2> SUFFICES ASSUME NEW n \in 1 .. MaxRounds
               PROVE  CallShown(b, n)'
    BY DEF CallsShown
  <2>1. CallShown(b, n)
    BY DEF ShownInv, CallsShown
  <2>2. /\ task[<<b, n>>] \in Open => <<b, n>> \in missed
        /\ tools[<<b, n>>] \in OpenCall => <<b, n>> \in missed
    BY <1>3, AloneShown
  <2>3. go'[b].round = go[b].round /\ (go'[b].pc \in NotShown => go[b].pc \in NotShown)
    BY AgentOfRun
  <2> QED
    BY <1>1, <2>1, <2>2, <2>3 DEF CallShown
<1>4. LiveRuns'
  <2> SUFFICES ASSUME NEW s \in Runs, go'[Main(s)].pc \in Alive
               PROVE  status'[s] \notin {"completed", "failed"}
    BY DEF LiveRuns
  <2>1. CASE s = r
    BY <1>1, <2>1
  <2>2. CASE s # r
    <3>1. Main(s) \in Agents /\ Main(s) # Main(r)
      BY <2>2, AgentOfRun
    <3> QED
      BY <1>1, <2>2, <3>1 DEF ShownInv, LiveRuns
  <2> QED
    BY <2>1, <2>2
<1> QED
  BY <1>2, <1>3, <1>4 DEF ShownInv

LEMMA EndingShown ==
    ASSUME LifeInv, ShownInv, NEW r \in Runs, StartRun(r) \/ FinishRun(r) \/ FailRun(r)
    PROVE  ShownInv'
<1> DEFINE a == Main(r)
<1>0. /\ RunTypeOK /\ a \in Agents /\ RunOf(a) = r /\ UNCHANGED <<tools, connectorVars, missed>>
      /\ go[a].pc \in {"registered", "finish", "fail"}
      /\ task[Call(a)] \in Open => Call(a) \in missed \/ Held(a, Call(a))
  BY AgentOfRun, CurrentCall DEF LifeInv, StartRun, FinishRun, FailRun, EndAs
<1>1. task[Call(a)] \in Open =>
        \/ Call(a) \in missed
        \/ /\ go[a].pc = "fail" /\ status[r] = "deleted"
           /\ Call(a) \in sensitive /\ tools[Call(a)] = "none"
  BY <1>0 DEF Held
<1>2. CASE StepTo(a, "quit") /\ UNCHANGED status
  <2>1. /\ "quit" \in Steps /\ "quit" \notin NotShown /\ go[a].pc \in Alive /\ go[a].pc \notin Showing
    BY <1>0, OutPlaces DEF Alive, Showing
  <2> QED
    BY <1>0, <1>1, <1>2, <2>1, StepShown
<1>3. CASE \E new \in {"running", "completed", "failed"}, pc \in {"round", "done", "error"} :
             /\ IsActive(r) /\ status' = [status EXCEPT ![r] = new] /\ StepTo(a, pc)
             /\ pc = "round" => new = "running" /\ go[a].pc = "registered"
  <2>1. PICK new \in {"running", "completed", "failed"}, pc \in {"round", "done", "error"} :
             /\ IsActive(r) /\ status' = [status EXCEPT ![r] = new] /\ StepTo(a, pc)
             /\ pc = "round" => new = "running" /\ go[a].pc = "registered"
    BY <1>3
  <2>2. /\ go'[a].pc = pc /\ go'[a].round = go[a].round
        /\ \A b \in Agents : b # a => go'[b] = go[b]
    BY <1>0, <2>1, StepOfGoroutine DEF Steps
  <2>3. /\ pc \in NotShown => go[a].pc \in NotShown
        /\ pc \in Alive => new = "running"
    BY <2>1 DEF NotShown, Alive, Middle, Working
  <2> QED
    BY <1>0, <2>1, <2>2, <2>3, StatusShown
<1>4. CASE StartRun(r)
  BY <1>2, <1>3, <1>4 DEF StartRun, LeaveAdrift, IsActive, Active
<1>5. CASE FinishRun(r) \/ FailRun(r)
  BY <1>2, <1>3, <1>5 DEF FinishRun, FailRun, EndAs, MayEnd, LeaveAdrift
<1> QED
  BY <1>4, <1>5

(* Starting the run's goroutine, its rounds and its sub-agents.            *)
LEMMA LeadingShown ==
    ASSUME LifeInv, ShownInv, NEW r \in Runs,
           Register(r) \/ BeginRound(r) \/ JoinAgents(r) \/ AnnounceEnd(r)
    PROVE  ShownInv'
<1> DEFINE a == Main(r)
<1>0. /\ RunTypeOK /\ a \in Agents /\ RunOf(a) = r
      /\ task[Call(a)] \in Open => Call(a) \in missed \/ Held(a, Call(a))
  BY AgentOfRun, CurrentCall DEF LifeInv
<1>1. PICK n \in 1 .. MaxRounds : n = go[a].round /\ Call(a) = <<a, n>>
  BY <1>0, CurrentCall
<1>2. CASE Register(r)
  <2> DEFINE word == "registered"
             new == [go[a] EXCEPT !.pc = word]
  <2>1. /\ go[a].pc = "spawned" /\ go' = [go EXCEPT ![a] = new] /\ go[a] \in Goroutine
        /\ UNCHANGED <<status, tools, connectorVars, missed>>
    BY <1>0, <1>2 DEF Register, RunTypeOK
  <2>2. word \notin Showing /\ go[a].pc \in NotShown /\ go[a].pc \in Alive /\ go[a].pc \notin Showing
    BY <2>1 DEF NotShown, Alive, Showing
  <2>3. task' = task /\ sensitive' = sensitive /\ (task[Call(a)] \in Open => Call(a) \in missed)
    BY <1>0, <2>1 DEF connectorVars, Held
  <2> HIDE DEF word
  <2>4. new.pc = word /\ new.round = go[a].round
    BY <2>1 DEF Goroutine
  <2> HIDE DEF new
  <2>5. go'[a] = new /\ \A b \in Agents : b # a => go'[b] = go[b]
    BY <1>0, <2>1 DEF RunTypeOK
  <2>6. /\ go[a].round = n /\ go'[a].round = n
        /\ go[a].pc \notin Showing /\ go[a].pc \in NotShown /\ go[a].pc \in Alive
        /\ task'[<<a, n>>] \in Open => <<a, n>> \in missed'
        /\ UNCHANGED <<status, tools>> /\ missed \subseteq missed'
    BY <1>0, <1>1, <2>1, <2>2, <2>3, <2>4, <2>5
  <2>7. PICK b \in Agents : b = a
    BY <1>0
  <2> QED
    BY <2>3, <2>5, <2>6, <2>7, MoveShown
<1>3. CASE BeginRound(r)
  <2>1. PICK pc \in {"quit", "fail", "model"} : StepTo(a, pc)
    BY <1>3 DEF BeginRound, Checked, AfterError
  <2>2. go[a].pc = "round" /\ UNCHANGED <<status, tools, connectorVars, missed>> /\ pc \in Steps
    BY <1>3, OutPlaces DEF BeginRound
  <2>3. task[Call(a)] \in Open => Call(a) \in missed
    BY <1>0, <2>2 DEF Held
  <2> QED
    BY <1>0, <2>1, <2>2, <2>3, StepShown DEF Showing, NotShown, Alive, Middle
<1>4. CASE JoinAgents(r)
  <2>1. PICK result \in {"ok", "error"} : Answered(a, result)
    BY <1>4 DEF JoinAgents
  <2>2. go[a].pc = "join" /\ UNCHANGED <<status, tools, connectorVars, missed>>
    BY <1>4 DEF JoinAgents
  <2>3. task' = task /\ sensitive' = sensitive /\ (task'[Call(a)] \in Open => Call(a) \in missed')
    BY <1>0, <2>2 DEF connectorVars, Held
  <2> QED
    BY <1>0, <2>1, <2>2, <2>3, AnswerShown
<1>5. CASE AnnounceEnd(r)
  <2>1. /\ go[a].pc \in {"done", "error"} /\ UNCHANGED <<status, tools, connectorVars, missed>>
        /\ StepTo(a, "quit") /\ "quit" \in Steps
    BY <1>5 DEF AnnounceEnd, Steps
  <2>2. task[Call(a)] \in Open => Call(a) \in missed
    BY <1>0, <2>1 DEF Held
  <2> QED
    BY <1>0, <2>1, <2>2, StepShown DEF Showing, NotShown, Alive, Middle, Working
<1> QED
  BY <1>2, <1>3, <1>4, <1>5

LEMMA StartAgentsShown ==
    ASSUME LifeInv, ShownInv, NEW r \in Runs, StartAgents(r)
    PROVE  ShownInv'
<1> DEFINE m == Main(r)
           join == "join"
           model == "model"
           joined == [a \in Agents |-> [go[a] EXCEPT !.pc = join]]
           started == [a \in Agents |-> [go[a] EXCEPT !.pc = model]]
<1>1. PICK team \in SUBSET {a \in SubAgents(r) : go[a].pc = "none"} :
           go' = [a \in Agents |-> IF a = m THEN [go[a] EXCEPT !.pc = join]
                                   ELSE IF a \in team THEN [go[a] EXCEPT !.pc = model]
                                   ELSE go[a]]
  BY DEF StartAgents
<1>2. /\ UNCHANGED <<status, tools, connectorVars, missed>> /\ go[m].pc = "call"
      /\ \A a \in Agents : go[a] \in Goroutine
      /\ \A a \in team : go[a].pc = "none" /\ ~IsMain(a)
  BY DEF StartAgents, LifeInv, RunTypeOK, SubAgents
<1>3. task' = task /\ sensitive' = sensitive
  BY <1>2 DEF connectorVars
<1>4. /\ go' = [a \in Agents |-> IF a = m THEN joined[a]
                                 ELSE IF a \in team THEN started[a] ELSE go[a]]
      /\ join = "join" /\ model = "model"
  BY <1>1
<1> HIDE DEF join, model
<1>5. \A a \in Agents : /\ joined[a].pc = join /\ joined[a].round = go[a].round
                        /\ started[a].pc = model /\ started[a].round = go[a].round
  BY <1>2 DEF Goroutine
<1> HIDE DEF joined, started
<1>6. ASSUME NEW b \in Agents, NEW n \in 1 .. MaxRounds
      PROVE  CallShown(b, n)'
  <2>1. CallShown(b, n)
    BY DEF ShownInv, CallsShown
  <2>2. CASE b = m
    <3>1. go'[b].pc = "join" /\ go'[b].round = go[b].round /\ go[b].pc = "call"
      BY <1>2, <1>4, <1>5, <2>2
    <3> QED
      BY <1>2, <1>3, <2>1, <3>1 DEF CallShown, Held, Showing, NotShown
  <2>3. CASE b # m /\ b \in team
    <3>1. go'[b].pc = "model" /\ go'[b].round = go[b].round /\ go[b].pc = "none"
      BY <1>2, <1>4, <1>5, <2>3
    <3> QED
      BY <1>2, <1>3, <2>1, <3>1 DEF CallShown, Held, Showing, NotShown
  <2>4. CASE b # m /\ b \notin team
    <3>1. go'[b] = go[b]
      BY <1>4, <2>4
    <3> QED
      BY <1>2, <1>3, <2>1, <3>1 DEF CallShown, Held
  <2> QED
    BY <2>2, <2>3, <2>4
<1>7. LiveRuns'
  <2> SUFFICES ASSUME NEW s \in Runs, go'[Main(s)].pc \in Alive
               PROVE  status[s] \notin {"completed", "failed"}
    BY <1>2 DEF LiveRuns
  <2>1. Main(s) \in Agents /\ Main(s) \notin team
    BY <1>2, AgentOfRun
  <2>2. \/ go'[Main(s)] = go[Main(s)]
        \/ go[Main(s)].pc = "call"
    BY <1>2, <1>4, <2>1
  <2>3. "call" \in Alive
    BY DEF Alive, Middle, Working
  <2> QED
    BY <2>2, <2>3 DEF ShownInv, LiveRuns
<1> QED
  BY <1>6, <1>7 DEF ShownInv, CallsShown

LEMMA LeadShown ==
    ASSUME LifeInv, ShownInv, NEW r \in Runs, Lead(r)
    PROVE  ShownInv'
BY LeadingShown, StartAgentsShown, EndingShown DEF Lead

-----------------------------------------------------------------------------
(* The same for requests and for everybody else.                           *)

LEMMA HandleShown ==
    ASSUME LifeInv, TaskInv, ShownInv, NEW h \in Handlers, Handle(h)
    PROVE  ShownInv'
<1>0. /\ RunTypeOK /\ tools \in [Calls -> ToolStatus]
      /\ status \in [Runs -> Active \cup Ended \cup {"absent", "deleted"}]
      /\ go \in [Agents -> Goroutine]
      /\ task \in [Calls -> Open \cup Closed \cup {"absent"}]
  BY DEF LifeInv, RunTypeOK, TaskInv, DeviceInv, ConnectorTypeOK
<1>1. ASSUME UNCHANGED <<status, tools, go, connectorVars, missed>>
      PROVE  ShownInv'
  <2>1. \A b \in Agents : CallsShown(b)'
    BY <1>1, ShownElsewhere DEF ShownInv, connectorVars
  <2> QED
    BY <1>1, <2>1 DEF ShownInv, LiveRuns
<1>2. CASE SignalCancel(h) \/ AnnounceCancelled(h)
  BY <1>1, <1>2 DEF SignalCancel, AnnounceCancelled
<1>3. CASE StopRun(h)
  <2>0. PICK r \in Runs : r = handler[h].run
    BY <1>3 DEF StopRun, LifeInv, HandlersKnow
  <2>1. CASE UNCHANGED <<status, tools, task>>
    BY <1>1, <1>3, <2>1 DEF StopRun, connectorVars
  <2>2. CASE /\ status' = [status EXCEPT ![r] = "cancelled"]
             /\ tools' = CloseToolCalls(tools, r) /\ task' = Cancelled(task, r)
    <3>1. UNCHANGED <<go, sensitive, missed>>
      BY <1>3 DEF StopRun
    <3>2. status'[r] = "cancelled" /\ \A s \in Runs : s # r => status'[s] = status[s]
      BY <1>0, <2>2
    <3>3. ASSUME NEW b \in Agents, NEW n \in 1 .. MaxRounds
          PROVE  /\ RunOf(b) # r => tools'[<<b, n>>] = tools[<<b, n>>] /\ task'[<<b, n>>] = task[<<b, n>>]
                 /\ RunOf(b) = r => /\ tools'[<<b, n>>] \notin OpenCall
                                    /\ tools[<<b, n>>] = "none" => tools'[<<b, n>>] = "none"
                                    /\ task'[<<b, n>>] \notin Open
      <4>1. <<b, n>> \in Calls /\ <<b, n>>[1] = b
        BY AgentOfRun
      <4> QED
        BY <2>2, <4>1 DEF CloseToolCalls, Cancelled, OpenCall, Open
    <3>4. ASSUME NEW b \in Agents, RunOf(b) # r
          PROVE  CallsShown(b)'
      BY <3>1, <3>2, <3>3, <3>4, ShownElsewhere, AgentOfRun DEF ShownInv
    <3>5. ASSUME NEW b \in Agents, RunOf(b) = r, NEW n \in 1 .. MaxRounds
          PROVE  CallShown(b, n)'
      <4>1. CallShown(b, n)
        BY DEF ShownInv, CallsShown
      <4> QED
        BY <3>1, <3>2, <3>3, <3>5, <4>1 DEF CallShown
    <3>6. LiveRuns'
      BY <3>1, <3>2 DEF ShownInv, LiveRuns
    <3> QED
      BY <3>4, <3>5, <3>6 DEF ShownInv, CallsShown
  <2> QED
    BY <1>3, <2>0, <2>1, <2>2 DEF StopRun
<1>4. CASE CreateRun(h)
  <2>0. PICK r \in Runs : r = handler[h].next
    BY <1>4 DEF CreateRun, LifeInv, HandlersKnow
  <2>1. CASE UNCHANGED <<status, go>>
    BY <1>1, <1>4, <2>1 DEF CreateRun
  <2>2. CASE /\ status' = [status EXCEPT ![r] = "queued"]
             /\ go' = [go EXCEPT ![Main(r)].pc = "spawned"] \/ UNCHANGED go
    <3> DEFINE m == Main(r)
               word == "spawned"
               new == [go[m] EXCEPT !.pc = word]
    <3>1. /\ status[r] = "absent" /\ go[m].pc = "none" /\ m \in Agents /\ go[m] \in Goroutine
          /\ UNCHANGED <<tools, connectorVars, missed>>
      BY <1>0, <1>4, <2>0, ChatAssumption, AgentOfRun
         DEF CreateRun, LifeInv, HandlersKnow, GoroutinesKnow
    <3>2. go' = [go EXCEPT ![m] = new] \/ go' = go
      BY <2>2
    <3>3. word \in NotShown /\ word = "spawned"
      BY DEF NotShown
    <3> HIDE DEF word
    <3>4. new.pc = word /\ new.round = go[m].round
      BY <3>1 DEF Goroutine
    <3> HIDE DEF new
    <3>5. /\ go'[m].round = go[m].round /\ go'[m].pc \in {"none", "spawned"}
          /\ \A b \in Agents : b # m => go'[b] = go[b]
      BY <1>0, <3>1, <3>2, <3>3, <3>4
    <3>6. /\ status'[r] = "queued" /\ \A s \in Runs : s # r => status'[s] = status[s]
          /\ task' = task /\ sensitive' = sensitive
      BY <1>0, <2>2, <3>1 DEF connectorVars
    <3>7. ASSUME NEW b \in Agents, RunOf(b) # r
          PROVE  CallsShown(b)'
      <4>1. RunOf(b) \in Runs /\ b # m
        BY <3>7, AgentOfRun
      <4> QED
        BY <3>1, <3>5, <3>6, <3>7, <4>1, ShownElsewhere DEF ShownInv
    <3>8. ASSUME NEW b \in Agents, RunOf(b) = r, NEW n \in 1 .. MaxRounds
          PROVE  CallShown(b, n)'
      <4>1. CallShown(b, n)
        BY DEF ShownInv, CallsShown
      <4>2. CASE b = m
        BY <3>1, <3>5, <3>6, <3>8, <4>1, <4>2 DEF CallShown, Held, Showing, NotShown
      <4>3. CASE b # m
        <5>1. go'[b] = go[b]
          BY <3>5, <4>3
        <5> QED
          BY <3>1, <3>6, <3>8, <4>1, <5>1 DEF CallShown, Held
      <4> QED
        BY <4>2, <4>3
    <3>9. LiveRuns'
      <4> SUFFICES ASSUME NEW s \in Runs, go'[Main(s)].pc \in Alive
                   PROVE  status'[s] \notin {"completed", "failed"}
        BY DEF LiveRuns
      <4>1. CASE s = r
        BY <3>6, <4>1
      <4>2. CASE s # r
        <5>1. Main(s) \in Agents /\ Main(s) # m
          BY <4>2, AgentOfRun
        <5> QED
          BY <3>5, <3>6, <4>2, <5>1 DEF ShownInv, LiveRuns
      <4> QED
        BY <4>1, <4>2
    <3> QED
      BY <3>7, <3>8, <3>9 DEF ShownInv, CallsShown
  <2> QED
    BY <1>4, <2>0, <2>1, <2>2 DEF CreateRun
<1> QED
  BY <1>2, <1>3, <1>4 DEF Handle

LEMMA InterveneShown ==
    ASSUME LifeInv, ShownInv, Crash \/ DeleteSession
    PROVE  ShownInv'
<1>0. RunTypeOK /\ \A a \in Agents : go[a] \in Goroutine
  BY DEF LifeInv, RunTypeOK
<1>1. CASE Crash
  <2> DEFINE word == "dead"
             killed == [a \in Agents |-> [go[a] EXCEPT !.pc = word]]
  <2>1. /\ task' = task /\ sensitive' = sensitive /\ UNCHANGED <<status, tools, missed>>
        /\ go' = [a \in Agents |-> IF go[a].pc \in {"none", "quit"} THEN go[a] ELSE killed[a]]
        /\ word = "dead"
    BY <1>1 DEF Crash, connectorVars
  <2> HIDE DEF word
  <2>2. \A a \in Agents : killed[a].pc = word /\ killed[a].round = go[a].round
    BY <1>0 DEF Goroutine
  <2> HIDE DEF killed
  <2>3. \A a \in Agents : go'[a] = go[a] \/ (go'[a].pc = "dead" /\ go'[a].round = go[a].round)
    BY <2>1, <2>2
  <2>4. ASSUME NEW a \in Agents, NEW n \in 1 .. MaxRounds
        PROVE  CallShown(a, n)'
    <3>1. CallShown(a, n)
      BY DEF ShownInv, CallsShown
    <3>2. CASE go'[a] = go[a]
      BY <2>1, <3>1, <3>2 DEF CallShown, Held
    <3>3. CASE go'[a].pc = "dead" /\ go'[a].round = go[a].round
      BY <2>1, <3>1, <3>3 DEF CallShown, Held, Showing, NotShown
    <3> QED
      BY <2>3, <3>2, <3>3
  <2>5. LiveRuns'
    BY <2>1, <2>3, AgentOfRun DEF ShownInv, LiveRuns, Alive, Middle, Working
  <2> QED
    BY <2>4, <2>5 DEF ShownInv, CallsShown
<1>2. CASE DeleteSession
  <2>1. task' = task /\ sensitive' = sensitive /\ UNCHANGED <<go, missed>>
    BY <1>2 DEF DeleteSession, connectorVars
  <2>2. \A r \in Runs : status'[r] = IF status[r] = "absent" THEN "absent" ELSE "deleted"
    BY <1>2 DEF DeleteSession
  <2>3. ASSUME NEW a \in Agents, NEW n \in 1 .. MaxRounds
        PROVE  CallShown(a, n)'
    <3>1. CallShown(a, n) /\ RunOf(a) \in Runs
      BY AgentOfRun DEF ShownInv, CallsShown
    <3>3. tools'[<<a, n>>] = "none"
      BY <1>2, AgentOfRun DEF DeleteSession
    <3> QED
      BY <2>1, <2>2, <3>1, <3>3 DEF CallShown, Held, OpenCall
  <2>4. LiveRuns'
    BY <2>2 DEF LiveRuns
  <2> QED
    BY <2>3, <2>4 DEF ShownInv, CallsShown
<1> QED
  BY <1>1, <1>2

LEMMA ShownInitial == ChatInit => ShownInv
<1> SUFFICES ASSUME ChatInit
             PROVE  ShownInv
  OBVIOUS
<1>1. ASSUME NEW a \in Agents, NEW n \in 1 .. MaxRounds
      PROVE  CallShown(a, n)
  <2>1. /\ <<a, n>> \in Calls /\ RunOf(a) \in Runs
    BY AgentOfRun
  <2>2. /\ status[RunOf(a)] = "absent"
        /\ tools[<<a, n>>] = "none" /\ task[<<a, n>>] = "absent"
    BY <2>1 DEF ChatInit, ConnectorInit
  <2> QED
    BY <2>2 DEF CallShown, OpenCall, Open
<1>2. \A r \in Runs : status[r] = "absent"
  BY DEF ChatInit
<1> QED
  BY <1>1, <1>2 DEF ShownInv, CallsShown, LiveRuns

LEMMA ShownStep == LifeInv /\ TaskInv /\ ShownInv /\ [ChatNext]_vars => ShownInv'
<1> SUFFICES ASSUME LifeInv, TaskInv, ShownInv, [ChatNext]_vars
             PROVE  ShownInv'
  OBVIOUS
<1>1. ASSUME UNCHANGED <<status, tools, go, missed>>,
             DeviceNext \/ DeleteDevice \/ UNCHANGED connectorVars
      PROVE  ShownInv'
  <2>1. sensitive' = sensitive /\ \A k \in Calls : task'[k] \in Open => task[k] \in Open
    BY <1>1, NoneOpened DEF TaskInv
  <2>2. \A b \in Agents : CallsShown(b)'
    BY <1>1, <2>1, AgentOfRun, ShownElsewhere DEF ShownInv
  <2> QED
    BY <1>1, <2>2 DEF ShownInv, LiveRuns
<1>2. ASSUME NEW h \in Handlers, NEW r \in Runs, BeginStop(h, r) \/ BeginSend(h, r)
      PROVE  ShownInv'
  BY <1>1, <1>2 DEF BeginStop, BeginSend
<1>3. ASSUME NEW r \in Runs, Lead(r)
      PROVE  ShownInv'
  BY <1>3, LeadShown
<1>a. ASSUME NEW a \in Agents, Work(a)
      PROVE  ShownInv'
  BY <1>a, WorkShown
<1>4. CASE DeviceNext /\ UNCHANGED runVars
  BY <1>1, <1>4 DEF runVars
<1>5. CASE RemoveDevice
  BY <1>1, <1>5 DEF RemoveDevice
<1>6. CASE UNCHANGED vars
  BY <1>1, <1>6 DEF vars, runVars
<1> QED
  BY <1>2, <1>3, <1>a, <1>4, <1>5, <1>6, HandleShown, InterveneShown DEF ChatNext

LEMMA ShownInvariance == ChatSpec => []ShownInv
  BY ShownInitial, ShownStep, LifeInvariance, TaskInvariance, PTL DEF ChatSpec

(* An agent that has ended leaves the device no open task, but for the     *)
(* approval of a run that was gone before the call was shown and for calls *)
(* with a failed statement: for any number of runs, sub-agents, rounds and *)
(* requests, crashes and deletions included.                               *)
THEOREM NoTaskForgotten == ChatSpec => []LeftoverTasks
<1>1. ShownInv => LeftoverTasks
  <2> SUFFICES ASSUME ShownInv, NEW k \in Calls, go[k[1]].pc = "quit", task[k] \in Open
               PROVE  \/ k \in missed
                      \/ /\ status[RunOf(k[1])] \in {"cancelled", "deleted"}
                         /\ k \in sensitive /\ tools[k] = "none"
    BY DEF LeftoverTasks
  <2>1. k[1] \in Agents /\ k[2] \in 1 .. MaxRounds /\ k = <<k[1], k[2]>>
    BY AgentOfRun
  <2>2. CallShown(k[1], k[2])
    BY <2>1 DEF ShownInv, CallsShown
  <2> QED
    BY <2>1, <2>2 DEF CallShown, Held
<1> QED
  BY <1>1, ShownInvariance, PTL

(* A run that ended by itself shows every tool call, its own and those of  *)
(* its sub-agents, with its end, unless a statement of the call failed:    *)
(* what goroutines, stops and checks of the row do in whatever order.      *)
THEOREM EveryCallClosed == ChatSpec => []NoCallLeftOpen
<1>1. LifeInv /\ ShownInv => NoCallLeftOpen
  <2> SUFFICES ASSUME LifeInv, ShownInv, NEW k \in Calls,
                      status[RunOf(k[1])] \in {"completed", "failed"}
               PROVE  tools[k] \in {"none", "ok", "error"} \/ k \in missed
    BY DEF NoCallLeftOpen
  <2>1. k[1] \in Agents /\ k[2] \in 1 .. MaxRounds /\ k = <<k[1], k[2]>>
    BY AgentOfRun
  <2>2. CallShown(k[1], k[2]) /\ tools[k] \in ToolStatus
    BY <2>1, ToolTypes DEF ShownInv, CallsShown
  <2> QED
    BY <2>1, <2>2 DEF CallShown, OpenCall, ToolStatus
<1> QED
  BY <1>1, LifeInvariance, ShownInvariance, PTL
=============================================================================
