------------------------ MODULE ScheduledTasksProofs ------------------------
(* Theorems about ScheduledTasks, for every value of its constants.        *)
EXTENDS ScheduledTasks, FiniteSetTheorems, TLAPS

Times == {None, "later", "due"}

Statuses == {"idle", "completed", "failed"} \cup Busy

Goroutine ==
    [pc: {"listed", "loaded", "claimed", "prepared", "failing", "running"}, task: Tasks,
     copy: Orders \cup {None}]

(* At most one goroutine is past its claim of a row.                       *)
OneWorker ==
    \A t \in Tasks : Exists(t) =>
      \A v, w \in Workers : Works(v, t) /\ Works(w, t) => v = w

(* A row is busy while a goroutine works on it, and else an orphan.        *)
BusyIsWorked ==
    \A t \in Tasks : Exists(t) /\ row[t].status \in Busy =>
      t \in orphaned \/ \E w \in Workers : Works(w, t)

WorkedIsBusy ==
    \A t \in Tasks : Exists(t) =>
      \A w \in Workers : Works(w, t) => row[t].status \in Busy

(* Nobody knows a task before it has a row.                                *)
UnbornUntouched ==
    \A t \in Tasks : row[t] = Unborn =>
      t \notin started \cup timeless /\ \A w \in Workers : worker[w].task # t

(* A copy is the order of the row; only one that is carried out once may   *)
(* have been switched off since.                                           *)
Agrees(copy, order) == copy = order \/ (copy.kind = "once" /\ order.kind = "once")

(* A start that failed and could not read its row.                         *)
Blank(w) == worker[w].pc = "failing" /\ worker[w].copy = None

CopiesAgree ==
    \A t \in Tasks : Exists(t) /\ t \notin overlapped =>
      \A w \in Workers : Holds(w, t) =>
        \/ worker[w].copy \in Orders /\ Agrees(worker[w].copy, row[t].order)
        \/ Blank(w)

WorkersStarted ==
    \A t \in Tasks : Exists(t) /\ t \notin overlapped =>
      \A w \in Workers : Works(w, t) => t \in started

(* The inductive invariants.                                               *)
WorkInv ==
    ScheduledTasksTypeOK /\ OneWorker /\ BusyIsWorked /\ WorkedIsBusy /\ UnbornUntouched

TimesInv == WorkInv /\ CopiesAgree /\ WorkersStarted /\ RestsAsAsked

-----------------------------------------------------------------------------
(* Rows and times.                                                         *)

LEMMA RowOrNot ==
    ASSUME ScheduledTasksTypeOK, NEW t \in Tasks
    PROVE  /\ Exists(t) <=> row[t] \in Row
           /\ row[t] \in Row \cup {Unborn, Gone}
BY ScheduledTasksAssumption DEF ScheduledTasksTypeOK, Exists

LEMMA RowFields ==
    ASSUME NEW r \in Row
    PROVE  /\ r.order \in Orders /\ r.next \in Times /\ r.status \in Statuses
           /\ r = [order |-> r.order, next |-> r.next, status |-> r.status]
           /\ r # Unborn /\ r # Gone
<1>1. Row = [order: Orders, next: Times, status: Statuses]
  BY DEF Row, Times, Statuses
<1> QED
  BY <1>1, ScheduledTasksAssumption

LEMMA NextTimes ==
    ASSUME NEW order \in Orders
    PROVE  /\ nextAdvancedChatTaskRunAt(order) \in Times
           /\ nextAdvancedChatTaskRunAtAfterFinish(order) \in Times
           /\ order.kind = "manual" => nextAdvancedChatTaskRunAt(order) = None
                                       /\ nextAdvancedChatTaskRunAtAfterFinish(order) = None
           /\ order.kind = "once" => /\ nextAdvancedChatTaskRunAtAfterFinish(order) = None
                                     /\ nextAdvancedChatTaskRunAt(order) # None <=> order.enabled
           /\ order.kind = "interval" =>
                /\ nextAdvancedChatTaskRunAt(order) # None <=> order.enabled
                /\ nextAdvancedChatTaskRunAtAfterFinish(order) # None <=> order.enabled
<1>1. order.kind \in Kinds /\ order.enabled \in BOOLEAN /\ order.at \in {"later", "due"}
  BY DEF Orders
<1>2. None \notin {"later", "due"}
  BY ScheduledTasksAssumption
<1> QED
  BY <1>1, <1>2 DEF Kinds, Times, nextAdvancedChatTaskRunAt, nextAdvancedChatTaskRunAtAfterFinish

(* What a goroutine may become, and what that leaves alone.                *)
LEMMA Move ==
    ASSUME ScheduledTasksTypeOK, NEW w \in Workers, NEW q \in Goroutine \cup {Idle}, Becomes(w, q)
    PROVE  /\ worker' \in [Workers -> Goroutine \cup {Idle}]
           /\ worker'[w] = q
           /\ \A v \in Workers \ {w} : worker'[v] = worker[v]
BY DEF ScheduledTasksTypeOK, Becomes, Goroutine

LEMMA GoroutineFields ==
    ASSUME ScheduledTasksTypeOK, NEW w \in Workers
    PROVE  /\ worker[w] = Idle \/ worker[w] \in Goroutine
           /\ worker[w].pc # "idle" => worker[w] \in Goroutine
           /\ worker[w] \in Goroutine => worker[w].task \in Tasks
                                         /\ worker[w].copy \in Orders \cup {None}
           /\ worker[w] = Idle => worker[w].task \notin Tasks
BY ScheduledTasksAssumption DEF ScheduledTasksTypeOK, Goroutine, Idle

(* A row that is written.                                                  *)
LEMMA RowWritten ==
    ASSUME ScheduledTasksTypeOK, NEW t \in Tasks, NEW r, Exists(t) => r \in Row, SetRow(t, r)
    PROVE  /\ row' \in [Tasks -> Row \cup {Unborn, Gone}]
           /\ \A u \in Tasks : Exists(u)' <=> Exists(u)
           /\ \A u \in Tasks : u # t => row'[u] = row[u]
           /\ row'[t] = IF Exists(t) THEN r ELSE row[t]
           /\ \A u \in Tasks : row'[u] = Unborn <=> row[u] = Unborn
<1>1. CASE Exists(t)
  <2>1. row' = [row EXCEPT ![t] = r] /\ r \in Row /\ row \in [Tasks -> Row \cup {Unborn, Gone}]
    BY <1>1 DEF SetRow, ScheduledTasksTypeOK
  <2>2. r # Unborn /\ r # Gone
    BY <2>1, RowFields
  <2> QED
    BY <1>1, <2>1, <2>2 DEF Exists
<1>2. CASE ~Exists(t)
  BY <1>2 DEF SetRow, ScheduledTasksTypeOK, Exists
<1> QED
  BY <1>1, <1>2

-----------------------------------------------------------------------------
(* The type invariant and the claim.                                       *)

LEMMA InitWork == ScheduledTasksInit => WorkInv
<1> SUFFICES ASSUME ScheduledTasksInit PROVE WorkInv
  OBVIOUS
<1>1. ScheduledTasksTypeOK
  BY ScheduledTasksAssumption DEF ScheduledTasksInit, ScheduledTasksTypeOK
<1>2. \A t \in Tasks : ~Exists(t)
  BY DEF ScheduledTasksInit, Exists
<1>3. \A t \in Tasks, w \in Workers : worker[w].task # t
  BY ScheduledTasksAssumption DEF ScheduledTasksInit, Idle
<1> QED
  BY <1>1, <1>2, <1>3 DEF WorkInv, OneWorker, BusyIsWorked, WorkedIsBusy, UnbornUntouched,
                          ScheduledTasksInit

(* What the requests of a user do to the rows.                             *)
LEMMA CreateWork ==
    ASSUME WorkInv, NEW t \in Tasks, NEW order \in Orders, createScheduledTask(t, order)
    PROVE  WorkInv'
<1> DEFINE status == "idle"
           next == nextAdvancedChatTaskRunAt(order)
           enabled == TRUE
           stored == [order EXCEPT !.enabled = enabled]
           new == [order |-> stored, next |-> next, status |-> status]
<1>1. new \in Row /\ new.status = "idle" /\ new # Unborn /\ new # Gone
  <2>1. next \in Times /\ enabled \in BOOLEAN
    BY NextTimes
  <2> HIDE DEF next, enabled
  <2>2. stored \in Orders
    BY <2>1 DEF Orders
  <2> HIDE DEF stored
  <2>3. new \in Row
    BY <2>1, <2>2 DEF Row, Times
  <2> QED
    BY <2>3, RowFields
<1>2. row' = [row EXCEPT ![t] = new] /\ row[t] = Unborn
  BY DEF createScheduledTask
<1> HIDE DEF new
<1>3. UNCHANGED <<on, worker, editor, crashes, orphaned, started, overlapped>>
      /\ timeless' \subseteq timeless \cup {t}
  BY DEF createScheduledTask
<1>4. ScheduledTasksTypeOK /\ row'[t] = new /\ \A u \in Tasks : u # t => row'[u] = row[u]
  BY <1>2 DEF WorkInv, ScheduledTasksTypeOK
<1>5. ScheduledTasksTypeOK'
  BY <1>1, <1>2, <1>3, <1>4 DEF ScheduledTasksTypeOK
<1>6. \A w \in Workers : ~Works(w, t)'
  BY <1>2, <1>3 DEF WorkInv, UnbornUntouched, Works
<1>7. \A u \in Tasks : u # t => (Exists(u)' <=> Exists(u))
  BY <1>4 DEF Exists
<1>8. \A u \in Tasks, w \in Workers : Works(w, u)' <=> Works(w, u)
  BY <1>3 DEF Works
<1>9. row'[t].status \notin Busy
  BY <1>1, <1>4 DEF Busy
<1> QED
  BY <1>1, <1>3, <1>4, <1>5, <1>6, <1>7, <1>8, <1>9
     DEF WorkInv, OneWorker, BusyIsWorked, WorkedIsBusy, UnbornUntouched

(* Steps that leave who works, and which rows are busy, as they are.       *)
LEMMA SameWork ==
    ASSUME WorkInv, ScheduledTasksTypeOK',
           \A t \in Tasks, w \in Workers : Works(w, t)' <=> Works(w, t),
           \A t \in Tasks : Exists(t)' =>
             Exists(t) /\ (row'[t].status \in Busy <=> row[t].status \in Busy),
           orphaned \subseteq orphaned',
           \A t \in Tasks : row'[t] = Unborn => row[t] = Unborn,
           \A t \in Tasks : row'[t] = Unborn =>
             t \notin started' \cup timeless' /\ \A w \in Workers : worker'[w].task # t
    PROVE  WorkInv'
BY DEF WorkInv, OneWorker, BusyIsWorked, WorkedIsBusy, UnbornUntouched

LEMMA CheckWork ==
    ASSUME WorkInv, NEW t \in Tasks, NEW does \in {"update", "delete"}, Check(t, does)
    PROVE  WorkInv'
<1>1. editor' \in Checked /\ UNCHANGED <<on, row, worker, crashes, orphaned, started, overlapped, timeless>>
  BY DEF Check, Checked, HistoryUnchanged
<1>2. ScheduledTasksTypeOK'
  BY <1>1 DEF WorkInv, ScheduledTasksTypeOK
<1> QED
  BY <1>1, <1>2, SameWork DEF Works, Exists, WorkInv, UnbornUntouched

LEMMA UpdatedRow ==
    ASSUME WorkInv, NEW order \in Orders, updateScheduledTask(order)
    PROVE  /\ row' \in [Tasks -> Row \cup {Unborn, Gone}]
           /\ editor.task \in Tasks
           /\ \A t \in Tasks : (Exists(t)' <=> Exists(t)) /\ (row'[t] = Unborn <=> row[t] = Unborn)
           /\ \A t \in Tasks : Exists(t) => row'[t].status = row[t].status
           /\ \A t \in Tasks : t # editor.task => row'[t] = row[t]
           /\ Exists(editor.task) => /\ row'[editor.task].order = order
                                     /\ row'[editor.task].next = nextAdvancedChatTaskRunAt(order)
<1> DEFINE t == editor.task
           next == nextAdvancedChatTaskRunAt(order)
           new == [row[t] EXCEPT !.order = order, !.next = next]
<1>1. t \in Tasks /\ ScheduledTasksTypeOK
  BY DEF updateScheduledTask, WorkInv, ScheduledTasksTypeOK, Checked
<1>2. next \in Times
  BY NextTimes
<1>3. row' = IF Exists(t) THEN [row EXCEPT ![t] = new] ELSE row
  BY <1>1 DEF updateScheduledTask, ScheduledTasksTypeOK
<1> HIDE DEF next
<1>4. Exists(t) => /\ new \in Row /\ new.order = order /\ new.next = next
                   /\ new.status = row[t].status
  BY <1>1, <1>2, RowOrNot DEF Row, Times
<1> HIDE DEF new
<1>5. SetRow(t, new)
  BY <1>3 DEF SetRow
<1> QED
  BY <1>1, <1>4, <1>5, RowWritten DEF next

LEMMA UpdateWork ==
    ASSUME WorkInv, NEW order \in Orders, updateScheduledTask(order)
    PROVE  WorkInv'
<1>1. /\ editor' = None /\ UNCHANGED <<on, worker, crashes, orphaned>>
      /\ started' \subseteq started
      /\ overlapped' \subseteq Tasks /\ timeless' \subseteq timeless
  BY UpdatedRow DEF updateScheduledTask, WorkInv, ScheduledTasksTypeOK
<1>2. ScheduledTasksTypeOK'
  BY <1>1, UpdatedRow DEF WorkInv, ScheduledTasksTypeOK
<1> QED
  BY <1>1, <1>2, UpdatedRow, SameWork DEF Works, WorkInv, UnbornUntouched

LEMMA DeleteWork ==
    ASSUME WorkInv, deleteScheduledTask
    PROVE  WorkInv'
<1> DEFINE t == editor.task
<1>1. t \in Tasks /\ ScheduledTasksTypeOK
  BY DEF deleteScheduledTask, WorkInv, ScheduledTasksTypeOK, Checked
<1>2. /\ row' = [row EXCEPT ![t] = Gone] /\ editor' = None
      /\ UNCHANGED <<on, worker, crashes, orphaned, started, overlapped, timeless>>
  BY DEF deleteScheduledTask, HistoryUnchanged
<1>3. ScheduledTasksTypeOK'
  BY <1>1, <1>2 DEF ScheduledTasksTypeOK
<1>4. row'[t] = Gone /\ \A u \in Tasks : u # t => row'[u] = row[u]
  BY <1>1, <1>2 DEF ScheduledTasksTypeOK, Exists
<1>5. \A u \in Tasks, w \in Workers : Works(w, u)' <=> Works(w, u)
  BY <1>2 DEF Works
<1>6. \A u \in Tasks : row'[u] = Unborn => row[u] = Unborn
  BY <1>4, ScheduledTasksAssumption
<1>7. \A u \in Tasks : Exists(u)' => Exists(u) /\ row'[u].status = row[u].status
  BY <1>4 DEF Exists
<1> QED
  BY <1>2, <1>3, <1>5, <1>6, <1>7, SameWork DEF WorkInv, UnbornUntouched

(* A goroutine comes, and reads.                                           *)
LEMMA TickWork ==
    ASSUME WorkInv, NEW w \in Workers, NEW t \in Tasks, runDueAdvancedChatScheduledTasks(w, t)
    PROVE  WorkInv'
<1> DEFINE q == [pc |-> "listed", task |-> t, copy |-> None]
<1>1. q \in Goroutine /\ q.task = t /\ q.pc = "listed"
  BY DEF Goroutine
<1>2. Becomes(w, q) /\ UNCHANGED <<on, row, editor, crashes, orphaned, started, overlapped, timeless>>
  BY DEF runDueAdvancedChatScheduledTasks, HistoryUnchanged
<1> HIDE DEF q
<1>3. /\ worker' \in [Workers -> Goroutine \cup {Idle}] /\ worker'[w] = q
      /\ \A v \in Workers \ {w} : worker'[v] = worker[v]
  BY <1>1, <1>2, Move DEF WorkInv
<1>4. ScheduledTasksTypeOK'
  BY <1>2, <1>3 DEF WorkInv, ScheduledTasksTypeOK, Goroutine
<1>5. worker[w] = Idle /\ row[t] # Unborn
  BY DEF runDueAdvancedChatScheduledTasks, Due, AtRest, Exists
<1>6. \A u \in Tasks, v \in Workers : Works(v, u)' <=> Works(v, u)
  BY <1>1, <1>3, <1>5, GoroutineFields DEF WorkInv, Works
<1> QED
  BY <1>1, <1>2, <1>3, <1>4, <1>5, <1>6, SameWork DEF Exists, WorkInv, UnbornUntouched

LEMMA ManualWork ==
    ASSUME WorkInv, NEW w \in Workers, NEW t \in Tasks, runScheduledTask(w, t)
    PROVE  WorkInv'
<1> DEFINE q == [pc |-> "loaded", task |-> t, copy |-> row[t].order]
<1>1. worker[w] = Idle /\ Exists(t) /\ row[t] \in Row /\ row[t] # Unborn
  BY RowOrNot DEF runScheduledTask, WorkInv, Exists
<1>2. q \in Goroutine /\ q.task = t /\ q.pc = "loaded"
  BY <1>1, RowFields DEF Goroutine
<1>3. Becomes(w, q) /\ UNCHANGED <<on, row, editor, crashes, orphaned, started, overlapped, timeless>>
  BY DEF runScheduledTask, HistoryUnchanged
<1> HIDE DEF q
<1>4. /\ worker' \in [Workers -> Goroutine \cup {Idle}] /\ worker'[w] = q
      /\ \A v \in Workers \ {w} : worker'[v] = worker[v]
  BY <1>2, <1>3, Move DEF WorkInv
<1>5. ScheduledTasksTypeOK'
  BY <1>3, <1>4 DEF WorkInv, ScheduledTasksTypeOK, Goroutine
<1>6. \A u \in Tasks, v \in Workers : Works(v, u)' <=> Works(v, u)
  BY <1>1, <1>2, <1>4, GoroutineFields DEF WorkInv, Works
<1> QED
  BY <1>1, <1>2, <1>3, <1>4, <1>5, <1>6, SameWork DEF Exists, WorkInv, UnbornUntouched

(* Steps of one goroutine that change no row, no working goroutine and no  *)
(* history.                                                                *)
LEMMA QuietWork ==
    ASSUME WorkInv, NEW w \in Workers, NEW q \in Goroutine \cup {Idle}, Becomes(w, q),
           UNCHANGED <<on, row, editor, crashes, orphaned, started, overlapped, timeless>>,
           worker[w] \in Goroutine,
           q = Idle \/ q.task = worker[w].task,
           \A t \in Tasks :
             (worker[w].task = t /\ worker[w].pc \notin {"listed", "loaded"})
               <=> (q.task = t /\ q.pc \notin {"listed", "loaded"})
    PROVE  WorkInv'
<1>1. /\ worker' \in [Workers -> Goroutine \cup {Idle}] /\ worker'[w] = q
      /\ \A v \in Workers \ {w} : worker'[v] = worker[v]
  BY Move DEF WorkInv
<1>2. ScheduledTasksTypeOK'
  BY <1>1 DEF WorkInv, ScheduledTasksTypeOK, Goroutine
<1>3. \A t \in Tasks, v \in Workers : Works(v, t)' <=> Works(v, t)
  BY <1>1 DEF Works
<1>4. \A t \in Tasks, v \in Workers : worker'[v].task = t => worker[v].task = t
  BY <1>1, ScheduledTasksAssumption DEF Idle
<1> QED
  BY <1>2, <1>3, <1>4, SameWork DEF Exists, WorkInv, UnbornUntouched

LEMMA LoadWork ==
    ASSUME WorkInv, NEW w \in Workers, Load(w)
    PROVE  WorkInv'
<1> DEFINE t == worker[w].task
           copy == row[t].order
           pc == "loaded"
           q == [worker[w] EXCEPT !.pc = pc, !.copy = copy]
<1>1. worker[w] \in Goroutine /\ t \in Tasks /\ worker[w].pc = "listed" /\ ScheduledTasksTypeOK
  BY GoroutineFields DEF Load, WorkInv
<1>2. UNCHANGED <<on, row, editor, crashes, orphaned, started, overlapped, timeless>>
  BY DEF Load, HistoryUnchanged
<1>3. (Becomes(w, q) /\ Exists(t)) \/ Becomes(w, Idle)
  BY DEF Load
<1>4. Idle.task = None /\ None \notin Tasks
  BY ScheduledTasksAssumption DEF Idle
<1>5. CASE Becomes(w, Idle)
  BY <1>1, <1>2, <1>4, <1>5, QuietWork
<1>6. CASE Becomes(w, q) /\ Exists(t)
  <2>1. copy \in Orders /\ pc = "loaded"
    BY <1>1, <1>6, RowOrNot, RowFields
  <2> HIDE DEF copy, pc
  <2>2. q \in Goroutine /\ q.task = t /\ q.pc = "loaded"
    BY <1>1, <2>1 DEF Goroutine
  <2> HIDE DEF q
  <2> QED
    BY <1>1, <1>2, <1>6, <2>2, QuietWork
<1> QED
  BY <1>3, <1>5, <1>6

LEMMA PrepareWork ==
    ASSUME WorkInv, NEW w \in Workers, prepareAdvancedChatAssistantRun(w)
    PROVE  WorkInv'
<1> DEFINE pc == "prepared"
           q == [worker[w] EXCEPT !.pc = pc]
<1>1. worker[w] \in Goroutine /\ worker[w].pc = "claimed" /\ Becomes(w, q)
      /\ UNCHANGED <<on, row, editor, crashes, orphaned, started, overlapped, timeless>>
  BY GoroutineFields DEF prepareAdvancedChatAssistantRun, WorkInv, HistoryUnchanged
<1>2. q \in Goroutine /\ q.task = worker[w].task /\ q.pc = "prepared"
  BY <1>1 DEF Goroutine
<1> HIDE DEF q
<1> QED
  BY <1>1, <1>2, QuietWork

LEMMA PrepareFailsWork ==
    ASSUME WorkInv, NEW w \in Workers, PrepareFails(w)
    PROVE  WorkInv'
<1> DEFINE t == worker[w].task
           copies == {None} \cup (IF Exists(t) THEN {row[t].order} ELSE {})
           pc == "failing"
<1>1. worker[w] \in Goroutine /\ worker[w].pc \in {"claimed", "prepared"}
      /\ UNCHANGED <<on, row, editor, crashes, orphaned, started, overlapped, timeless>>
      /\ ScheduledTasksTypeOK /\ t \in Tasks
  BY GoroutineFields DEF PrepareFails, WorkInv, HistoryUnchanged
<1> PICK copy \in copies : Becomes(w, [worker[w] EXCEPT !.pc = pc, !.copy = copy])
  BY DEF PrepareFails
<1> DEFINE q == [worker[w] EXCEPT !.pc = pc, !.copy = copy]
<1>2. copy \in Orders \cup {None} /\ pc = "failing" /\ Becomes(w, q)
  BY <1>1, RowOrNot, RowFields
<1> HIDE DEF copies, pc
<1>3. q \in Goroutine /\ q.task = worker[w].task /\ q.pc = "failing"
  BY <1>1, <1>2 DEF Goroutine
<1> HIDE DEF q
<1> QED
  BY <1>1, <1>2, <1>3, QuietWork

(* The claim: the row was not busy, so nobody works on it.                 *)
LEMMA ClaimWork ==
    ASSUME WorkInv, NEW w \in Workers, Claim(w)
    PROVE  WorkInv'
<1> DEFINE t == worker[w].task
           status == "queued"
           new == [row[t] EXCEPT !.status = status]
           pc == "claimed"
           q == [worker[w] EXCEPT !.pc = pc]
<1>1. worker[w] \in Goroutine /\ t \in Tasks /\ worker[w].pc = "loaded" /\ ScheduledTasksTypeOK
  BY GoroutineFields DEF Claim, WorkInv
<1>2. CASE ~AtRest(t)
  <2>1. Becomes(w, Idle) /\ UNCHANGED <<on, row, editor, crashes, orphaned, started, overlapped, timeless>>
    BY <1>2 DEF Claim
  <2>2. Idle.task = None /\ None \notin Tasks
    BY ScheduledTasksAssumption DEF Idle
  <2> QED
    BY <1>1, <2>1, <2>2, QuietWork
<1>3. CASE AtRest(t)
  <2>1. /\ row' = [row EXCEPT ![t] = new] /\ Becomes(w, q)
        /\ started' = started \cup {t}
        /\ UNCHANGED <<on, editor, crashes, orphaned, overlapped, timeless>>
    BY <1>1, <1>3 DEF Claim, Claims, ScheduledTasksTypeOK
  <2>2. Exists(t) /\ row[t] \in Row /\ row[t].status \notin Busy
    BY <1>1, <1>3, RowOrNot DEF AtRest
  <2>3. new \in Row /\ new.status \in Busy
    BY <2>2 DEF Row, Busy
  <2> HIDE DEF new
  <2>4. SetRow(t, new)
    BY <2>1, <2>2 DEF SetRow
  <2>5. /\ row' \in [Tasks -> Row \cup {Unborn, Gone}]
        /\ \A u \in Tasks : Exists(u)' <=> Exists(u)
        /\ \A u \in Tasks : u # t => row'[u] = row[u]
        /\ row'[t] = new
        /\ \A u \in Tasks : row'[u] = Unborn <=> row[u] = Unborn
    BY <1>1, <2>2, <2>3, <2>4, RowWritten
  <2>6. q \in Goroutine /\ q.task = t /\ q.pc = "claimed"
    BY <1>1 DEF Goroutine
  <2> HIDE DEF q
  <2>7. /\ worker' \in [Workers -> Goroutine \cup {Idle}] /\ worker'[w] = q
        /\ \A v \in Workers \ {w} : worker'[v] = worker[v]
    BY <1>1, <2>1, <2>6, Move
  <2>8. ScheduledTasksTypeOK'
    BY <1>1, <2>1, <2>5, <2>7 DEF ScheduledTasksTypeOK, Goroutine
  <2>9. \A v \in Workers : ~(worker[v].task = t /\ worker[v].pc \notin {"listed", "loaded"})
    BY <1>1, <2>2 DEF WorkInv, WorkedIsBusy, Works
  <2>10. \A u \in Tasks, v \in Workers : Works(v, u)' <=> Works(v, u) \/ (u = t /\ v = w)
    BY <1>1, <2>6, <2>7 DEF Works
  <2>11. \A v \in Workers : worker'[v].task = worker[v].task
    BY <2>6, <2>7
  <2>12. OneWorker'
    BY <2>5, <2>9, <2>10 DEF WorkInv, OneWorker, Works
  <2>13. BusyIsWorked'
    BY <2>1, <2>5, <2>10 DEF WorkInv, BusyIsWorked
  <2>14. WorkedIsBusy'
    BY <2>3, <2>5, <2>10 DEF WorkInv, WorkedIsBusy
  <2>15. UnbornUntouched'
    BY <2>1, <2>2, <2>5, <2>11 DEF WorkInv, UnbornUntouched, Exists
  <2> QED
    BY <2>8, <2>12, <2>13, <2>14, <2>15 DEF WorkInv
<1> QED
  BY <1>2, <1>3

(* A goroutine whose run is created goes on, whether or not its row says   *)
(* so.                                                                     *)
LEMMA CreateRunWork ==
    ASSUME WorkInv, NEW w \in Workers, createAdvancedChatAssistantRun(w)
    PROVE  WorkInv'
<1> DEFINE t == worker[w].task
           status == "running"
           new == [row[t] EXCEPT !.status = status]
           pc == "running"
           q == [worker[w] EXCEPT !.pc = pc]
<1>1. /\ worker[w] \in Goroutine /\ t \in Tasks /\ worker[w].pc = "prepared" /\ ScheduledTasksTypeOK
      /\ Becomes(w, q) /\ (SetRow(t, new) \/ UNCHANGED row)
      /\ UNCHANGED <<on, editor, crashes, orphaned, started, overlapped, timeless>>
  BY GoroutineFields DEF createAdvancedChatAssistantRun, WorkInv, HistoryUnchanged
<1>2. q \in Goroutine /\ q.task = t /\ q.pc = "running"
  BY <1>1 DEF Goroutine
<1> HIDE DEF q
<1>3. CASE UNCHANGED row
  BY <1>1, <1>2, <1>3, QuietWork
<1>4. CASE SetRow(t, new)
  <2>1. Exists(t) => new \in Row /\ new.status \in Busy
    BY <1>1, RowOrNot DEF Row, Busy
  <2> HIDE DEF new
  <2>2. /\ row' \in [Tasks -> Row \cup {Unborn, Gone}]
        /\ \A u \in Tasks : Exists(u)' <=> Exists(u)
        /\ \A u \in Tasks : u # t => row'[u] = row[u]
        /\ row'[t] = IF Exists(t) THEN new ELSE row[t]
        /\ \A u \in Tasks : row'[u] = Unborn <=> row[u] = Unborn
    BY <1>1, <1>4, <2>1, RowWritten
  <2>3. /\ worker' \in [Workers -> Goroutine \cup {Idle}] /\ worker'[w] = q
        /\ \A v \in Workers \ {w} : worker'[v] = worker[v]
    BY <1>1, <1>2, Move
  <2>4. ScheduledTasksTypeOK'
    BY <1>1, <2>2, <2>3 DEF ScheduledTasksTypeOK, Goroutine
  <2>5. \A u \in Tasks, v \in Workers : Works(v, u)' <=> Works(v, u)
    BY <1>1, <1>2, <2>3 DEF Works
  <2>6. Exists(t) => row[t].status \in Busy
    BY <1>1 DEF WorkInv, WorkedIsBusy, Works
  <2>7. \A u \in Tasks : Exists(u)' =>
          Exists(u) /\ (row'[u].status \in Busy <=> row[u].status \in Busy)
    BY <2>1, <2>2, <2>6
  <2>8. \A v \in Workers : worker'[v].task = worker[v].task
    BY <1>2, <2>3
  <2> QED
    BY <1>1, <2>2, <2>4, <2>5, <2>7, <2>8, SameWork DEF WorkInv, UnbornUntouched
<1> QED
  BY <1>1, <1>3, <1>4

(* The goroutine of a row ends its work: nobody else was at it.            *)
LEMMA EndsWork ==
    ASSUME WorkInv, NEW w \in Workers, NEW r, worker[w] \in Goroutine,
           worker[w].pc \notin {"listed", "loaded"},
           Exists(worker[w].task) => r \in Row /\ r.status \notin Busy,
           SetRow(worker[w].task, r), Becomes(w, Idle),
           timeless' \subseteq timeless \cup {worker[w].task},
           UNCHANGED <<on, editor, crashes, orphaned, started, overlapped>>
    PROVE  WorkInv'
<1> DEFINE t == worker[w].task
<1>1. t \in Tasks /\ ScheduledTasksTypeOK /\ Works(w, t)
  BY GoroutineFields DEF WorkInv, Works
<1>2. /\ row' \in [Tasks -> Row \cup {Unborn, Gone}]
      /\ \A u \in Tasks : Exists(u)' <=> Exists(u)
      /\ \A u \in Tasks : u # t => row'[u] = row[u]
      /\ row'[t] = IF Exists(t) THEN r ELSE row[t]
      /\ \A u \in Tasks : row'[u] = Unborn <=> row[u] = Unborn
  BY <1>1, RowWritten
<1>3. /\ worker' \in [Workers -> Goroutine \cup {Idle}] /\ worker'[w] = Idle
      /\ \A v \in Workers \ {w} : worker'[v] = worker[v]
  BY <1>1, Move
<1>4. ScheduledTasksTypeOK'
  BY <1>1, <1>2, <1>3 DEF ScheduledTasksTypeOK, Goroutine
<1>5. \A u \in Tasks, v \in Workers : Works(v, u)' <=> Works(v, u) /\ v # w
  BY <1>3, ScheduledTasksAssumption DEF Works, Idle
<1>6. \A u \in Tasks, v \in Workers : worker'[v].task = u => worker[v].task = u
  BY <1>3, ScheduledTasksAssumption DEF Idle
<1>7. \A u \in Tasks : Works(w, u) => u = t
  BY DEF Works
<1>8. OneWorker'
  BY <1>2, <1>5 DEF WorkInv, OneWorker
<1>9. BusyIsWorked'
  BY <1>2, <1>5, <1>7 DEF WorkInv, BusyIsWorked
<1>10. WorkedIsBusy'
  <2>1. \A u \in Tasks : u = t /\ Exists(u) => \A v \in Workers : ~Works(v, u)'
    BY <1>1, <1>5 DEF WorkInv, OneWorker
  <2>2. \A u \in Tasks : Exists(u)' /\ u # t => row'[u].status = row[u].status /\ Exists(u)
    BY <1>2
  <2> QED
    BY <1>2, <1>5, <2>1, <2>2 DEF WorkInv, WorkedIsBusy
<1>11. UnbornUntouched'
  BY <1>1, <1>2, <1>6 DEF WorkInv, UnbornUntouched
<1> QED
  BY <1>4, <1>8, <1>9, <1>10, <1>11 DEF WorkInv

LEMMA NextAfterTimes ==
    ASSUME NEW copy \in Orders \cup {None}
    PROVE  NextAfter(copy) \in Times
BY NextTimes DEF NextAfter, Times

LEMMA FailWork ==
    ASSUME WorkInv, NEW w \in Workers, failAdvancedChatScheduledTaskQueue(w)
    PROVE  WorkInv'
<1> DEFINE t == worker[w].task
           status == "failed"
           next == NextAfter(worker[w].copy)
           new == [row[t] EXCEPT !.status = status, !.next = next]
<1>1. /\ worker[w] \in Goroutine /\ t \in Tasks /\ worker[w].copy \in Orders \cup {None}
      /\ worker[w].pc = "failing" /\ ScheduledTasksTypeOK /\ SetRow(t, new) /\ Becomes(w, Idle)
      /\ UNCHANGED <<on, editor, crashes, orphaned, started, overlapped>>
      /\ timeless' \subseteq timeless \cup {t}
  BY GoroutineFields DEF failAdvancedChatScheduledTaskQueue, WorkInv
<1>2. next \in Times
  BY <1>1, NextAfterTimes
<1> HIDE DEF next
<1>3. Exists(t) => new \in Row /\ new.status \notin Busy
  BY <1>1, <1>2, RowOrNot DEF Row, Busy, Times
<1> HIDE DEF new
<1> QED
  BY <1>1, <1>3, EndsWork

LEMMA CompletionWork ==
    ASSUME WorkInv, NEW w \in Workers, NEW status \in {"completed", "failed"},
           runAdvancedChatScheduledTaskCompletion(w, status)
    PROVE  WorkInv'
<1> DEFINE t == worker[w].task
           next == NextAfter(worker[w].copy)
           done == worker[w].copy.kind = "once" /\ status = "completed"
           new == [row[t] EXCEPT !.status = status, !.next = next, !.order.enabled = @ /\ ~done]
           enabled == row[t].order.enabled /\ ~done
           order == [row[t].order EXCEPT !.enabled = enabled]
<1>1. /\ worker[w] \in Goroutine /\ t \in Tasks /\ worker[w].copy \in Orders \cup {None}
      /\ worker[w].pc = "running" /\ ScheduledTasksTypeOK /\ SetRow(t, new) /\ Becomes(w, Idle)
      /\ UNCHANGED <<on, editor, crashes, orphaned, started, overlapped>>
      /\ timeless' \subseteq timeless \cup {t}
  BY GoroutineFields DEF runAdvancedChatScheduledTaskCompletion, WorkInv
<1>2. next \in Times
  BY <1>1, NextAfterTimes
<1>3. done \in BOOLEAN
  OBVIOUS
<1> HIDE DEF next, done
<1>4. Exists(t) => row[t] \in Row /\ row[t].order \in Orders
  BY <1>1, RowOrNot, RowFields
<1>5. Exists(t) => enabled \in BOOLEAN
  BY <1>3, <1>4 DEF Orders
<1>6. new = [row[t] EXCEPT !.status = status, !.next = next, !.order = order]
  OBVIOUS
<1> HIDE DEF new, enabled
<1>7. Exists(t) => order \in Orders
  BY <1>4, <1>5 DEF Orders
<1> HIDE DEF order
<1>8. Exists(t) => new \in Row /\ new.status = status
  BY <1>2, <1>4, <1>6, <1>7 DEF Row, Times, Busy
<1> QED
  BY <1>1, <1>8, EndsWork DEF Busy

LEMMA LastWordWork ==
    ASSUME WorkInv, NEW w \in Workers, LastWordLost(w)
    PROVE  WorkInv'
<1> DEFINE t == worker[w].task
<1>1. /\ worker[w] \in Goroutine /\ t \in Tasks /\ ScheduledTasksTypeOK /\ Becomes(w, Idle)
      /\ orphaned' = orphaned \cup {t}
      /\ UNCHANGED <<on, row, editor, crashes, started, overlapped, timeless>>
  BY GoroutineFields DEF LastWordLost, WorkInv
<1>2. /\ worker' \in [Workers -> Goroutine \cup {Idle}] /\ worker'[w] = Idle
      /\ \A v \in Workers \ {w} : worker'[v] = worker[v]
  BY <1>1, Move
<1>3. ScheduledTasksTypeOK'
  BY <1>1, <1>2 DEF ScheduledTasksTypeOK, Goroutine
<1>4. \A u \in Tasks, v \in Workers : Works(v, u)' <=> Works(v, u) /\ v # w
  BY <1>2, ScheduledTasksAssumption DEF Works, Idle
<1>5. \A u \in Tasks, v \in Workers : worker'[v].task = u => worker[v].task = u
  BY <1>2, ScheduledTasksAssumption DEF Idle
<1>6. \A u \in Tasks : Works(w, u) => u \in orphaned'
  BY <1>1 DEF Works
<1>7. OneWorker' /\ WorkedIsBusy'
  BY <1>1, <1>4 DEF WorkInv, OneWorker, WorkedIsBusy, Exists
<1>8. BusyIsWorked'
  BY <1>1, <1>4, <1>6 DEF WorkInv, BusyIsWorked, Exists
<1>9. UnbornUntouched'
  BY <1>1, <1>5 DEF WorkInv, UnbornUntouched
<1> QED
  BY <1>3, <1>7, <1>8, <1>9 DEF WorkInv

LEMMA CrashWork ==
    ASSUME WorkInv, Crash
    PROVE  WorkInv'
<1> DEFINE atWork == {t \in Tasks : \E w \in Workers : Works(w, t)}
<1>1. /\ crashes < MaxCrashes /\ crashes' = crashes + 1 /\ worker' = [w \in Workers |-> Idle]
      /\ editor' = None /\ orphaned' = orphaned \cup atWork
      /\ UNCHANGED <<on, row, started, overlapped, timeless>> /\ ScheduledTasksTypeOK
  BY DEF Crash, WorkInv
<1>2. ScheduledTasksTypeOK'
  <2>1. crashes' \in 0 .. MaxCrashes
    BY <1>1, ScheduledTasksAssumption DEF ScheduledTasksTypeOK
  <2> QED
    BY <1>1, <2>1 DEF ScheduledTasksTypeOK
<1>3. \A t \in Tasks, w \in Workers : ~Works(w, t)' /\ worker'[w].task # t
  BY <1>1, ScheduledTasksAssumption DEF Works, Idle
<1>4. BusyIsWorked'
  BY <1>1 DEF WorkInv, BusyIsWorked, Exists
<1> QED
  BY <1>1, <1>2, <1>3, <1>4 DEF WorkInv, OneWorker, WorkedIsBusy, UnbornUntouched, Exists

LEMMA TimeWork ==
    ASSUME WorkInv, NEW t \in Tasks, TimePasses(t)
    PROVE  WorkInv'
<1> DEFINE next == "due"
           new == [row[t] EXCEPT !.next = next]
<1>1. /\ Exists(t) /\ ScheduledTasksTypeOK
      /\ UNCHANGED <<on, worker, editor, crashes, orphaned, started, overlapped, timeless>>
  BY DEF TimePasses, HistoryUnchanged, WorkInv
<1>2. row' = [row EXCEPT ![t] = new]
  BY <1>1 DEF TimePasses, ScheduledTasksTypeOK
<1>3. new \in Row /\ new.status = row[t].status
  BY <1>1, RowOrNot DEF Row
<1> HIDE DEF new
<1>4. SetRow(t, new)
  BY <1>1, <1>2 DEF SetRow
<1>5. /\ row' \in [Tasks -> Row \cup {Unborn, Gone}]
      /\ \A u \in Tasks : Exists(u)' <=> Exists(u)
      /\ \A u \in Tasks : u # t => row'[u] = row[u]
      /\ row'[t] = new
      /\ \A u \in Tasks : row'[u] = Unborn <=> row[u] = Unborn
  BY <1>1, <1>3, <1>4, RowWritten
<1>6. ScheduledTasksTypeOK'
  BY <1>1, <1>5 DEF ScheduledTasksTypeOK
<1>7. \A u \in Tasks, v \in Workers : Works(v, u)' <=> Works(v, u)
  BY <1>1 DEF Works
<1> QED
  BY <1>1, <1>3, <1>5, <1>6, <1>7, SameWork DEF WorkInv, UnbornUntouched

LEMMA StillWork ==
    ASSUME WorkInv, UNCHANGED <<row, worker, editor, crashes, orphaned, started, overlapped, timeless>>,
           on' \in BOOLEAN
    PROVE  WorkInv'
<1>1. ScheduledTasksTypeOK'
  BY DEF WorkInv, ScheduledTasksTypeOK
<1> QED
  BY <1>1, SameWork DEF Works, Exists, WorkInv, UnbornUntouched

LEMMA NextWork == WorkInv /\ [ScheduledTasksNext]_taskVars => WorkInv'
<1> SUFFICES ASSUME WorkInv, [ScheduledTasksNext]_taskVars PROVE WorkInv'
  OBVIOUS
<1>1. ASSUME NEW w \in Workers, Working(w) PROVE WorkInv'
  BY <1>1, LoadWork, ClaimWork, PrepareWork, CreateRunWork, PrepareFailsWork, FailWork,
     CompletionWork, LastWordWork DEF Working
<1>2. CASE Switch
  BY <1>2, StillWork DEF Switch, HistoryUnchanged, WorkInv, ScheduledTasksTypeOK
<1>3. CASE UNCHANGED taskVars
  BY <1>3, StillWork DEF taskVars, WorkInv, ScheduledTasksTypeOK
<1> QED
  BY <1>1, <1>2, <1>3, CreateWork, CheckWork, UpdateWork, DeleteWork, TickWork, ManualWork,
     TimeWork, CrashWork DEF ScheduledTasksNext

-----------------------------------------------------------------------------

(* Rows, goroutines and edits are what they are meant to be.               *)
THEOREM TasksTyped == ScheduledTasksSpec => []ScheduledTasksTypeOK
<1>1. ScheduledTasksSpec => []WorkInv
  BY InitWork, NextWork, PTL DEF ScheduledTasksSpec
<1>2. WorkInv => ScheduledTasksTypeOK
  BY DEF WorkInv
<1> QED
  BY <1>1, <1>2, PTL

(* A set whose elements are equal has one at most.                         *)
LEMMA AtMostOne ==
    ASSUME NEW S, \A x, y \in S : x = y
    PROVE  Cardinality(S) <= 1
<1>1. CASE S = {}
  BY <1>1, FS_EmptySet
<1>2. CASE S # {}
  <2>1. PICK x : S = {x}
    BY <1>2
  <2> QED
    BY <2>1, FS_Singleton
<1> QED
  BY <1>1, <1>2

LEMMA WorkTold == WorkInv => StatusTellsWork
<1> SUFFICES ASSUME WorkInv, NEW t \in Tasks, Exists(t)
             PROVE  LET working == {w \in Workers : Works(w, t)} IN
                    /\ Cardinality(working) <= 1
                    /\ row[t].status \in Busy => working # {} \/ t \in orphaned
                    /\ working # {} => row[t].status \in Busy
  BY DEF StatusTellsWork
<1> DEFINE working == {w \in Workers : Works(w, t)}
<1>1. \A v, w \in working : v = w
  BY DEF WorkInv, OneWorker
<1>2. Cardinality(working) <= 1
  BY <1>1, AtMostOne
<1>3. row[t].status \in Busy => working # {} \/ t \in orphaned
  BY DEF WorkInv, BusyIsWorked
<1>4. working # {} => row[t].status \in Busy
  BY DEF WorkInv, WorkedIsBusy
<1> QED
  BY <1>2, <1>3, <1>4

(* One run of a task at a time, and a row that says busy while it runs:    *)
(* for any number of tasks, goroutines and crashes.                        *)
THEOREM WorkIsTold == ScheduledTasksSpec => []StatusTellsWork
<1>1. ScheduledTasksSpec => []WorkInv
  BY InitWork, NextWork, PTL DEF ScheduledTasksSpec
<1> QED
  BY <1>1, WorkTold, PTL

-----------------------------------------------------------------------------
(* The times of the rows.                                                  *)

(* What RestsAsAsked says of one row.                                      *)
Wanted(order, used) ==
    CASE order.kind = "interval" -> order.enabled
      [] order.kind = "once" -> order.enabled /\ ~used
      [] order.kind = "manual" -> FALSE

Rests(r, used, lost) == r.next # None <=> Wanted(r.order, used) /\ ~lost

LEMMA RestsRow ==
    RestsAsAsked <=> \A t \in Tasks : AtRest(t) /\ t \notin overlapped =>
                       Rests(row[t], t \in started, t \in timeless)
BY DEF RestsAsAsked, Rests, Wanted

LEMMA InitTimes == ScheduledTasksInit => TimesInv
<1> SUFFICES ASSUME ScheduledTasksInit PROVE TimesInv
  OBVIOUS
<1>1. \A t \in Tasks : ~Exists(t)
  BY DEF ScheduledTasksInit, Exists
<1> QED
  BY <1>1, InitWork DEF TimesInv, CopiesAgree, WorkersStarted, RestsAsAsked, AtRest

(* Steps that leave orders and whether they have a time as they are, and   *)
(* copies either as they are or taken anew.                                *)
Keeps(w, t) ==
    /\ Holds(w, t) /\ worker'[w].copy = worker[w].copy
    /\ worker'[w].pc = worker[w].pc \/ worker[w].pc # "failing"

LEMMA QuietTimes ==
    ASSUME TimesInv, WorkInv', UNCHANGED <<started, overlapped, timeless>>,
           \A t \in Tasks : Exists(t)' =>
             /\ Exists(t) /\ row'[t].order = row[t].order
             /\ row'[t].next = None <=> row[t].next = None,
           \A t \in Tasks : AtRest(t)' => AtRest(t),
           \A t \in Tasks, w \in Workers : Exists(t) /\ Holds(w, t)' =>
             worker'[w].copy = row[t].order \/ Keeps(w, t) \/ Blank(w)',
           \A t \in Tasks, w \in Workers : Works(w, t)' => Works(w, t)
    PROVE  TimesInv'
<1>1. \A t \in Tasks : Exists(t) => row[t].order \in Orders
  BY RowOrNot, RowFields DEF TimesInv, WorkInv
<1>2. CopiesAgree'
  BY <1>1 DEF TimesInv, CopiesAgree, Agrees, Keeps, Blank
<1>3. WorkersStarted'
  BY DEF TimesInv, WorkersStarted
<1>4. \A t \in Tasks : AtRest(t)' => /\ row'[t].order = row[t].order
                                     /\ row'[t].next = None <=> row[t].next = None
  BY DEF AtRest
<1>5. \A t \in Tasks : AtRest(t) /\ t \notin overlapped => Rests(row[t], t \in started, t \in timeless)
  BY RestsRow DEF TimesInv
<1>6. \A t \in Tasks : AtRest(t)' /\ t \notin overlapped' => Rests(row'[t], t \in started', t \in timeless')
  BY <1>4, <1>5 DEF Rests
<1>7. RestsAsAsked'
  BY <1>6 DEF RestsAsAsked, Rests, Wanted
<1> QED
  BY <1>2, <1>3, <1>7 DEF TimesInv

LEMMA CreateTimes ==
    ASSUME TimesInv, WorkInv', NEW t \in Tasks, NEW order \in Orders, createScheduledTask(t, order)
    PROVE  TimesInv'
<1> DEFINE status == "idle"
           next == nextAdvancedChatTaskRunAt(order)
           enabled == TRUE
           stored == [order EXCEPT !.enabled = enabled]
           new == [order |-> stored, next |-> next, status |-> status]
<1>1. /\ row' = [row EXCEPT ![t] = new] /\ row[t] = Unborn /\ WorkInv
      /\ UNCHANGED <<worker, started, overlapped>> /\ row \in [Tasks -> Row \cup {Unborn, Gone}]
      /\ timeless \subseteq timeless' /\ timeless' \subseteq timeless \cup {t}
      /\ ~order.enabled => t \in timeless'
      /\ order.enabled => timeless' = timeless
  BY DEF createScheduledTask, TimesInv, WorkInv, ScheduledTasksTypeOK
<1>2. new.order.kind = order.kind /\ new.order.enabled = TRUE /\ new.next = next
  BY DEF Orders
<1> HIDE DEF new
<1>3. row'[t] = new /\ \A u \in Tasks : u # t => row'[u] = row[u]
  BY <1>1
<1>4. t \notin started /\ t \notin timeless /\ \A w \in Workers : ~Holds(w, t)' /\ ~Works(w, t)'
  BY <1>1 DEF WorkInv, UnbornUntouched, Holds, Works
<1>5. order.kind \in Kinds /\ order.enabled \in BOOLEAN
  BY DEF Orders
<1>6. Rests(new, FALSE, ~order.enabled)
  <2>1. order.enabled => (next # None <=> order.kind # "manual")
    BY <1>5, NextTimes DEF Kinds
  <2>2. ~order.enabled => next = None
    BY DEF nextAdvancedChatTaskRunAt
  <2> QED
    BY <1>2, <1>5, <2>1, <2>2 DEF Rests, Wanted, Kinds
<1>7. \A u \in Tasks : u # t =>
        /\ Exists(u)' <=> Exists(u)
        /\ AtRest(u)' <=> AtRest(u)
        /\ \A w \in Workers : (Holds(w, u)' <=> Holds(w, u)) /\ (Works(w, u)' <=> Works(w, u))
  BY <1>1, <1>3 DEF Exists, AtRest, Holds, Works
<1>8. CopiesAgree'
  BY <1>1, <1>3, <1>4, <1>7 DEF TimesInv, CopiesAgree, Blank
<1>9. WorkersStarted'
  BY <1>1, <1>4, <1>7 DEF TimesInv, WorkersStarted
<1>10. \A u \in Tasks : AtRest(u)' /\ u \notin overlapped' => Rests(row'[u], u \in started', u \in timeless')
  <2>1. TAKE u \in Tasks
  <2>2. CASE u = t
    BY <1>1, <1>3, <1>4, <1>6, <2>2 DEF Rests, Wanted
  <2>3. CASE u # t
    BY <1>1, <1>3, <1>7, <2>3, RestsRow DEF TimesInv
  <2> QED
    BY <2>2, <2>3
<1>11. RestsAsAsked'
  BY <1>10 DEF RestsAsAsked, Rests, Wanted
<1> QED
  BY <1>8, <1>9, <1>11 DEF TimesInv

(* An edit either finds a goroutine with a copy, and is overlapped, or     *)
(* none.                                                                   *)
LEMMA UpdateTimes ==
    ASSUME TimesInv, WorkInv', NEW order \in Orders, updateScheduledTask(order)
    PROVE  TimesInv'
<1> DEFINE e == editor.task
           held == \E w \in Workers : Holds(w, e)
<1>1. WorkInv /\ UNCHANGED worker /\ started' = started \ {e} /\ timeless' = timeless \ {e}
      /\ overlapped' = IF held THEN overlapped \cup {e} ELSE overlapped \ {e}
  BY DEF updateScheduledTask, TimesInv
<1>2. /\ e \in Tasks
      /\ \A t \in Tasks : Exists(t)' <=> Exists(t)
      /\ \A t \in Tasks : t # e => row'[t] = row[t]
      /\ Exists(e) => /\ row'[e].order = order
                      /\ row'[e].next = nextAdvancedChatTaskRunAt(order)
  BY <1>1, UpdatedRow
<1>3. \A t \in Tasks, w \in Workers : (Holds(w, t)' <=> Holds(w, t)) /\ (Works(w, t)' <=> Works(w, t))
  BY <1>1 DEF Holds, Works
<1>4. \A w \in Workers : e \notin overlapped' => ~Holds(w, e)
  BY <1>1
<1>5. \A t \in Tasks : t # e =>
        /\ (t \in overlapped' <=> t \in overlapped) /\ (t \in started' <=> t \in started)
        /\ (t \in timeless' <=> t \in timeless)
  BY <1>1
<1>6. CopiesAgree'
  <2> SUFFICES ASSUME NEW t \in Tasks, Exists(t)', t \notin overlapped',
                      NEW w \in Workers, Holds(w, t)'
               PROVE  (worker'[w].copy \in Orders /\ Agrees(worker'[w].copy, row'[t].order)) \/ Blank(w)'
    BY DEF CopiesAgree
  <2>1. t # e
    BY <1>3, <1>4
  <2> QED
    BY <1>1, <1>2, <1>3, <1>5, <2>1 DEF TimesInv, CopiesAgree, Blank
<1>7. WorkersStarted'
  <2> SUFFICES ASSUME NEW t \in Tasks, Exists(t)', t \notin overlapped',
                      NEW w \in Workers, Works(w, t)'
               PROVE  t \in started'
    BY DEF WorkersStarted
  <2>1. Works(w, t) /\ Holds(w, t)
    BY <1>3 DEF Works, Holds
  <2>2. t # e
    BY <1>4, <2>1
  <2> QED
    BY <1>2, <1>5, <2>1, <2>2 DEF TimesInv, WorkersStarted
<1>8. order.kind \in Kinds /\ order.enabled \in BOOLEAN
  BY DEF Orders
<1>9. \A t \in Tasks : AtRest(t)' /\ t \notin overlapped' => Rests(row'[t], t \in started', t \in timeless')
  <2> SUFFICES ASSUME NEW t \in Tasks, AtRest(t)', t \notin overlapped'
               PROVE  Rests(row'[t], t \in started', t \in timeless')
    OBVIOUS
  <2>1. Exists(t)
    BY <1>2 DEF AtRest
  <2>2. CASE t = e
    <3>1. row'[t].order = order /\ row'[t].next = nextAdvancedChatTaskRunAt(order)
         /\ t \notin started' /\ t \notin timeless'
      BY <1>1, <1>2, <2>1, <2>2
    <3> QED
      BY <1>8, <3>1, NextTimes DEF Rests, Wanted, Kinds, nextAdvancedChatTaskRunAt
  <2>3. CASE t # e
    <3>1. AtRest(t) /\ t \notin overlapped /\ row'[t] = row[t]
      BY <1>2, <1>5, <2>1, <2>3 DEF AtRest
    <3> QED
      BY <1>5, <2>3, <3>1, RestsRow DEF TimesInv
  <2> QED
    BY <2>2, <2>3
<1>10. RestsAsAsked'
  BY <1>9 DEF RestsAsAsked, Rests, Wanted
<1> QED
  BY <1>6, <1>7, <1>10 DEF TimesInv

(* A goroutine that moves on, with the copy it has or one of the row.      *)
LEMMA MoveTimes ==
    ASSUME TimesInv, WorkInv', NEW w \in Workers, NEW q, Becomes(w, q),
           UNCHANGED <<row, started, overlapped, timeless>>,
           \A t \in Tasks : q.task = t /\ q.pc # "listed" =>
             \/ q.copy = row[t].order
             \/ Holds(w, t) /\ q.copy = worker[w].copy /\ worker[w].pc # "failing"
             \/ q.pc = "failing" /\ q.copy = None,
           \A t \in Tasks : q.task = t /\ q.pc \notin {"listed", "loaded"} => Works(w, t)
    PROVE  TimesInv'
<1>1. worker'[w] = q /\ \A v \in Workers \ {w} : worker'[v] = worker[v]
  BY DEF TimesInv, WorkInv, ScheduledTasksTypeOK, Becomes
<1>2. \A t \in Tasks, v \in Workers : Holds(v, t)' =>
        worker'[v].copy = row[t].order \/ Keeps(v, t) \/ Blank(v)'
  BY <1>1 DEF Holds, Keeps, Blank
<1>3. \A t \in Tasks, v \in Workers : Works(v, t)' => Works(v, t)
  BY <1>1 DEF Works
<1> QED
  BY <1>2, <1>3, QuietTimes DEF Exists, AtRest

LEMMA IdleTimes ==
    ASSUME TimesInv, WorkInv', NEW w \in Workers, Becomes(w, Idle), UNCHANGED <<row, started, overlapped, timeless>>
    PROVE  TimesInv'
<1>1. Idle.task = None /\ None \notin Tasks
  BY ScheduledTasksAssumption DEF Idle
<1> QED
  BY <1>1, MoveTimes

LEMMA TickTimes ==
    ASSUME TimesInv, WorkInv', NEW w \in Workers, NEW t \in Tasks, runDueAdvancedChatScheduledTasks(w, t)
    PROVE  TimesInv'
<1> DEFINE q == [pc |-> "listed", task |-> t, copy |-> None]
<1>1. Becomes(w, q) /\ UNCHANGED <<row, started, overlapped, timeless>> /\ q.pc = "listed"
  BY DEF runDueAdvancedChatScheduledTasks, HistoryUnchanged
<1> HIDE DEF q
<1> QED
  BY <1>1, MoveTimes

LEMMA ManualTimes ==
    ASSUME TimesInv, WorkInv', NEW w \in Workers, NEW t \in Tasks, runScheduledTask(w, t)
    PROVE  TimesInv'
<1> DEFINE q == [pc |-> "loaded", task |-> t, copy |-> row[t].order]
<1>1. Becomes(w, q) /\ UNCHANGED <<row, started, overlapped, timeless>>
      /\ q.pc = "loaded" /\ q.task = t /\ q.copy = row[t].order
  BY DEF runScheduledTask, HistoryUnchanged
<1> HIDE DEF q
<1> QED
  BY <1>1, MoveTimes

LEMMA LoadTimes ==
    ASSUME TimesInv, WorkInv', NEW w \in Workers, Load(w)
    PROVE  TimesInv'
<1> DEFINE copy == row[worker[w].task].order
           pc == "loaded"
           q == [worker[w] EXCEPT !.pc = pc, !.copy = copy]
<1>1. worker[w] \in Goroutine /\ UNCHANGED <<row, started, overlapped, timeless>>
      /\ (Becomes(w, q) \/ Becomes(w, Idle))
  BY GoroutineFields DEF Load, TimesInv, WorkInv, HistoryUnchanged
<1>2. q.task = worker[w].task /\ q.pc = "loaded" /\ q.copy = copy
  BY <1>1 DEF Goroutine
<1> HIDE DEF q
<1> QED
  BY <1>1, <1>2, MoveTimes, IdleTimes

LEMMA PrepareTimes ==
    ASSUME TimesInv, WorkInv', NEW w \in Workers, prepareAdvancedChatAssistantRun(w)
    PROVE  TimesInv'
<1> DEFINE pc == "prepared"
           q == [worker[w] EXCEPT !.pc = pc]
<1>1. worker[w] \in Goroutine /\ UNCHANGED <<row, started, overlapped, timeless>> /\ Becomes(w, q)
      /\ worker[w].pc = "claimed"
  BY GoroutineFields DEF prepareAdvancedChatAssistantRun, TimesInv, WorkInv, HistoryUnchanged
<1>2. q.task = worker[w].task /\ q.copy = worker[w].copy
  BY <1>1 DEF Goroutine
<1> HIDE DEF q
<1> QED
  BY <1>1, <1>2, MoveTimes DEF Holds, Works

LEMMA PrepareFailsTimes ==
    ASSUME TimesInv, WorkInv', NEW w \in Workers, PrepareFails(w)
    PROVE  TimesInv'
<1> DEFINE t == worker[w].task
           copies == {None} \cup (IF Exists(t) THEN {row[t].order} ELSE {})
           pc == "failing"
<1>1. worker[w] \in Goroutine /\ UNCHANGED <<row, started, overlapped, timeless>>
      /\ worker[w].pc \in {"claimed", "prepared"} /\ t \in Tasks
  BY GoroutineFields DEF PrepareFails, TimesInv, WorkInv, HistoryUnchanged
<1> PICK copy \in copies : Becomes(w, [worker[w] EXCEPT !.pc = pc, !.copy = copy])
  BY DEF PrepareFails
<1> DEFINE q == [worker[w] EXCEPT !.pc = pc, !.copy = copy]
<1>2. q.task = t /\ q.copy = copy /\ q.pc = "failing" /\ Becomes(w, q)
  BY <1>1 DEF Goroutine
<1> HIDE DEF q
<1>3. copy = None \/ copy = row[t].order
  OBVIOUS
<1> QED
  BY <1>1, <1>2, <1>3, MoveTimes DEF Works

LEMMA CreateRunTimes ==
    ASSUME TimesInv, WorkInv', NEW w \in Workers, createAdvancedChatAssistantRun(w)
    PROVE  TimesInv'
<1> DEFINE t == worker[w].task
           status == "running"
           new == [row[t] EXCEPT !.status = status]
           pc == "running"
           q == [worker[w] EXCEPT !.pc = pc]
<1>1. /\ worker[w] \in Goroutine /\ t \in Tasks /\ worker[w].pc = "prepared" /\ ScheduledTasksTypeOK
      /\ Becomes(w, q) /\ (SetRow(t, new) \/ UNCHANGED row)
      /\ UNCHANGED <<started, overlapped, timeless>>
  BY GoroutineFields DEF createAdvancedChatAssistantRun, TimesInv, WorkInv, HistoryUnchanged
<1>2. q.task = t /\ q.copy = worker[w].copy
  BY <1>1 DEF Goroutine
<1> HIDE DEF q
<1>3. CASE UNCHANGED row
  BY <1>1, <1>2, <1>3, MoveTimes DEF Holds, Works
<1>4. CASE SetRow(t, new)
  <2>1. Exists(t) => new \in Row /\ new.status \in Busy /\ new.order = row[t].order /\ new.next = row[t].next
    BY <1>1, RowOrNot DEF Row, Busy
  <2> HIDE DEF new
  <2>2. /\ \A u \in Tasks : Exists(u)' <=> Exists(u)
        /\ \A u \in Tasks : u # t => row'[u] = row[u]
        /\ row'[t] = IF Exists(t) THEN new ELSE row[t]
    BY <1>1, <1>4, <2>1, RowWritten
  <2>3. worker'[w] = q /\ \A v \in Workers \ {w} : worker'[v] = worker[v]
    BY <1>1 DEF ScheduledTasksTypeOK, Becomes
  <2>4. \A u \in Tasks, v \in Workers : Holds(v, u)' => Keeps(v, u)
    BY <1>1, <1>2, <2>3 DEF Holds, Keeps
  <2>5. \A u \in Tasks, v \in Workers : Works(v, u)' => Works(v, u)
    BY <1>1, <1>2, <2>3 DEF Works
  <2>6. \A u \in Tasks : AtRest(u)' => AtRest(u)
    BY <2>1, <2>2 DEF AtRest
  <2>7. \A u \in Tasks : Exists(u)' =>
          /\ Exists(u) /\ row'[u].order = row[u].order
          /\ row'[u].next = None <=> row[u].next = None
    BY <2>1, <2>2
  <2> QED
    BY <1>1, <2>4, <2>5, <2>6, <2>7, QuietTimes
<1> QED
  BY <1>1, <1>3, <1>4

LEMMA TimeTimes ==
    ASSUME TimesInv, WorkInv', NEW t \in Tasks, TimePasses(t)
    PROVE  TimesInv'
<1> DEFINE next == "due"
           new == [row[t] EXCEPT !.next = next]
<1>1. /\ Exists(t) /\ row[t].next = "later" /\ ScheduledTasksTypeOK
      /\ UNCHANGED <<worker, started, overlapped, timeless>>
  BY DEF TimePasses, HistoryUnchanged, TimesInv, WorkInv
<1>2. row' = [row EXCEPT ![t] = new]
  BY <1>1 DEF TimePasses, ScheduledTasksTypeOK
<1>3. new \in Row /\ new.status = row[t].status /\ new.order = row[t].order /\ new.next = "due"
  BY <1>1, RowOrNot DEF Row
<1> HIDE DEF new
<1>4. SetRow(t, new)
  BY <1>1, <1>2 DEF SetRow
<1>5. /\ \A u \in Tasks : Exists(u)' <=> Exists(u)
      /\ \A u \in Tasks : u # t => row'[u] = row[u]
      /\ row'[t] = new
  BY <1>1, <1>3, <1>4, RowWritten
<1>6. \A u \in Tasks : Exists(u)' =>
        /\ Exists(u) /\ row'[u].order = row[u].order
        /\ row'[u].next = None <=> row[u].next = None
  BY <1>1, <1>3, <1>5, ScheduledTasksAssumption
<1>7. \A u \in Tasks : AtRest(u)' => AtRest(u)
  BY <1>3, <1>5 DEF AtRest
<1> QED
  BY <1>1, <1>6, <1>7, QuietTimes DEF Holds, Works, Keeps

LEMMA ClaimTimes ==
    ASSUME TimesInv, WorkInv', NEW w \in Workers, Claim(w)
    PROVE  TimesInv'
<1> DEFINE t == worker[w].task
           status == "queued"
           new == [row[t] EXCEPT !.status = status]
           pc == "claimed"
           q == [worker[w] EXCEPT !.pc = pc]
<1>1. worker[w] \in Goroutine /\ t \in Tasks /\ worker[w].pc = "loaded" /\ ScheduledTasksTypeOK
  BY GoroutineFields DEF Claim, TimesInv, WorkInv
<1>2. CASE ~AtRest(t)
  <2>1. Becomes(w, Idle) /\ UNCHANGED <<row, started, overlapped, timeless>>
    BY <1>2 DEF Claim
  <2> QED
    BY <2>1, IdleTimes
<1>3. CASE AtRest(t)
  <2>1. /\ row' = [row EXCEPT ![t] = new] /\ Becomes(w, q)
        /\ started' = started \cup {t} /\ UNCHANGED <<overlapped, timeless>>
    BY <1>1, <1>3 DEF Claim, Claims, ScheduledTasksTypeOK
  <2>2. new.order = row[t].order /\ new.status \in Busy /\ new \in Row /\ Exists(t)
    BY <1>1, <1>3, RowOrNot DEF Row, Busy, AtRest
  <2>3. q.task = t /\ q.copy = worker[w].copy /\ q.pc = "claimed"
    BY <1>1 DEF Goroutine
  <2> HIDE DEF new, q
  <2>4. SetRow(t, new)
    BY <2>1, <2>2 DEF SetRow
  <2>5. /\ \A u \in Tasks : Exists(u)' <=> Exists(u)
        /\ \A u \in Tasks : u # t => row'[u] = row[u]
        /\ row'[t] = new
    BY <1>1, <2>2, <2>4, RowWritten
  <2>6. worker'[w] = q /\ \A v \in Workers \ {w} : worker'[v] = worker[v]
    BY <1>1, <2>1 DEF ScheduledTasksTypeOK, Becomes
  <2>7. \A u \in Tasks, v \in Workers : Holds(v, u)' => Keeps(v, u)
    BY <1>1, <2>3, <2>6 DEF Holds, Keeps
  <2>8. \A u \in Tasks : row'[u].order = row[u].order
    BY <2>2, <2>5
  <2>9. CopiesAgree'
    BY <2>1, <2>5, <2>7, <2>8 DEF TimesInv, CopiesAgree, Keeps, Blank
  <2>10. \A u \in Tasks, v \in Workers : Works(v, u)' => Works(v, u) \/ u = t
    BY <1>1, <2>3, <2>6 DEF Works
  <2>11. WorkersStarted'
    BY <2>1, <2>5, <2>10 DEF TimesInv, WorkersStarted
  <2>12. \A u \in Tasks : AtRest(u)' => u # t /\ AtRest(u) /\ row'[u] = row[u]
    BY <2>2, <2>5 DEF AtRest
  <2>13. RestsAsAsked'
    BY <2>1, <2>12 DEF TimesInv, RestsAsAsked
  <2> QED
    BY <2>9, <2>11, <2>13 DEF TimesInv
<1> QED
  BY <1>2, <1>3

(* The next time comes from a copy that agrees with the row.               *)
LEMMA NextRests ==
    ASSUME NEW copy \in Orders, NEW order \in Orders, NEW r, NEW used \in BOOLEAN, used,
           Agrees(copy, order), Agrees(order, r.order), r.next = NextAfter(copy)
    PROVE  Rests(r, used, FALSE)
<1>1. copy # None /\ order.kind \in Kinds
  BY ScheduledTasksAssumption DEF Orders
<1>2. CASE order.kind = "once"
  BY <1>1, <1>2, NextTimes DEF Agrees, NextAfter, Rests, Wanted
<1>3. CASE order.kind # "once"
  <2>1. copy = order /\ r.order = order
    BY <1>3 DEF Agrees
  <2> QED
    BY <1>1, <1>3, <2>1, NextTimes DEF NextAfter, Rests, Wanted, Kinds
<1> QED
  BY <1>2, <1>3

LEMMA EndsTimes ==
    ASSUME TimesInv, WorkInv', NEW w \in Workers, NEW r, worker[w] \in Goroutine,
           worker[w].pc \notin {"listed", "loaded"},
           Exists(worker[w].task) => r \in Row /\ r.next = NextAfter(worker[w].copy),
           Exists(worker[w].task) /\ worker[w].task \notin overlapped =>
             Agrees(row[worker[w].task].order, r.order),
           SetRow(worker[w].task, r), Becomes(w, Idle), UNCHANGED <<started, overlapped>>,
           timeless' = IF Blank(w) THEN timeless \cup {worker[w].task} ELSE timeless \ {worker[w].task}
    PROVE  TimesInv'
<1> DEFINE t == worker[w].task
<1>1. t \in Tasks /\ ScheduledTasksTypeOK /\ Works(w, t) /\ Holds(w, t)
  BY GoroutineFields DEF TimesInv, WorkInv, Works, Holds
<1>2. /\ \A u \in Tasks : Exists(u)' <=> Exists(u)
      /\ \A u \in Tasks : u # t => row'[u] = row[u]
      /\ row'[t] = IF Exists(t) THEN r ELSE row[t]
  BY <1>1, RowWritten
<1>3. worker'[w] = Idle /\ \A v \in Workers \ {w} : worker'[v] = worker[v]
  BY <1>1 DEF ScheduledTasksTypeOK, Becomes
<1>4. \A u \in Tasks, v \in Workers : Holds(v, u)' => Keeps(v, u)
  BY <1>3, ScheduledTasksAssumption DEF Holds, Keeps, Idle
<1>5. \A u \in Tasks, v \in Workers : Works(v, u)' => Works(v, u)
  BY <1>3, ScheduledTasksAssumption DEF Works, Idle
<1>6. \A u \in Tasks : Exists(u) /\ u \notin overlapped => Agrees(row[u].order, row'[u].order)
  <2> SUFFICES ASSUME NEW u \in Tasks, Exists(u), u \notin overlapped
               PROVE  Agrees(row[u].order, row'[u].order)
    OBVIOUS
  <2>1. CASE u = t
    BY <1>2, <2>1
  <2>2. CASE u # t
    BY <1>2, <2>2 DEF Agrees
  <2> QED
    BY <2>1, <2>2
<1>7. CopiesAgree'
  BY <1>2, <1>4, <1>6 DEF TimesInv, CopiesAgree, Agrees, Keeps, Blank
<1>8. WorkersStarted'
  BY <1>2, <1>5 DEF TimesInv, WorkersStarted
<1>9. \A u \in Tasks : AtRest(u)' /\ u \notin overlapped' => Rests(row'[u], u \in started', u \in timeless')
  <2> SUFFICES ASSUME NEW u \in Tasks, AtRest(u)', u \notin overlapped
               PROVE  Rests(row'[u], u \in started, u \in timeless')
    OBVIOUS
  <2>1. Exists(u)
    BY <1>2 DEF AtRest
  <2>2. CASE u = t /\ Blank(w)
    <3>1. row'[u].next = None /\ u \in timeless'
      BY <1>2, <2>1, <2>2 DEF Blank, NextAfter
    <3> QED
      BY <3>1 DEF Rests
  <2>3. CASE u = t /\ ~Blank(w)
    <3>1. worker[w].copy \in Orders /\ Agrees(worker[w].copy, row[u].order) /\ u \in started
      BY <1>1, <2>1, <2>3 DEF TimesInv, CopiesAgree, WorkersStarted
    <3>2. row[u].order \in Orders
      BY <1>1, <2>1, RowOrNot, RowFields
    <3>3. Agrees(row[u].order, row'[u].order) /\ row'[u].next = NextAfter(worker[w].copy)
      BY <1>2, <1>6, <2>1, <2>3
    <3>4. Rests(row'[u], TRUE, FALSE)
      BY <3>1, <3>2, <3>3, NextRests
    <3>5. u \notin timeless'
      BY <2>3
    <3> QED
      BY <3>1, <3>4, <3>5 DEF Rests, Wanted
  <2>4. CASE u # t
    <3>1. AtRest(u) /\ row'[u] = row[u] /\ (u \in timeless' <=> u \in timeless)
      BY <1>2, <2>1, <2>4 DEF AtRest
    <3> QED
      BY <3>1, RestsRow DEF TimesInv, Rests
  <2> QED
    BY <2>2, <2>3, <2>4
<1>10. RestsAsAsked'
  BY <1>9 DEF RestsAsAsked, Rests, Wanted
<1> QED
  BY <1>7, <1>8, <1>10 DEF TimesInv

LEMMA FailTimes ==
    ASSUME TimesInv, WorkInv', NEW w \in Workers, failAdvancedChatScheduledTaskQueue(w)
    PROVE  TimesInv'
<1> DEFINE t == worker[w].task
           status == "failed"
           next == NextAfter(worker[w].copy)
           new == [row[t] EXCEPT !.status = status, !.next = next]
<1>1. /\ worker[w] \in Goroutine /\ t \in Tasks /\ worker[w].copy \in Orders \cup {None}
      /\ worker[w].pc = "failing" /\ ScheduledTasksTypeOK /\ SetRow(t, new) /\ Becomes(w, Idle)
      /\ UNCHANGED <<started, overlapped>>
      /\ timeless' = IF Blank(w) THEN timeless \cup {t} ELSE timeless \ {t}
  BY GoroutineFields DEF failAdvancedChatScheduledTaskQueue, TimesInv, WorkInv, Blank
<1>2. next \in Times /\ next = NextAfter(worker[w].copy)
  BY <1>1, NextAfterTimes
<1> HIDE DEF next
<1>3. Exists(t) => new \in Row /\ new.next = next /\ new.order = row[t].order
  BY <1>1, <1>2, RowOrNot DEF Row, Busy, Times
<1> HIDE DEF new
<1> QED
  BY <1>1, <1>2, <1>3, EndsTimes DEF Agrees

LEMMA CompletionTimes ==
    ASSUME TimesInv, WorkInv', NEW w \in Workers, NEW status \in {"completed", "failed"},
           runAdvancedChatScheduledTaskCompletion(w, status)
    PROVE  TimesInv'
<1> DEFINE t == worker[w].task
           copy == worker[w].copy
           next == NextAfter(copy)
           done == copy.kind = "once" /\ status = "completed"
           new == [row[t] EXCEPT !.status = status, !.next = next, !.order.enabled = @ /\ ~done]
           enabled == row[t].order.enabled /\ ~done
           order == [row[t].order EXCEPT !.enabled = enabled]
<1>1. /\ worker[w] \in Goroutine /\ t \in Tasks /\ copy \in Orders \cup {None}
      /\ worker[w].pc = "running" /\ ScheduledTasksTypeOK /\ SetRow(t, new) /\ Becomes(w, Idle)
      /\ UNCHANGED <<started, overlapped>>
      /\ timeless' = IF Blank(w) THEN timeless \cup {t} ELSE timeless \ {t}
  BY GoroutineFields DEF runAdvancedChatScheduledTaskCompletion, TimesInv, WorkInv, Blank
<1>2. next \in Times /\ next = NextAfter(copy)
  BY <1>1, NextAfterTimes
<1>3. Exists(t) => row[t] \in Row /\ row[t].order \in Orders
  BY <1>1, RowOrNot, RowFields
<1>4. Exists(t) => enabled \in BOOLEAN /\ (done \/ enabled = row[t].order.enabled)
  BY <1>3 DEF Orders
<1>5. done => copy.kind = "once"
  OBVIOUS
<1> HIDE DEF next, done, copy
<1>6. new = [row[t] EXCEPT !.status = status, !.next = next, !.order = order]
  BY DEF done, next
<1> HIDE DEF new, enabled
<1>7. Exists(t) => order \in Orders /\ order.kind = row[t].order.kind
                   /\ (done \/ order = row[t].order)
  BY <1>3, <1>4 DEF Orders
<1> HIDE DEF order
<1>8. Exists(t) => new \in Row /\ new.next = next /\ new.order = order
  BY <1>2, <1>3, <1>6, <1>7 DEF Row, Times, Busy
<1>9. Exists(t) /\ t \notin overlapped => Agrees(row[t].order, order)
  <2>1. Holds(w, t)
    BY <1>1 DEF Holds
  <2>2. Exists(t) /\ t \notin overlapped => Agrees(copy, row[t].order)
    BY <1>1, <2>1 DEF TimesInv, CopiesAgree, Blank, copy
  <2> QED
    BY <1>5, <1>7, <2>2 DEF Agrees
<1> QED
  BY <1>1, <1>2, <1>8, <1>9, EndsTimes DEF copy

LEMMA CrashTimes ==
    ASSUME TimesInv, WorkInv', Crash
    PROVE  TimesInv'
<1>1. \A t \in Tasks, w \in Workers : ~Holds(w, t)' /\ ~Works(w, t)'
  BY ScheduledTasksAssumption DEF Crash, Holds, Works, Idle
<1> QED
  BY <1>1, QuietTimes DEF Crash, Exists, AtRest

LEMMA DeleteTimes ==
    ASSUME TimesInv, WorkInv', deleteScheduledTask
    PROVE  TimesInv'
<1> DEFINE e == editor.task
<1>1. row' = [row EXCEPT ![e] = Gone] /\ UNCHANGED <<worker, started, overlapped, timeless>>
  BY DEF deleteScheduledTask, HistoryUnchanged
<1>2. \A t \in Tasks : Exists(t)' => Exists(t) /\ row'[t] = row[t]
  BY <1>1 DEF TimesInv, WorkInv, ScheduledTasksTypeOK, Exists
<1>3. \A t \in Tasks : AtRest(t)' => AtRest(t)
  BY <1>2 DEF AtRest
<1>4. \A t \in Tasks, w \in Workers : (Holds(w, t)' <=> Holds(w, t)) /\ (Works(w, t)' <=> Works(w, t))
  BY <1>1 DEF Holds, Works
<1> QED
  BY <1>1, <1>2, <1>3, <1>4, QuietTimes DEF Keeps

LEMMA StillTimes ==
    ASSUME TimesInv, WorkInv', UNCHANGED <<row, worker, started, overlapped, timeless>>
    PROVE  TimesInv'
BY QuietTimes DEF Exists, AtRest, Holds, Works, Keeps

LEMMA NextRestsAsAsked == TimesInv /\ [ScheduledTasksNext]_taskVars => TimesInv'
<1> SUFFICES ASSUME TimesInv, [ScheduledTasksNext]_taskVars PROVE TimesInv'
  OBVIOUS
<1>1. WorkInv'
  BY NextWork DEF TimesInv
<1>2. ASSUME NEW w \in Workers, Working(w) PROVE TimesInv'
  <2>1. CASE LastWordLost(w)
    BY <1>1, <2>1, IdleTimes DEF LastWordLost
  <2> QED
    BY <1>1, <1>2, <2>1, LoadTimes, ClaimTimes, PrepareTimes, CreateRunTimes, PrepareFailsTimes,
       FailTimes, CompletionTimes DEF Working
<1>3. ASSUME NEW t \in Tasks, NEW does \in {"update", "delete"}, Check(t, does) PROVE TimesInv'
  BY <1>1, <1>3, StillTimes DEF Check, HistoryUnchanged
<1>4. CASE Switch
  BY <1>1, <1>4, StillTimes DEF Switch, HistoryUnchanged
<1>5. CASE UNCHANGED taskVars
  BY <1>1, <1>5, StillTimes DEF taskVars
<1> QED
  BY <1>1, <1>2, <1>3, <1>4, <1>5, CreateTimes, UpdateTimes, DeleteTimes, TickTimes, ManualTimes,
     TimeTimes, CrashTimes DEF ScheduledTasksNext

(* A row at rest has the times its order asks for, however starts, edits   *)
(* and crashes interleave, for every number of tasks and goroutines.  The  *)
(* rows it excuses: one edited while a goroutine had a copy of it, and one *)
(* that a creation as disabled or a failed read of a start that failed     *)
(* left without a time.                                                    *)
THEOREM TasksRestAsAsked == ScheduledTasksSpec => []RestsAsAsked
<1>1. ScheduledTasksSpec => []TimesInv
  BY InitTimes, NextRestsAsAsked, PTL DEF ScheduledTasksSpec
<1>2. TimesInv => RestsAsAsked
  BY DEF TimesInv
<1> QED
  BY <1>1, <1>2, PTL
=============================================================================
