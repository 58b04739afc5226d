-------------------------- MODULE GenerationsProofs --------------------------
(***************************************************************************)
(* That generations are paid for, that statuses tell the truth and that    *)
(* settled rows change late, for any number of users, channels, jobs,      *)
(* calls and polls, and any words upstreams use.                           *)
(*                                                                         *)
(* None of the three is inductive alone.  What a call or a poll holds was  *)
(* read some time ago: the invariant says what is still true of it when    *)
(* it is written.                                                          *)
(***************************************************************************)
EXTENDS Generations, TLAPS

Working ==
    [pc: {"answered", "charged"}, user: Users, endpoint: Endpoints, channel: Channels,
     job: Jobs, id: {"", "job"}, status: Statuses \cup {""}, cost: Costs \cup {0}]

Asked ==
    [pc: {"asking", "answered", "told"}, user: Users, job: Jobs,
     api: {"video", "compatible"}, copy: Statuses, reply: Statuses]

Typed ==
    /\ channels \subseteq Channels
    /\ call \in [Calls -> {NoCall} \cup Working]
    /\ task \in [Jobs -> Row \cup {None}]
    /\ poll \in [Polls -> {NoPoll} \cup Asked]
    /\ stage \in [Jobs -> {"none", "working", "finished", "failed"}]
    /\ charged \in [Jobs -> Seq(Costs)]
    /\ fate \in [Jobs -> {"none", "refused", "delivered", "task", "lost"}]

(* A call that runs has its job to itself; nobody else has paid for it.    *)
CallSound(r) ==
    LET j == call[r].job IN
    /\ stage[j] # "none" /\ task[j] = None /\ fate[j] = "none"
    /\ Truthful(call[r].status, j)
    /\ call[r].pc = "answered" => charged[j] = <<>>
    /\ call[r].pc = "charged" => charged[j] = <<call[r].cost>> /\ call[r].cost \in Costs
    /\ \A o \in Calls : call[o].pc # "idle" /\ call[o].job = j => o = r

CallsSound == \A r \in Calls : call[r].pc # "idle" => CallSound(r)

(* A job nobody has begun has left no trace; rows are what callers were    *)
(* given, and nothing else is.                                             *)
JobsSound ==
    \A j \in Jobs :
      /\ stage[j] = "none" => task[j] = None /\ charged[j] = <<>> /\ fate[j] = "none"
      /\ task[j] # None <=> fate[j] = "task"

(* What a poll copied was true and stays true: a job ends once.            *)
PollSound(p) ==
    LET j == poll[p].job IN
    /\ task[j] # None /\ task[j].owner = poll[p].user
    /\ Truthful(poll[p].copy, j) /\ Truthful(poll[p].reply, j)
    /\ poll[p].pc \in {"asking", "answered"} => ~Ended(poll[p].copy)

PollsSound == \A p \in Polls : poll[p].pc # "idle" => PollSound(p)

RowsTrue == \A j \in Jobs : task[j] # None => Truthful(task[j].status, j)

GenerationsInv ==
    /\ Typed /\ CallsSound /\ JobsSound /\ PollsSound /\ RowsTrue
    /\ GenerationsArePaid

-----------------------------------------------------------------------------
(* The words of upstreams.                                                 *)

(* A status the site has read once is read again as it stands.             *)
LEMMA NormalStays ==
    ASSUME NEW w
    PROVE  normalizeVideoTaskStatus(normalizeVideoTaskStatus(w)) = normalizeVideoTaskStatus(w)
  BY DEF normalizeVideoTaskStatus

(* Spelling a word as the other family of endpoints does not change what   *)
(* it means.                                                               *)
LEMMA SpellingKeepsMeaning ==
    ASSUME NEW w, NEW api
    PROVE  /\ Means(normalizeVideoTaskStatus(w)) = Means(w)
           /\ Means(normalizeCompatibleTaskStatus(w)) = Means(w)
           /\ Means(Spelled(api, w)) = Means(w)
<1>1. Means(normalizeVideoTaskStatus(w)) = Means(w)
  BY NormalStays DEF Means
<1>2. Means(normalizeCompatibleTaskStatus(w)) = Means(w)
  <2>1. /\ normalizeVideoTaskStatus("completed") = "succeeded"
        /\ normalizeVideoTaskStatus("pending") = "queued"
    BY DEF normalizeVideoTaskStatus
  <2> QED
    BY <2>1 DEF Means, normalizeCompatibleTaskStatus
<1> QED
  BY <1>1, <1>2 DEF Spelled

(* Both families take every status that ends a job for final.              *)
LEMMA EndingsAreTerminal ==
    ASSUME NEW status \in Statuses, Ended(status), NEW api
    PROVE  Terminal(api, status)
<1>1. normalizeVideoTaskStatus(status) \in {"succeeded", "failed", "cancelled"}
  BY DEF Ended, Means
<1>2. PICK w : \/ status = normalizeVideoTaskStatus(w)
               \/ status = normalizeCompatibleTaskStatus(normalizeVideoTaskStatus(w))
               \/ status \in {"queued", "pending", "succeeded", "completed"}
  BY DEF Statuses
<1>3. status \in {"succeeded", "failed", "cancelled", "completed"}
  <2>1. CASE status = normalizeVideoTaskStatus(w)
    BY <1>1, <2>1, NormalStays
  <2>2. CASE status = normalizeCompatibleTaskStatus(normalizeVideoTaskStatus(w))
    <3> DEFINE n == normalizeVideoTaskStatus(w)
    <3>1. normalizeVideoTaskStatus(n) = n
      BY NormalStays
    <3>2. status \in {"completed", "pending", n}
      BY <2>2 DEF normalizeCompatibleTaskStatus
    <3> HIDE DEF n
    <3>3. normalizeVideoTaskStatus("pending") = "queued"
      BY DEF normalizeVideoTaskStatus
    <3> QED
      BY <1>1, <3>1, <3>2, <3>3
  <2>3. CASE status \in {"queued", "pending", "succeeded", "completed"}
    BY <1>1, <2>3 DEF normalizeVideoTaskStatus
  <2> QED
    BY <1>2, <2>1, <2>2, <2>3
<1>4. /\ terminalVideoTaskStatus(status)
      /\ terminalCompatibleTaskStatus(status)
  BY <1>3 DEF terminalVideoTaskStatus, TerminalWords, terminalCompatibleTaskStatus,
              normalizeCompatibleTaskStatus, normalizeVideoTaskStatus
<1> QED
  BY <1>4 DEF Terminal

(* A status that is spelled differently is a status, and so is what the    *)
(* words of upstreams become.                                              *)
LEMMA SpelledStatus ==
    ASSUME NEW status \in Statuses, NEW api
    PROVE  normalizeCompatibleTaskStatus(status) \in Statuses /\ Spelled(api, status) \in Statuses
<1>1. normalizeCompatibleTaskStatus(status) \in {"completed", "pending", status}
  BY DEF normalizeCompatibleTaskStatus
<1>2. {"completed", "pending"} \subseteq Statuses
  BY DEF Statuses
<1> QED
  BY <1>1, <1>2 DEF Spelled

LEMMA ReadStatus == {normalizeVideoTaskStatus(w) : w \in Words} \cup {"succeeded"} \subseteq Statuses
  BY DEF Statuses

LEMMA NothingSaid ==
    /\ normalizeCompatibleTaskStatus("") = "" /\ \A api : Spelled(api, "") = ""
    /\ ~Ended("") /\ ~Ended("queued") /\ ~Ended("pending")
  BY DEF Spelled, normalizeCompatibleTaskStatus, normalizeVideoTaskStatus, Ended, Means

-----------------------------------------------------------------------------
(* What is read from a report.                                             *)

SaidFirst(strings, s) ==
    \/ s = "" /\ \A i \in DOMAIN strings : strings[i] = ""
    \/ s # "" /\ \E i \in DOMAIN strings : s = strings[i]

(* The word or id that counts is one that was said, if any was.            *)
LEMMA FirstIsSaid ==
    ASSUME NEW strings, DOMAIN strings \in {1 .. 1, 1 .. 2}
    PROVE  SaidFirst(strings, First(strings))
<1> DEFINE found == {i \in DOMAIN strings : strings[i] # ""}
<1>1. CASE found = {}
  BY <1>1 DEF First, SaidFirst
<1>2. CASE found # {}
  <2>1. found \subseteq {1, 2}
    <3>1. DOMAIN strings = 1 .. 1 \/ DOMAIN strings = 1 .. 2
      OBVIOUS
    <3>2. \A i \in DOMAIN strings : i \in {1, 2}
      BY <3>1
    <3> QED
      BY <3>2
  <2>2. \E x \in found : \A y \in found : x =< y
    <3> HIDE DEF found
    <3>1. CASE 1 \in found
      BY <2>1, <3>1
    <3>2. CASE 1 \notin found
      <4>1. found = {2}
        BY <1>2, <2>1, <3>2
      <4> QED
        BY <4>1
    <3> QED
      BY <3>1, <3>2
  <2>3. Min(found) \in found
    <3> HIDE DEF found
    <3> QED
      BY <2>2 DEF Min
  <2>4. First(strings) = strings[Min(found)]
    BY <1>2 DEF First
  <2> QED
    BY <2>3, <2>4 DEF SaidFirst
<1> QED
  BY <1>1, <1>2

(* An upstream tells the truth, and so does what is read from its report.  *)
LEMMA HeardIsTrue ==
    ASSUME NEW at \in {"working", "finished", "failed"}, NEW heard \in Heard[at]
    PROVE  /\ heard.id \in {"", "job"}
           /\ heard.status \in {normalizeVideoTaskStatus(w) : w \in Words} \cup {"", "succeeded"}
           /\ Ended(heard.status) => Means(heard.status) = at
<1>1. PICK r \in Reports(at) :
         heard = [id |-> upstreamTaskIDFromPayload(r), status |-> videoTaskStatusFromPayload(r)]
  BY DEF Heard
<1> DEFINE said == {w \in Words : Means(w) = at} \cup {""}
           Layer == [id: {"", "job"}, word: said]
           words == [i \in DOMAIN r.layers |-> r.layers[i].word]
           ids == [i \in DOMAIN r.layers |-> r.layers[i].id]
           word == First(words)
           id == First(ids)
<1>2. /\ r.layers \in {<<l>> : l \in Layer} \cup (Layer \X Layer)
      /\ r.list \in BOOLEAN
      /\ r.list /\ (\A i \in DOMAIN r.layers : r.layers[i].word = "") => at = "finished"
  BY DEF Reports
<1>3. /\ DOMAIN r.layers \in {1 .. 1, 1 .. 2}
      /\ \A i \in DOMAIN r.layers : r.layers[i].id \in {"", "job"} /\ r.layers[i].word \in said
  <2> HIDE DEF said
  <2>1. CASE r.layers \in {<<l>> : l \in Layer}
    <3>1. PICK l \in Layer : r.layers = <<l>>
      BY <2>1
    <3>2. DOMAIN r.layers = 1 .. 1 /\ \A i \in DOMAIN r.layers : r.layers[i] \in Layer
      <4> HIDE DEF Layer
      <4> QED
        BY <3>1
    <3> QED
      BY <3>2
  <2>2. CASE r.layers \in Layer \X Layer
    <3> HIDE DEF Layer
    <3>1. PICK l \in Layer, m \in Layer : r.layers = <<l, m>>
      BY <2>2
    <3>2. DOMAIN r.layers = 1 .. 2 /\ \A i \in DOMAIN r.layers : r.layers[i] \in Layer
      BY <3>1
    <3> USE DEF Layer
    <3> QED
      BY <3>2
  <2> HIDE DEF Layer
  <2> QED
    BY <1>2, <2>1, <2>2
<1>4. \/ word = "" /\ \A i \in DOMAIN r.layers : r.layers[i].word = ""
      \/ word # "" /\ word \in said
  <2>1. DOMAIN words \in {1 .. 1, 1 .. 2}
    BY <1>3
  <2>2. DOMAIN words = DOMAIN r.layers /\ \A i \in DOMAIN words : words[i] = r.layers[i].word
    OBVIOUS
  <2> HIDE DEF words, said
  <2>3. SaidFirst(words, First(words))
    BY <2>1, FirstIsSaid
  <2> QED
    BY <1>3, <2>1, <2>2, <2>3 DEF SaidFirst
<1>5. id \in {"", "job"}
  <2>1. DOMAIN ids \in {1 .. 1, 1 .. 2}
    BY <1>3
  <2>2. \A i \in DOMAIN ids : ids[i] \in {"", "job"}
    BY <1>3
  <2> HIDE DEF ids
  <2>3. SaidFirst(ids, First(ids))
    BY <2>1, FirstIsSaid
  <2> QED
    BY <2>2, <2>3 DEF SaidFirst
<1>6. heard.id = id
  BY <1>1 DEF upstreamTaskIDFromPayload
<1>7. heard.status = CASE word # "" -> normalizeVideoTaskStatus(word)
                       [] word = "" /\ r.list -> "succeeded"
                       [] OTHER -> ""
  BY <1>1 DEF videoTaskStatusFromPayload
<1>8. CASE word # ""
  <2>1. word \in Words /\ Means(word) = at
    BY <1>4, <1>8
  <2>2. heard.status = normalizeVideoTaskStatus(word)
    BY <1>7, <1>8
  <2> HIDE DEF word
  <2> QED
    BY <1>5, <1>6, <2>1, <2>2, SpellingKeepsMeaning
<1>9. CASE word = "" /\ r.list
  <2>1. heard.status = "succeeded" /\ at = "finished"
    BY <1>2, <1>4, <1>7, <1>9
  <2>2. Means("succeeded") = "finished"
    BY DEF Means, normalizeVideoTaskStatus
  <2> QED
    BY <1>5, <1>6, <2>1, <2>2
<1>10. CASE word = "" /\ ~r.list
  <2>1. heard.status = ""
    BY <1>7, <1>10
  <2>2. ~Ended("")
    BY DEF Ended, Means, normalizeVideoTaskStatus
  <2> QED
    BY <1>5, <1>6, <2>1, <2>2
<1> QED
  BY <1>8, <1>9, <1>10

-----------------------------------------------------------------------------
(* What the invariant says of one call and of one poll.                    *)

LEMMA TypesHold == Typed => GenerationsTypeOK
<1> SUFFICES ASSUME Typed
             PROVE  GenerationsTypeOK
  OBVIOUS
<1>1. \A r \in Calls : call[r].pc \in {"idle", "answered", "charged"}
  <2>1. ASSUME NEW r \in Calls
        PROVE  call[r].pc \in {"idle", "answered", "charged"}
    <3>1. call[r] = NoCall \/ call[r] \in Working
      BY DEF Typed
    <3>2. NoCall.pc = "idle"
      BY DEF NoCall
    <3>3. call[r] \in Working => call[r].pc \in {"answered", "charged"}
      BY DEF Working
    <3> QED
      BY <3>1, <3>2, <3>3
  <2> QED
    BY <2>1
<1>2. \A p \in Polls : poll[p].pc \in {"idle", "asking", "answered", "told"}
  <2>1. ASSUME NEW p \in Polls
        PROVE  poll[p].pc \in {"idle", "asking", "answered", "told"}
    <3>1. poll[p] = NoPoll \/ poll[p] \in Asked
      BY DEF Typed
    <3> QED
      BY <3>1 DEF NoPoll, Asked
  <2> QED
    BY <2>1
<1> QED
  BY <1>1, <1>2 DEF Typed, GenerationsTypeOK

LEMMA RunningCall ==
    ASSUME GenerationsInv, NEW r \in Calls, call[r].pc # "idle"
    PROVE  /\ call[r] \in Working
           /\ call[r].job \in Jobs
           /\ call[r].user \in Users
           /\ call[r].channel \in Channels
           /\ call[r].status \in Statuses \cup {""}
           /\ CallSound(r)
<1>1. call[r] \in Working
  BY DEF GenerationsInv, Typed, NoCall
<1> QED
  BY <1>1 DEF GenerationsInv, CallsSound, Working

LEMMA RunningPoll ==
    ASSUME GenerationsInv, NEW p \in Polls, poll[p].pc # "idle"
    PROVE  /\ poll[p] \in Asked
           /\ poll[p].job \in Jobs
           /\ poll[p].copy \in Statuses
           /\ poll[p].reply \in Statuses
           /\ task[poll[p].job] \in Row
           /\ PollSound(p)
<1>1. poll[p] \in Asked
  BY DEF GenerationsInv, Typed, NoPoll
<1>2. PollSound(p)
  BY DEF GenerationsInv, PollsSound
<1> QED
  BY <1>1, <1>2 DEF GenerationsInv, Typed, Asked, PollSound

(* A status that was true stays true, for a job ends once.                 *)
StageStays(j) == stage[j] \in {"finished", "failed"} => stage'[j] = stage[j]

LEMMA TruthStays ==
    ASSUME NEW status, NEW j, Truthful(status, j), StageStays(j)
    PROVE  Ended(status) => stage'[j] = Means(status)
  BY DEF Truthful, StageStays, Ended, Means

(* Steps that leave calls, polls and rows alone and at most let jobs begin *)
(* or end.                                                                 *)
LEMMA StagesPreserve ==
    ASSUME GenerationsInv,
           channels' \subseteq Channels,
           stage' \in [Jobs -> {"none", "working", "finished", "failed"}],
           \A j \in Jobs : StageStays(j) /\ (stage'[j] = "none" <=> stage[j] = "none"),
           UNCHANGED <<call, task, poll, charged, fate>>
    PROVE  GenerationsInv'
<1>1. Typed'
  BY DEF GenerationsInv, Typed
<1>2. ASSUME NEW r \in Calls, call'[r].pc # "idle"
      PROVE  CallSound(r)'
  <2>1. CallSound(r) /\ call[r].job \in Jobs
    BY <1>2, RunningCall
  <2>2. Ended(call[r].status) => stage'[call[r].job] = Means(call[r].status)
    BY <2>1, TruthStays DEF CallSound
  <2> QED
    BY <2>1, <2>2 DEF CallSound, Truthful
<1>3. JobsSound'
  BY DEF GenerationsInv, JobsSound
<1>4. ASSUME NEW p \in Polls, poll'[p].pc # "idle"
      PROVE  PollSound(p)'
  <2>1. PollSound(p) /\ poll[p].job \in Jobs
    BY <1>4, RunningPoll
  <2>2. /\ Ended(poll[p].copy) => stage'[poll[p].job] = Means(poll[p].copy)
        /\ Ended(poll[p].reply) => stage'[poll[p].job] = Means(poll[p].reply)
    BY <2>1, TruthStays DEF PollSound
  <2> QED
    BY <2>1, <2>2 DEF PollSound, Truthful
<1>5. RowsTrue'
  <2>1. ASSUME NEW j \in Jobs, task[j] # None
        PROVE  Ended(task[j].status) => stage'[j] = Means(task[j].status)
    BY <2>1, TruthStays DEF GenerationsInv, RowsTrue
  <2> QED
    BY <2>1 DEF RowsTrue, Truthful
<1>6. GenerationsArePaid'
  BY DEF GenerationsInv, GenerationsArePaid
<1> QED
  BY <1>1, <1>2, <1>3, <1>4, <1>5, <1>6 DEF GenerationsInv, CallsSound, PollsSound

-----------------------------------------------------------------------------
(* Making a generation.                                                    *)

LEMMA GeneratePreserves ==
    ASSUME GenerationsInv, NEW r \in Calls, NEW u \in Users, NEW e \in Endpoints,
           NEW c \in Channels, NEW j \in Jobs, NEW at \in {"working", "finished", "failed"},
           NEW heard \in Heard[at], Generate(r, u, e, c, j, at, heard)
    PROVE  GenerationsInv'
<1> DEFINE q == [pc |-> "answered", user |-> u, endpoint |-> e, channel |-> c, job |-> j,
                 id |-> heard.id, status |-> heard.status, cost |-> 0]
<1>1. /\ call[r] = NoCall /\ stage[j] = "none"
      /\ stage' = [stage EXCEPT ![j] = at]
      /\ call' = [call EXCEPT ![r] = q]
      /\ UNCHANGED <<channels, task, poll, charged, fate>>
  BY DEF Generate, Called
<1>2. /\ heard.id \in {"", "job"}
      /\ heard.status \in Statuses \cup {""}
      /\ Ended(heard.status) => Means(heard.status) = at
  BY HeardIsTrue, ReadStatus
<1>3. /\ q \in Working
      /\ q.pc = "answered" /\ q.job = j /\ q.status = heard.status
  BY <1>2 DEF Working
<1> HIDE DEF q
<1>4. Typed'
  BY <1>1, <1>3 DEF GenerationsInv, Typed
<1>5. /\ task[j] = None /\ charged[j] = <<>> /\ fate[j] = "none"
      /\ stage'[j] = at /\ \A i \in Jobs \ {j} : stage'[i] = stage[i]
  BY <1>1 DEF GenerationsInv, JobsSound, Typed
<1>6. \A o \in Calls : call[o].pc # "idle" => call[o].job # j
  <2>1. ASSUME NEW o \in Calls, call[o].pc # "idle", call[o].job = j
        PROVE  FALSE
    BY <1>1, <2>1, RunningCall DEF CallSound
  <2> QED
    BY <2>1
<1>7. call'[r] = q /\ \A o \in Calls \ {r} : call'[o] = call[o]
  BY <1>1 DEF GenerationsInv, Typed
<1>8. ASSUME NEW o \in Calls, call'[o].pc # "idle"
      PROVE  CallSound(o)'
  <2>1. CASE o = r
    <3>1. call'[o] = q /\ q.job = j /\ q.pc = "answered" /\ q.status = heard.status
      BY <1>3, <1>7, <2>1
    <3>2. Ended(heard.status) => stage'[j] = Means(heard.status)
      BY <1>2, <1>5
    <3>3. \A i \in Calls : call'[i].pc # "idle" /\ call'[i].job = j => i = o
      BY <1>6, <1>7, <2>1
    <3>4. stage'[j] # "none" /\ task'[j] = None /\ fate'[j] = "none" /\ charged'[j] = <<>>
      BY <1>1, <1>5
    <3> QED
      BY <3>1, <3>2, <3>3, <3>4 DEF CallSound, Truthful
  <2>2. CASE o # r
    <3>1. CallSound(o) /\ call[o].job \in Jobs \ {j} /\ call'[o] = call[o]
      BY <1>6, <1>7, <1>8, <2>2, RunningCall
    <3>2. stage'[call[o].job] = stage[call[o].job]
      BY <1>5, <3>1
    <3> QED
      BY <1>1, <1>3, <1>7, <3>1, <3>2 DEF CallSound, Truthful
  <2> QED
    BY <2>1, <2>2
<1>9. JobsSound'
  BY <1>1, <1>5 DEF GenerationsInv, JobsSound
<1>10. ASSUME NEW p \in Polls, poll'[p].pc # "idle"
       PROVE  PollSound(p)'
  <2>1. PollSound(p) /\ poll[p].job \in Jobs \ {j} /\ poll'[p] = poll[p]
    BY <1>1, <1>5, <1>10, RunningPoll DEF PollSound
  <2>2. stage'[poll[p].job] = stage[poll[p].job]
    BY <1>5, <2>1
  <2> QED
    BY <1>1, <2>1, <2>2 DEF PollSound, Truthful
<1>11. RowsTrue'
  BY <1>1, <1>5 DEF GenerationsInv, RowsTrue, Truthful
<1>12. GenerationsArePaid'
  <2>1. \A o \in Calls : call[o].pc = "charged" => call'[o] = call[o]
    BY <1>1, <1>7 DEF NoCall
  <2> QED
    BY <1>1, <1>5, <2>1 DEF GenerationsInv, GenerationsArePaid
<1> QED
  BY <1>4, <1>8, <1>9, <1>10, <1>11, <1>12 DEF GenerationsInv, CallsSound, PollsSound

(* The call ends: what was charged for its job is what its caller is given.*)
LEMMA ConcludePreserves ==
    ASSUME GenerationsInv, NEW r \in Calls, NEW f \in {"refused", "lost", "delivered"},
           call[r].pc = IF f = "refused" THEN "answered" ELSE "charged",
           Conclude(r, f), UNCHANGED <<channels, task, poll, stage, charged>>
    PROVE  GenerationsInv'
<1> DEFINE j == call[r].job
<1>1. /\ call[r].pc # "idle" /\ j \in Jobs /\ CallSound(r)
      /\ task[j] = None /\ stage[j] # "none" /\ fate[j] = "none"
  BY RunningCall DEF CallSound
<1>2. /\ fate' = [fate EXCEPT ![j] = f] /\ call' = [call EXCEPT ![r] = NoCall]
      /\ UNCHANGED <<channels, task, poll, stage, charged>>
  BY DEF Conclude, Called
<1>3. /\ fate'[j] = f /\ \A i \in Jobs \ {j} : fate'[i] = fate[i]
      /\ call'[r] = NoCall /\ \A o \in Calls \ {r} : call'[o] = call[o]
  BY <1>1, <1>2 DEF GenerationsInv, Typed
<1>4. \A o \in Calls \ {r} : call[o].pc # "idle" => call[o].job # j
  BY <1>1 DEF CallSound
<1>5. IF f = "refused" THEN charged[j] = <<>> ELSE Len(charged[j]) = 1
  BY <1>1 DEF CallSound
<1> HIDE DEF j
<1>6. Typed'
  BY <1>2 DEF GenerationsInv, Typed
<1>7. ASSUME NEW o \in Calls, call'[o].pc # "idle"
      PROVE  CallSound(o)'
  <2>1. o # r /\ call'[o] = call[o]
    BY <1>3, <1>7 DEF NoCall
  <2>2. CallSound(o) /\ call[o].job \in Jobs \ {j}
    BY <1>4, <1>7, <2>1, RunningCall
  <2>3. \A i \in Calls : call'[i].pc # "idle" => call'[i] = call[i]
    BY <1>3 DEF NoCall
  <2> QED
    BY <1>2, <1>3, <2>1, <2>2, <2>3 DEF CallSound, Truthful
<1>8. JobsSound'
  BY <1>1, <1>2, <1>3 DEF GenerationsInv, JobsSound
<1>9. PollsSound' /\ RowsTrue'
  BY <1>2 DEF GenerationsInv, PollsSound, PollSound, RowsTrue, Truthful
<1>10. GenerationsArePaid'
  <2>1. ASSUME NEW i \in Jobs
        PROVE  /\ task'[i] # None => charged'[i] = <<task'[i].cost>>
               /\ fate'[i] = "delivered" => Len(charged'[i]) = 1
               /\ fate'[i] = "refused" => charged'[i] = <<>>
               /\ charged'[i] # <<>> =>
                    \/ task'[i] # None \/ fate'[i] \in {"delivered", "lost"}
                    \/ \E o \in Calls : call'[o].pc = "charged" /\ call'[o].job = i
    <3>1. CASE i = j
      BY <1>1, <1>2, <1>3, <1>5, <3>1
    <3>2. CASE i # j
      <4>1. fate'[i] = fate[i] /\ charged'[i] = charged[i] /\ task'[i] = task[i]
        BY <1>2, <1>3, <3>2
      <4>2. \A o \in Calls : call[o].job = i => call'[o] = call[o]
        BY <1>3, <3>2 DEF j
      <4> QED
        BY <4>1, <4>2 DEF GenerationsInv, GenerationsArePaid
    <3> QED
      BY <3>1, <3>2
  <2> QED
    BY <2>1 DEF GenerationsArePaid
<1> QED
  BY <1>6, <1>7, <1>8, <1>9, <1>10 DEF GenerationsInv, CallsSound

(* The charge is the only one the job will ever have.                      *)
LEMMA ChargePreserves ==
    ASSUME GenerationsInv, NEW r \in Calls, NEW cost \in Costs, Charge(r, cost)
    PROVE  GenerationsInv'
<1> DEFINE j == call[r].job
           q == [call[r] EXCEPT !.pc = "charged", !.cost = cost]
<1>1. /\ call[r].pc = "answered" /\ call[r] \in Working /\ j \in Jobs /\ CallSound(r)
      /\ charged[j] = <<>> /\ task[j] = None /\ stage[j] # "none" /\ fate[j] = "none"
  <2>1. call[r].pc = "answered"
    BY DEF Charge
  <2> QED
    BY <2>1, RunningCall DEF CallSound
<1>2. /\ charged' = [charged EXCEPT ![j] = Append(@, cost)]
      /\ call' = [call EXCEPT ![r] = q]
      /\ UNCHANGED <<channels, task, poll, stage, fate>>
  BY DEF Charge, Charges, Called
<1>3. q \in Working
  BY <1>1 DEF Working
<1>4. q.pc = "charged" /\ q.cost = cost /\ q.job = j /\ q.status = call[r].status
  BY <1>1 DEF Working
<1>5. /\ charged'[j] = <<cost>> /\ \A i \in Jobs \ {j} : charged'[i] = charged[i]
      /\ call'[r] = q /\ \A o \in Calls \ {r} : call'[o] = call[o]
  <2>1. Append(<<>>, cost) = <<cost>>
    OBVIOUS
  <2>2. /\ charged'[j] = Append(charged[j], cost)
        /\ \A i \in Jobs \ {j} : charged'[i] = charged[i]
    <3> HIDE DEF j
    <3> QED
      BY <1>1, <1>2 DEF GenerationsInv, Typed
  <2>3. call'[r] = q /\ \A o \in Calls \ {r} : call'[o] = call[o]
    <3> HIDE DEF q
    <3> QED
      BY <1>2 DEF GenerationsInv, Typed
  <2> QED
    BY <1>1, <2>1, <2>2, <2>3
<1>6. \A o \in Calls \ {r} : call[o].pc # "idle" => call[o].job # j
  BY <1>1 DEF CallSound
<1>7. Truthful(call[r].status, j)
  BY <1>1 DEF CallSound
<1> HIDE DEF q
<1>8. Typed'
  <2>1. charged' \in [Jobs -> Seq(Costs)]
    <3>1. \A i \in Jobs : charged'[i] \in Seq(Costs)
      <4>1. <<cost>> \in Seq(Costs)
        OBVIOUS
      <4> HIDE DEF j
      <4> QED
        BY <1>5, <4>1 DEF GenerationsInv, Typed
    <3>2. charged' = [i \in Jobs |-> charged'[i]]
      <4> HIDE DEF j
      <4> QED
        BY <1>2 DEF GenerationsInv, Typed
    <3> QED
      BY <3>1, <3>2
  <2> QED
    BY <1>2, <1>3, <2>1 DEF GenerationsInv, Typed
<1>9. ASSUME NEW o \in Calls, call'[o].pc # "idle"
      PROVE  CallSound(o)'
  <2>1. CASE o = r
    <3>1. \A i \in Calls : call'[i].pc # "idle" /\ call'[i].job = j => i = o
      BY <1>5, <1>6, <2>1
    <3> HIDE DEF j
    <3> QED
      BY <1>1, <1>2, <1>4, <1>5, <1>7, <2>1, <3>1 DEF CallSound, Truthful
  <2>2. CASE o # r
    <3>1. CallSound(o) /\ call[o].job \in Jobs \ {j} /\ call'[o] = call[o]
      BY <1>5, <1>6, <1>9, <2>2, RunningCall
    <3>2. \A i \in Calls : call'[i].pc # "idle" /\ call'[i].job = call[o].job => i = o
      <4>1. \A i \in Calls : call[i].pc # "idle" /\ call[i].job = call[o].job => i = o
        BY <3>1 DEF CallSound
      <4> HIDE DEF j
      <4> QED
        BY <1>4, <1>5, <3>1, <4>1
    <3>3. charged'[call[o].job] = charged[call[o].job]
      BY <1>5, <3>1
    <3> QED
      BY <1>2, <3>1, <3>2, <3>3 DEF CallSound, Truthful
  <2> QED
    BY <2>1, <2>2
<1> HIDE DEF j
<1>10. JobsSound'
  BY <1>1, <1>2, <1>5 DEF GenerationsInv, JobsSound
<1>11. PollsSound' /\ RowsTrue'
  BY <1>2 DEF GenerationsInv, PollsSound, PollSound, RowsTrue, Truthful
<1>12. GenerationsArePaid'
  <2>1. ASSUME NEW i \in Jobs
        PROVE  /\ task'[i] # None => charged'[i] = <<task'[i].cost>>
               /\ fate'[i] = "delivered" => Len(charged'[i]) = 1
               /\ fate'[i] = "refused" => charged'[i] = <<>>
               /\ charged'[i] # <<>> =>
                    \/ task'[i] # None \/ fate'[i] \in {"delivered", "lost"}
                    \/ \E o \in Calls : call'[o].pc = "charged" /\ call'[o].job = i
    <3>1. CASE i = j
      BY <1>1, <1>2, <1>4, <1>5, <3>1
    <3>2. CASE i # j
      <4>1. fate'[i] = fate[i] /\ charged'[i] = charged[i] /\ task'[i] = task[i]
        BY <1>2, <1>5, <3>2
      <4>2. \A o \in Calls : call[o].job = i => call'[o] = call[o]
        BY <1>5, <3>2 DEF j
      <4> QED
        BY <4>1, <4>2 DEF GenerationsInv, GenerationsArePaid
    <3> QED
      BY <3>1, <3>2
  <2> QED
    BY <2>1 DEF GenerationsArePaid
<1> QED
  BY <1>8, <1>9, <1>10, <1>11, <1>12 DEF GenerationsInv, CallsSound

LEMMA MadeRow ==
    ASSUME NEW u \in Users, NEW c \in Channels, NEW polled \in BOOLEAN,
           NEW status \in Statuses, NEW cost \in Costs
    PROVE  LET row == [owner |-> u, channel |-> c, polled |-> polled,
                       status |-> status, cost |-> cost]
           IN  row \in Row /\ row.cost = cost /\ row.status = status
  BY DEF Row

(* The row shows what was charged, and a status that is true.              *)
LEMMA CreatePreserves ==
    ASSUME GenerationsInv, NEW r \in Calls, createCompatibleTask(r)
    PROVE  GenerationsInv'
<1> DEFINE q == call[r]
           j == call[r].job
           new == IF Handler[q.endpoint].keeps = "always" THEN VideoRow(q) ELSE CompatibleRow(q)
<1>1. /\ q.pc = "charged" /\ q \in Working /\ j \in Jobs /\ CallSound(r)
      /\ charged[j] = <<q.cost>> /\ q.cost \in Costs
      /\ task[j] = None /\ stage[j] # "none" /\ fate[j] = "none"
      /\ q.user \in Users /\ q.channel \in Channels /\ q.status \in Statuses \cup {""}
  <2>1. call[r].pc = "charged"
    BY DEF createCompatibleTask
  <2> QED
    BY <2>1, RunningCall DEF CallSound
<1>2. /\ task' = [task EXCEPT ![j] = new]
      /\ fate' = [fate EXCEPT ![j] = "task"] /\ call' = [call EXCEPT ![r] = NoCall]
      /\ UNCHANGED <<channels, poll, stage, charged>>
  BY DEF createCompatibleTask, Conclude, Called
<1>3. new \in Row /\ new.cost = q.cost /\ (Ended(new.status) => stage[j] = Means(new.status))
  <2> DEFINE spelled == normalizeCompatibleTaskStatus(q.status)
             plain == IF q.status = "" THEN "queued" ELSE q.status
             other == IF spelled = "" THEN "pending" ELSE spelled
  <2>1. Ended(q.status) => stage[j] = Means(q.status)
    BY <1>1 DEF CallSound, Truthful
  <2>2. Means(spelled) = Means(q.status)
    BY SpellingKeepsMeaning
  <2>3. plain \in Statuses /\ (Ended(plain) => stage[j] = Means(plain))
    <3>1. "queued" \in Statuses
      BY DEF Statuses
    <3> QED
      BY <1>1, <2>1, <3>1, NothingSaid
  <2>4. other \in Statuses /\ (Ended(other) => stage[j] = Means(other))
    <3>1. "pending" \in Statuses
      BY DEF Statuses
    <3>2. q.status \in Statuses => spelled \in Statuses
      BY SpelledStatus
    <3>3. Ended(spelled) => stage[j] = Means(spelled)
      BY <2>1, <2>2 DEF Ended
    <3> HIDE DEF spelled
    <3>4. q.status = "" => spelled = ""
      BY NothingSaid DEF spelled
    <3> QED
      BY <1>1, <3>1, <3>2, <3>3, <3>4, NothingSaid
  <2>5. \/ new = [owner |-> q.user, channel |-> q.channel, polled |-> q.id # "",
                   status |-> plain, cost |-> q.cost]
        \/ new = [owner |-> q.user, channel |-> q.channel, polled |-> TRUE,
                   status |-> other, cost |-> q.cost]
    BY DEF VideoRow, CompatibleRow
  <2> DEFINE polled == q.id # ""
  <2>6. polled \in BOOLEAN
    OBVIOUS
  <2> HIDE DEF new, spelled, plain, other, polled
  <2>7. \/ new = [owner |-> q.user, channel |-> q.channel, polled |-> polled,
                   status |-> plain, cost |-> q.cost]
        \/ new = [owner |-> q.user, channel |-> q.channel, polled |-> TRUE,
                   status |-> other, cost |-> q.cost]
    BY <2>5 DEF polled
  <2>8. q.user \in Users /\ q.channel \in Channels /\ q.cost \in Costs /\ TRUE \in BOOLEAN
    BY <1>1
  <2> HIDE DEF q, j
  <2>9. CASE new = [owner |-> q.user, channel |-> q.channel, polled |-> polled,
                    status |-> plain, cost |-> q.cost]
    <3>1. new \in Row /\ new.cost = q.cost /\ new.status = plain
      BY <2>3, <2>6, <2>8, <2>9, MadeRow
    <3> QED
      BY <2>3, <3>1
  <2>10. CASE new = [owner |-> q.user, channel |-> q.channel, polled |-> TRUE,
                     status |-> other, cost |-> q.cost]
    <3>1. new \in Row /\ new.cost = q.cost /\ new.status = other
      BY <2>4, <2>8, <2>10, MadeRow
    <3> QED
      BY <2>4, <3>1
  <2> QED
    BY <2>7, <2>9, <2>10
<1>4. /\ task'[j] = new /\ fate'[j] = "task"
      /\ \A i \in Jobs \ {j} : task'[i] = task[i] /\ fate'[i] = fate[i]
      /\ call'[r] = NoCall /\ \A o \in Calls \ {r} : call'[o] = call[o]
  <2> HIDE DEF new
  <2> QED
    BY <1>1, <1>2 DEF GenerationsInv, Typed
<1>5. new # None
  BY <1>3, NoneAssumption
<1>6. \A o \in Calls \ {r} : call[o].pc # "idle" => call[o].job # j
  BY <1>1 DEF CallSound
<1>7. \A o \in Calls : call'[o].pc # "idle" => o # r /\ call'[o] = call[o]
  BY <1>4 DEF NoCall
<1> HIDE DEF new, q, j
<1>8. Typed'
  BY <1>2, <1>3 DEF GenerationsInv, Typed
<1>9. ASSUME NEW o \in Calls, call'[o].pc # "idle"
      PROVE  CallSound(o)'
  <2>1. CallSound(o) /\ call[o].job \in Jobs \ {j} /\ call'[o] = call[o]
    BY <1>6, <1>7, <1>9, RunningCall
  <2> QED
    BY <1>2, <1>4, <1>7, <2>1 DEF CallSound, Truthful
<1>10. JobsSound'
  BY <1>1, <1>2, <1>4, <1>5, ZenonT(30) DEF GenerationsInv, JobsSound
<1>11. ASSUME NEW p \in Polls, poll'[p].pc # "idle"
       PROVE  PollSound(p)'
  <2>1. PollSound(p) /\ poll[p].job \in Jobs \ {j} /\ poll'[p] = poll[p]
    BY <1>1, <1>2, <1>11, RunningPoll DEF PollSound
  <2> QED
    BY <1>2, <1>4, <2>1 DEF PollSound, Truthful
<1>12. RowsTrue'
  BY <1>2, <1>3, <1>4 DEF GenerationsInv, RowsTrue, Truthful
<1>13. GenerationsArePaid'
  <2>1. ASSUME NEW i \in Jobs
        PROVE  /\ task'[i] # None => charged'[i] = <<task'[i].cost>>
               /\ fate'[i] = "delivered" => Len(charged'[i]) = 1
               /\ fate'[i] = "refused" => charged'[i] = <<>>
               /\ charged'[i] # <<>> =>
                    \/ task'[i] # None \/ fate'[i] \in {"delivered", "lost"}
                    \/ \E o \in Calls : call'[o].pc = "charged" /\ call'[o].job = i
    <3>1. CASE i = j
      BY <1>1, <1>2, <1>3, <1>4, <1>5, <3>1, ZenonT(30)
    <3>2. CASE i # j
      <4>1. fate'[i] = fate[i] /\ charged'[i] = charged[i] /\ task'[i] = task[i]
        BY <1>2, <1>4, <3>2
      <4>2. \A o \in Calls : call[o].job = i => call'[o] = call[o]
        BY <1>4, <3>2 DEF j
      <4> QED
        BY <4>1, <4>2 DEF GenerationsInv, GenerationsArePaid
    <3> QED
      BY <3>1, <3>2
  <2> QED
    BY <2>1 DEF GenerationsArePaid
<1> QED
  BY <1>8, <1>9, <1>10, <1>11, <1>12, <1>13 DEF GenerationsInv, CallsSound, PollsSound

-----------------------------------------------------------------------------
(* Asking for a status.                                                    *)

(* Steps of one poll that leave everything else alone.                     *)
LEMMA PollPreserves ==
    ASSUME GenerationsInv, NEW p \in Polls, NEW q \in {NoPoll} \cup Asked, Polled(p, q),
           UNCHANGED <<channels, call, task, stage, charged, fate>>,
           q.pc # "idle" =>
             /\ task[q.job] # None /\ task[q.job].owner = q.user
             /\ Truthful(q.copy, q.job) /\ Truthful(q.reply, q.job)
             /\ q.pc \in {"asking", "answered"} => ~Ended(q.copy)
    PROVE  GenerationsInv'
<1>1. poll' = [poll EXCEPT ![p] = q]
  BY DEF Polled
<1>2. Typed'
  BY <1>1 DEF GenerationsInv, Typed
<1>3. CallsSound' /\ JobsSound' /\ RowsTrue' /\ GenerationsArePaid'
  BY DEF GenerationsInv, CallsSound, CallSound, JobsSound, RowsTrue, Truthful, GenerationsArePaid
<1>4. poll'[p] = q /\ \A o \in Polls \ {p} : poll'[o] = poll[o]
  BY <1>1 DEF GenerationsInv, Typed
<1>5. PollsSound'
  BY <1>4 DEF GenerationsInv, PollsSound, PollSound, Truthful
<1> QED
  BY <1>2, <1>3, <1>5 DEF GenerationsInv

LEMMA AskPreserves ==
    ASSUME GenerationsInv, NEW p \in Polls, NEW u \in Users, NEW j \in Jobs,
           NEW api \in {"video", "compatible"}, Ask(p, u, j, api)
    PROVE  GenerationsInv'
<1> DEFINE asks == task[j].polled /\ ~Terminal(api, task[j].status)
           step == IF asks THEN "asking" ELSE "told"
           status == task[j].status
           q == [pc |-> step, user |-> u, job |-> j, api |-> api,
                 copy |-> status, reply |-> status]
<1>1. /\ task[j] # None /\ task[j].owner = u /\ Polled(p, q)
      /\ UNCHANGED <<channels, call, task, stage, charged, fate>>
  BY DEF Ask, Found
<1>2. status \in Statuses /\ Truthful(status, j)
  <2>1. task[j] \in Row
    BY <1>1 DEF GenerationsInv, Typed
  <2> QED
    BY <1>1, <2>1 DEF GenerationsInv, RowsTrue, Row
<1>3. step \in {"asking", "told"} /\ (step = "asking" => ~Ended(status))
  <2>1. asks => ~Ended(status)
    BY <1>2, EndingsAreTerminal
  <2> QED
    BY <2>1
<1> HIDE DEF asks, step, status
<1>4. q \in Asked
  BY <1>2, <1>3 DEF Asked
<1>5. q.pc = step /\ q.user = u /\ q.job = j /\ q.copy = status /\ q.reply = status
  OBVIOUS
<1> HIDE DEF q
<1> QED
  BY <1>1, <1>2, <1>3, <1>4, <1>5, PollPreserves

LEMMA FetchPreserves ==
    ASSUME GenerationsInv, NEW p \in Polls, NEW j \in Jobs, stage[j] # "none",
           NEW heard \in Heard[stage[j]], Fetch(p, j, heard)
    PROVE  GenerationsInv'
<1> DEFINE reply == Answer(poll[p], heard)
           q == [poll[p] EXCEPT !.pc = "answered", !.reply = reply]
           spelled == Spelled(poll[p].api, heard.status)
<1>1. /\ poll[p].pc = "asking" /\ poll[p].job = j /\ Polled(p, q)
      /\ UNCHANGED <<channels, call, task, stage, charged, fate>>
  BY DEF Fetch
<1>2. poll[p] \in Asked /\ PollSound(p) /\ poll[p].copy \in Statuses
  BY <1>1, RunningPoll
<1>3. reply \in Statuses /\ Truthful(reply, j)
  <2>1. stage[j] \in {"working", "finished", "failed"}
    BY DEF GenerationsInv, Typed
  <2>2. /\ heard.status \in {normalizeVideoTaskStatus(w) : w \in Words} \cup {"", "succeeded"}
        /\ Ended(heard.status) => Means(heard.status) = stage[j]
    BY <2>1, HeardIsTrue
  <2>3. spelled = "" \/ spelled \in Statuses
    BY <2>2, ReadStatus, SpelledStatus, NothingSaid
  <2>4. Means(spelled) = Means(heard.status)
    BY SpellingKeepsMeaning
  <2>5. reply = IF spelled = "" THEN poll[p].copy ELSE spelled
    BY DEF Answer
  <2>6. Truthful(spelled, j)
    BY <2>2, <2>4 DEF Truthful, Ended
  <2>7. Truthful(poll[p].copy, j)
    BY <1>1, <1>2 DEF PollSound
  <2> HIDE DEF reply, spelled
  <2> QED
    BY <1>2, <2>3, <2>5, <2>6, <2>7
<1> HIDE DEF reply
<1>4. q \in Asked
  BY <1>2, <1>3 DEF Asked
<1>5. /\ q.pc = "answered" /\ q.user = poll[p].user /\ q.job = j
      /\ q.copy = poll[p].copy /\ q.reply = reply
  BY <1>1, <1>2 DEF Asked
<1> HIDE DEF q
<1>6. /\ task[j] # None /\ task[j].owner = poll[p].user
      /\ Truthful(poll[p].copy, j) /\ ~Ended(poll[p].copy)
  BY <1>1, <1>2 DEF PollSound
<1> QED
  BY <1>1, <1>3, <1>4, <1>5, <1>6, PollPreserves

LEMMA PollEndsPreserves ==
    ASSUME GenerationsInv, NEW p \in Polls, FetchFails(p) \/ WriteFails(p)
    PROVE  GenerationsInv'
<1>1. CASE FetchFails(p)
  <2>1. NoPoll.pc = "idle"
    BY DEF NoPoll
  <2> QED
    BY <1>1, <2>1, PollPreserves DEF FetchFails
<1>2. CASE WriteFails(p)
  <2> DEFINE q == [poll[p] EXCEPT !.pc = "told", !.reply = poll[p].copy]
  <2>1. poll[p] \in Asked /\ PollSound(p) /\ poll[p].copy \in Statuses
    BY <1>2, RunningPoll DEF WriteFails
  <2>2. q \in Asked
    BY <2>1 DEF Asked
  <2>3. /\ q.pc = "told" /\ q.user = poll[p].user /\ q.job = poll[p].job
        /\ q.copy = poll[p].copy /\ q.reply = poll[p].copy
    BY <2>1 DEF Asked
  <2>4. Polled(p, q) /\ UNCHANGED <<channels, call, task, stage, charged, fate>>
    BY <1>2 DEF WriteFails
  <2> HIDE DEF q
  <2> QED
    BY <2>1, <2>2, <2>3, <2>4, PollPreserves DEF PollSound
<1> QED
  BY <1>1, <1>2

(* Whatever other polls have written in the meantime, what this one writes *)
(* is as true as when it was heard.                                        *)
LEMMA WriteStatusPreserves ==
    ASSUME GenerationsInv, NEW p \in Polls, NEW j \in Jobs, WriteStatus(p, j)
    PROVE  GenerationsInv'
<1> DEFINE reply == poll[p].reply
           q == [poll[p] EXCEPT !.pc = "told"]
           new == [task[j] EXCEPT !.status = reply]
<1>1. /\ poll[p].pc = "answered" /\ poll[p].job = j
      /\ task' = [task EXCEPT ![j].status = reply] /\ poll' = [poll EXCEPT ![p] = q]
      /\ UNCHANGED <<channels, call, stage, charged, fate>>
  BY DEF WriteStatus, Polled
<1>2. /\ poll[p] \in Asked /\ PollSound(p) /\ reply \in Statuses
      /\ task[j] \in Row /\ task[j] # None /\ task[j].owner = poll[p].user
      /\ Truthful(reply, j)
  BY <1>1, RunningPoll DEF PollSound
<1>3. task' = [task EXCEPT ![j] = new]
  BY <1>1
<1>4. q \in Asked
  BY <1>2 DEF Asked
<1>5. /\ q.pc = "told" /\ q.user = poll[p].user /\ q.job = j
      /\ q.copy = poll[p].copy /\ q.reply = reply
  BY <1>1, <1>2 DEF Asked
<1> HIDE DEF q, reply
<1>6. new \in Row
  BY <1>2 DEF Row
<1>7. new.owner = task[j].owner /\ new.cost = task[j].cost /\ new.status = reply
  BY <1>2 DEF Row
<1>8. new # None
  BY <1>6, NoneAssumption
<1> HIDE DEF new
<1>9. task'[j] = new /\ \A i \in Jobs \ {j} : task'[i] = task[i]
  BY <1>3 DEF GenerationsInv, Typed
<1>10. \A i \in Jobs : /\ task'[i] # None <=> task[i] # None
                       /\ task'[i] # None => task'[i].owner = task[i].owner /\ task'[i].cost = task[i].cost
  BY <1>2, <1>7, <1>8, <1>9
<1>11. Typed'
  <2>1. task' \in [Jobs -> Row \cup {None}]
    BY <1>3, <1>6 DEF GenerationsInv, Typed
  <2>2. poll' \in [Polls -> {NoPoll} \cup Asked]
    BY <1>1, <1>4 DEF GenerationsInv, Typed
  <2> QED
    BY <1>1, <2>1, <2>2 DEF GenerationsInv, Typed
<1>12. ASSUME NEW r \in Calls, call'[r].pc # "idle"
       PROVE  CallSound(r)'
  <2>1. CallSound(r) /\ call[r].job \in Jobs \ {j}
    BY <1>1, <1>2, <1>12, RunningCall DEF CallSound
  <2> QED
    BY <1>1, <1>9, <2>1 DEF CallSound, Truthful
<1>13. JobsSound'
  <2>1. \A i \in Jobs : stage[i] = "none" => task'[i] = None
    BY <1>2, <1>9 DEF GenerationsInv, JobsSound
  <2> QED
    BY <1>1, <1>10, <2>1 DEF GenerationsInv, JobsSound
<1>14. ASSUME NEW o \in Polls, poll'[o].pc # "idle"
       PROVE  PollSound(o)'
  <2>1. CASE o = p
    <3>1. poll'[o] = q
      BY <1>1, <2>1 DEF GenerationsInv, Typed
    <3>2. Truthful(poll[p].copy, j)
      BY <1>1, <1>2 DEF PollSound
    <3> QED
      BY <1>1, <1>2, <1>5, <1>8, <1>9, <1>7, <3>1, <3>2 DEF PollSound, Truthful
  <2>2. CASE o # p
    <3>1. poll'[o] = poll[o]
      BY <1>1, <2>2 DEF GenerationsInv, Typed
    <3>2. PollSound(o) /\ poll[o].job \in Jobs
      BY <1>14, <3>1, RunningPoll
    <3> QED
      BY <1>1, <1>10, <3>1, <3>2 DEF PollSound, Truthful
  <2> QED
    BY <2>1, <2>2
<1>15. RowsTrue'
  BY <1>1, <1>2, <1>7, <1>9 DEF GenerationsInv, RowsTrue, Truthful
<1>16. GenerationsArePaid'
  BY <1>1, <1>10 DEF GenerationsInv, GenerationsArePaid
<1> QED
  BY <1>11, <1>12, <1>13, <1>14, <1>15, <1>16 DEF GenerationsInv, CallsSound, PollsSound

-----------------------------------------------------------------------------
(* The theorems.                                                           *)

LEMMA GenerationsInitial == GenerationsInit => GenerationsInv
<1> SUFFICES ASSUME GenerationsInit
             PROVE  GenerationsInv
  OBVIOUS
<1>1. NoCall.pc = "idle" /\ NoPoll.pc = "idle"
  BY DEF NoCall, NoPoll
<1>2. Typed
  <2>1. <<>> \in Seq(Costs)
    OBVIOUS
  <2> QED
    BY <2>1 DEF GenerationsInit, Typed
<1> QED
  BY <1>1, <1>2 DEF GenerationsInit, GenerationsInv, CallsSound, JobsSound, PollsSound,
                    RowsTrue, GenerationsArePaid

LEMMA MakingPreserves ==
    ASSUME GenerationsInv, NEW r \in Calls, Making(r)
    PROVE  GenerationsInv'
<1>1. ASSUME NEW u \in Users, NEW e \in Endpoints, NEW c \in Channels, NEW j \in Jobs,
             NEW at \in {"working", "finished", "failed"}, NEW heard \in Heard[at],
             Generate(r, u, e, c, j, at, heard)
      PROVE  GenerationsInv'
  BY <1>1, GeneratePreserves
<1>2. CASE Withhold(r) \/ ChargeFails(r)
  <2>1. /\ call[r].pc = "answered" /\ Conclude(r, "refused")
        /\ UNCHANGED <<channels, task, poll, stage, charged>>
    BY <1>2 DEF Withhold, ChargeFails
  <2> QED
    BY <2>1, ConcludePreserves
<1>3. ASSUME NEW cost \in Costs, Charge(r, cost)
      PROVE  GenerationsInv'
  BY <1>3, ChargePreserves
<1>4. CASE createCompatibleTask(r)
  BY <1>4, CreatePreserves
<1>5. CASE CreateFails(r)
  <2>1. /\ call[r].pc = "charged" /\ Conclude(r, "lost")
        /\ UNCHANGED <<channels, task, poll, stage, charged>>
    BY <1>5 DEF CreateFails
  <2> QED
    BY <2>1, ConcludePreserves
<1>6. CASE writeUpstreamResponse(r)
  <2>1. /\ call[r].pc = "charged" /\ Conclude(r, "delivered")
        /\ UNCHANGED <<channels, task, poll, stage, charged>>
    BY <1>6 DEF writeUpstreamResponse
  <2> QED
    BY <2>1, ConcludePreserves
<1> QED
  BY <1>1, <1>2, <1>3, <1>4, <1>5, <1>6 DEF Making

LEMMA GenerationsStep == GenerationsInv /\ [GenerationsNext]_generationVars => GenerationsInv'
<1> SUFFICES ASSUME GenerationsInv, [GenerationsNext]_generationVars
             PROVE  GenerationsInv'
  OBVIOUS
<1>1. ASSUME NEW r \in Calls, Making(r)
      PROVE  GenerationsInv'
  BY <1>1, MakingPreserves
<1>2. ASSUME NEW p \in Polls, Asking(p)
      PROVE  GenerationsInv'
  BY <1>2, AskPreserves DEF Asking
<1>3. ASSUME NEW p \in Polls, Answering(p)
      PROVE  GenerationsInv'
  BY <1>3, FetchPreserves, PollEndsPreserves, WriteStatusPreserves DEF Answering
<1>4. ASSUME NEW j \in Jobs, NEW at \in {"finished", "failed"}, JobEnds(j, at)
      PROVE  GenerationsInv'
  BY <1>4, StagesPreserve DEF JobEnds, StageStays, GenerationsInv, Typed
<1>5. ASSUME NEW c \in Channels, DeleteChannel(c)
      PROVE  GenerationsInv'
  BY <1>5, StagesPreserve DEF DeleteChannel, StageStays, GenerationsInv, Typed
<1>6. CASE UNCHANGED generationVars
  BY <1>6, StagesPreserve DEF generationVars, StageStays, GenerationsInv, Typed
<1> QED
  BY <1>1, <1>2, <1>3, <1>4, <1>5, <1>6 DEF GenerationsNext

LEMMA GenerationsInvariance == GenerationsSpec => []GenerationsInv
  BY GenerationsInitial, GenerationsStep, PTL DEF GenerationsSpec

(* Tables, calls and polls hold what they are meant to hold.               *)
THEOREM GenerationsTyped == GenerationsSpec => []GenerationsTypeOK
<1>1. GenerationsInv => GenerationsTypeOK
  BY TypesHold DEF GenerationsInv
<1> QED
  BY <1>1, GenerationsInvariance, PTL

(* However calls of any number of users end, refused, delivered, as a task *)
(* or lost, what was charged for a job is what its row shows or its caller *)
(* got, once; a charge without either is one whose row was not created.    *)
THEOREM PaidOnce == GenerationsSpec => []GenerationsArePaid
<1>1. GenerationsInv => GenerationsArePaid
  BY DEF GenerationsInv
<1> QED
  BY <1>1, GenerationsInvariance, PTL

(* However polls of both families of endpoints overtake one another, a row *)
(* or a reply that says its job is over says so truly.                     *)
THEOREM EndingsTrue == GenerationsSpec => []EndingsAreTrue
<1>1. GenerationsInv => EndingsAreTrue
  <2> SUFFICES ASSUME GenerationsInv
               PROVE  EndingsAreTrue
    OBVIOUS
  <2>1. \A p \in Polls : poll[p].pc = "told" => PollSound(p)
    BY RunningPoll
  <2> QED
    BY <2>1 DEF GenerationsInv, EndingsAreTrue, RowsTrue, PollSound
<1> QED
  BY <1>1, GenerationsInvariance, PTL

(* A settled row changes only through a poll that read it before it was    *)
(* settled: no other step of the system touches it.                        *)
THEOREM SettledLate == GenerationsSpec => SettledRowsChangeLate
<1>1. GenerationsInv /\ [GenerationsNext]_generationVars => SettledChangesLate
  <2> SUFFICES ASSUME GenerationsInv, [GenerationsNext]_generationVars, NEW j \in Jobs,
                      task[j] # None, task'[j].status # task[j].status
               PROVE  \E p \in Polls : /\ poll[p].pc = "answered" /\ poll[p].job = j
                                       /\ ~Ended(poll[p].copy)
    BY DEF SettledChangesLate
  <2>1. ASSUME NEW r \in Calls, createCompatibleTask(r)
        PROVE  FALSE
    <3>1. task[call[r].job] = None
      BY <2>1, RunningCall DEF createCompatibleTask, CallSound
    <3>2. task'[j] = task[j]
      BY <2>1, <3>1 DEF createCompatibleTask, GenerationsInv, Typed
    <3> QED
      BY <3>2
  <2>2. ASSUME NEW p \in Polls, NEW i \in Jobs, WriteStatus(p, i)
        PROVE  \E o \in Polls : /\ poll[o].pc = "answered" /\ poll[o].job = j
                                /\ ~Ended(poll[o].copy)
    <3>1. poll[p].pc = "answered" /\ poll[p].job = i
      BY <2>2 DEF WriteStatus
    <3>2. i = j
      BY <2>2 DEF WriteStatus, GenerationsInv, Typed
    <3>3. ~Ended(poll[p].copy)
      BY <3>1, RunningPoll DEF PollSound
    <3> QED
      BY <3>1, <3>2, <3>3
  <2>3. CASE task' = task
    BY <2>3
  <2>4. ASSUME NEW r \in Calls, Making(r)
        PROVE  createCompatibleTask(r) \/ task' = task
    BY <2>4, ZenonT(30) DEF Making, Generate, Withhold, Charge, ChargeFails, CreateFails,
                writeUpstreamResponse
  <2>5. ASSUME NEW p \in Polls, Asking(p) \/ Answering(p)
        PROVE  (\E i \in Jobs : WriteStatus(p, i)) \/ task' = task
    BY <2>5 DEF Asking, Answering, Ask, Fetch, FetchFails, WriteFails
  <2>6. ASSUME NEW i \in Jobs, NEW at, JobEnds(i, at)
        PROVE  task' = task
    BY <2>6 DEF JobEnds
  <2>7. ASSUME NEW c \in Channels, DeleteChannel(c)
        PROVE  task' = task
    BY <2>7 DEF DeleteChannel
  <2>8. CASE UNCHANGED generationVars
    BY <2>8 DEF generationVars
  <2> QED
    BY <2>1, <2>2, <2>3, <2>4, <2>5, <2>6, <2>7, <2>8 DEF GenerationsNext
<1> QED
  BY <1>1, GenerationsInvariance, PTL DEF GenerationsSpec, SettledRowsChangeLate
=============================================================================
