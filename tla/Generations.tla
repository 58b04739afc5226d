----------------------------- MODULE Generations -----------------------------
(***************************************************************************)
(* Images, videos, speech, transcriptions and moderations.                 *)
(*                                                                         *)
(* A call asks an upstream for a generation, charges it and hands its      *)
(* answer on.  An upstream that only accepts a job answers with an id: a   *)
(* row of video_tasks then stands for the job, and the client polls it     *)
(* over two families of endpoints that share the rows and spell statuses   *)
(* differently.  Every poll copies what the upstream says into the row,    *)
(* whatever other polls have written since it began.                       *)
(***************************************************************************)
EXTENDS Naturals, Sequences, FiniteSets, FiniteSetsExt

CONSTANTS
    Users, Channels, Jobs,
    Protocol,       \* Protocol[c]: the protocol of a channel's type
    Endpoints,      \* the endpoints clients call
    Costs,          \* what a generation may cost
    Words,          \* the words upstreams use for the state of a job
    Calls, Polls,   \* handler goroutines
    None            \* no row, no reply

VARIABLES
    channels,       \* the channels table: the rows that are left
    call,           \* the generations being made
    task,           \* video_tasks, by the job a row stands for
    poll,           \* the requests for a task's status
    stage,          \* EXTERNAL: how far the upstream is with a job
    charged,        \* history: the charges of a job
    fate            \* history: what the caller was given for a job

generationVars == <<channels, call, task, poll, stage, charged, fate>>

-----------------------------------------------------------------------------
(* The words of upstreams.                                                 *)

normalizeVideoTaskStatus(word) ==
    CASE word \in {"succeed", "succeeded", "success", "completed", "complete", "done"} -> "succeeded"
      [] word \in {"fail", "failed", "error"} -> "failed"
      [] word \in {"submitted", "created", "pending", "queued"} -> "queued"
      [] word \in {"processing", "running", "in_progress"} -> "processing"
      [] word \in {"cancelled", "canceled"} -> "cancelled"
      [] OTHER -> word

normalizeCompatibleTaskStatus(word) ==
    CASE normalizeVideoTaskStatus(word) = "succeeded" -> "completed"
      [] normalizeVideoTaskStatus(word) = "queued" -> "pending"
      [] OTHER -> word

TerminalWords ==
    {"succeeded", "success", "completed", "complete", "done", "failed", "error",
     "cancelled", "canceled"}

terminalAsVideosSpell(word) ==                 \* mutant: only its own words
    word \in {"succeeded", "failed", "cancelled"}

terminalVideoTaskStatus(word) == word \in TerminalWords

terminalCompatibleTaskStatus(word) ==
    normalizeCompatibleTaskStatus(word) \in {"completed", "failed", "cancelled"}

(* The two families of endpoints.                                          *)
Terminal(api, word) ==
    IF api = "video" THEN terminalVideoTaskStatus(word) ELSE terminalCompatibleTaskStatus(word)

Spelled(api, word) ==
    IF api = "video" THEN word ELSE normalizeCompatibleTaskStatus(word)

(* A report is an object in the "data" of an object and so on; each may    *)
(* carry an id or a word, and the innermost "data" may be a list of        *)
(* results.  The empty string stands for an absent field.                  *)
First(strings) ==
    LET found == {i \in DOMAIN strings : strings[i] # ""} IN
    IF found = {} THEN "" ELSE strings[Min(found)]

upstreamTaskIDFromPayload(report) ==
    First([i \in DOMAIN report.layers |-> report.layers[i].id])

ListBeforeWords(report) ==                     \* mutant: a list settles it
    LET word == First([i \in DOMAIN report.layers |-> report.layers[i].word]) IN
    IF report.list THEN "succeeded" ELSE normalizeVideoTaskStatus(word)

videoTaskStatusFromPayload(report) ==
    LET word == First([i \in DOMAIN report.layers |-> report.layers[i].word]) IN
    CASE word # "" -> normalizeVideoTaskStatus(word)
      [] word = "" /\ report.list -> "succeeded"
      [] OTHER -> ""

(* EXTERNAL.  What a word means to an upstream, and what it may report: it *)
(* tells the truth where it says something, and a list without a word is   *)
(* the result.                                                             *)
Means(word) ==
    CASE normalizeVideoTaskStatus(word) = "succeeded" -> "finished"
      [] normalizeVideoTaskStatus(word) \in {"failed", "cancelled"} -> "failed"
      [] OTHER -> "working"

Reports(at) ==
    LET said == {w \in Words : Means(w) = at} \cup {""}
        Layer == [id: {"", "job"}, word: said]
        mute(layers) == \A i \in DOMAIN layers : layers[i].word = ""
    IN {r \in [layers: {<<l>> : l \in Layer} \cup (Layer \X Layer), list: BOOLEAN] :
            r.list /\ mute(r.layers) => at = "finished"}

(* What is read from a report.                                             *)
Heard ==
    [at \in {"working", "finished", "failed"} |->
        {[id |-> upstreamTaskIDFromPayload(r), status |-> videoTaskStatusFromPayload(r)] :
            r \in Reports(at)}]

-----------------------------------------------------------------------------
(* The endpoints: the channels each accepts, whether it applies the        *)
(* content filter, whether its price may be refused once the answer is     *)
(* known, and when it keeps a row.                                         *)

supportsOpenAIImageEndpoint(protocol) == protocol \in {"openai", "responses"}

supportsVideoEndpoint(protocol) == protocol \in {"openai_video", "kling"}

HandleImageEdit ==
    [accepts |-> {c \in Channels : supportsOpenAIImageEndpoint(Protocol[c])},
     filters |-> TRUE, prices |-> FALSE, keeps |-> "never"]

HandleVideoTaskCreate ==
    [accepts |-> {c \in Channels : supportsVideoEndpoint(Protocol[c])},
     filters |-> TRUE, prices |-> TRUE, keeps |-> "always"]

HandleImageGenerationCompatible ==
    [accepts |-> Channels, filters |-> TRUE, prices |-> FALSE, keeps |-> "jobs"]

HandleVideoGenerationCompatible ==
    [accepts |-> Channels, filters |-> TRUE, prices |-> TRUE, keeps |-> "jobs"]

HandleVideoRemix == HandleVideoGenerationCompatible

HandleSeedancePrivateAvatar == HandleVideoGenerationCompatible

HandleMidjourneyCreate == HandleImageGenerationCompatible

Raw == [accepts |-> Channels, filters |-> FALSE, prices |-> FALSE, keeps |-> "never"]

HandleAudioSpeech == Raw

HandleAudioTranscription == Raw

HandleModeration == Raw

Handler == [image_edit |-> HandleImageEdit, video_task |-> HandleVideoTaskCreate,
            image |-> HandleImageGenerationCompatible, video |-> HandleVideoGenerationCompatible,
            remix |-> HandleVideoRemix, seedance |-> HandleSeedancePrivateAvatar,
            midjourney |-> HandleMidjourneyCreate, speech |-> HandleAudioSpeech,
            transcription |-> HandleAudioTranscription, moderation |-> HandleModeration]

ASSUME GenerationsAssumption ==
    /\ Endpoints \subseteq DOMAIN Handler
    /\ Protocol \in [Channels -> {"openai", "responses", "openai_video", "kling", "other"}]
    /\ Costs \subseteq Nat /\ IsFiniteSet(Costs)
    /\ "" \notin Words

-----------------------------------------------------------------------------

NoCall == [pc |-> "idle"]
NoPoll == [pc |-> "idle"]

Statuses == {normalizeVideoTaskStatus(w) : w \in Words}
    \cup {normalizeCompatibleTaskStatus(normalizeVideoTaskStatus(w)) : w \in Words}
    \cup {"queued", "pending", "succeeded", "completed"}

Row == [owner: Users, channel: Channels, polled: BOOLEAN, status: Statuses, cost: Costs]

ASSUME NoneAssumption == None \notin Row

GenerationsTypeOK ==
    /\ channels \subseteq Channels
    /\ \A r \in Calls : call[r].pc \in {"idle", "answered", "charged"}
    /\ task \in [Jobs -> Row \cup {None}]
    /\ \A p \in Polls : poll[p].pc \in {"idle", "asking", "answered", "told"}
    /\ stage \in [Jobs -> {"none", "working", "finished", "failed"}]
    /\ charged \in [Jobs -> Seq(Costs)]
    /\ fate \in [Jobs -> {"none", "refused", "delivered", "task", "lost"}]

GenerationsInit ==
    /\ channels = Channels
    /\ call = [r \in Calls |-> NoCall]
    /\ task = [j \in Jobs |-> None]
    /\ poll = [p \in Polls |-> NoPoll]
    /\ stage = [j \in Jobs |-> "none"]
    /\ charged = [j \in Jobs |-> <<>>]
    /\ fate = [j \in Jobs |-> "none"]

Called(r, q) == call' = [call EXCEPT ![r] = q]
Polled(p, q) == poll' = [poll EXCEPT ![p] = q]

(* The call ends and its caller has been given f.                          *)
Conclude(r, f) ==
    /\ fate' = [fate EXCEPT ![call[r].job] = f]
    /\ Called(r, NoCall)

-----------------------------------------------------------------------------
(* Making a generation.                                                    *)

(* Refusals before the upstream is asked, an upstream that refuses, and    *)
(* answers that cannot be read change nothing.  Otherwise the upstream has *)
(* begun a job, or has finished one, and its report has been read.         *)
Generate(r, u, e, c, j, at, heard) ==
    /\ call[r] = NoCall
    /\ c \in channels \cap Handler[e].accepts
    /\ stage[j] = "none" /\ heard \in Heard[at]
    /\ stage' = [stage EXCEPT ![j] = at]
    /\ Called(r, [pc |-> "answered", user |-> u, endpoint |-> e, channel |-> c, job |-> j,
                  id |-> heard.id, status |-> heard.status, cost |-> 0])
    /\ UNCHANGED <<channels, task, poll, charged, fate>>

(* The content filter reads the answer, and the price of a video is looked *)
(* up: both come before the charge.                                        *)
Withhold(r) ==
    /\ call[r].pc = "answered"
    /\ Handler[call[r].endpoint].filters \/ Handler[call[r].endpoint].prices
    /\ Conclude(r, "refused")
    /\ UNCHANGED <<channels, task, poll, stage, charged>>

Charges(r, cost) == charged' = [charged EXCEPT ![call[r].job] = Append(@, cost)]

(* billUsageAndReturnCost: one transaction (module Billing).               *)
Charge(r, cost) ==
    /\ call[r].pc = "answered"
    /\ Charges(r, cost)
    /\ Called(r, [call[r] EXCEPT !.pc = "charged", !.cost = cost])
    /\ UNCHANGED <<channels, task, poll, stage, fate>>

ServedUncharged(r) ==                          \* mutant: the error is dropped
    /\ call[r].pc = "answered"
    /\ Called(r, [call[r] EXCEPT !.pc = "charged", !.cost = 1])
    /\ UNCHANGED <<channels, task, poll, stage, charged, fate>>

ChargeFails(r) ==
    /\ call[r].pc = "answered"
    /\ Conclude(r, "refused")
    /\ UNCHANGED <<channels, task, poll, stage, charged>>

KeepsRow(q) ==
    \/ Handler[q.endpoint].keeps = "always"
    \/ Handler[q.endpoint].keeps = "jobs" /\ q.id # ""

(* The row of HandleVideoTaskCreate: an answer without an id gives a row   *)
(* that names itself and is never polled.                                  *)
VideoRow(q) ==
    [owner |-> q.user, channel |-> q.channel, polled |-> q.id # "",
     status |-> IF q.status = "" THEN "queued" ELSE q.status, cost |-> q.cost]

CompatibleRow(q) ==
    LET status == normalizeCompatibleTaskStatus(q.status) IN
    [owner |-> q.user, channel |-> q.channel, polled |-> TRUE,
     status |-> IF status = "" THEN "pending" ELSE status, cost |-> q.cost]

createCompatibleTask(r) ==
    LET q == call[r] IN
    /\ q.pc = "charged" /\ KeepsRow(q)
    /\ task' = [task EXCEPT ![q.job] =
         IF Handler[q.endpoint].keeps = "always" THEN VideoRow(q) ELSE CompatibleRow(q)]
    /\ Conclude(r, "task")
    /\ UNCHANGED <<channels, poll, stage, charged>>

(* The caller has paid and is told that the task could not be created.     *)
CreateFails(r) ==
    /\ call[r].pc = "charged" /\ KeepsRow(call[r])
    /\ Conclude(r, "lost")
    /\ UNCHANGED <<channels, task, poll, stage, charged>>

writeUpstreamResponse(r) ==
    /\ call[r].pc = "charged" /\ ~KeepsRow(call[r])
    /\ Conclude(r, "delivered")
    /\ UNCHANGED <<channels, task, poll, stage, charged>>

-----------------------------------------------------------------------------
(* Asking for a status.                                                    *)

Found(u, j) == task[j] # None /\ task[j].owner = u

(* The row is read; a terminal status, or a row that is not polled, is the *)
(* reply as it stands.                                                     *)
Ask(p, u, j, api) ==
    LET asks == task[j].polled /\ ~Terminal(api, task[j].status) IN
    /\ poll[p].pc \in {"idle", "told"}
    /\ Found(u, j)
    /\ Polled(p, [pc |-> IF asks THEN "asking" ELSE "told", user |-> u, job |-> j, api |-> api,
                  copy |-> task[j].status, reply |-> task[j].status])
    /\ UNCHANGED <<channels, call, task, stage, charged, fate>>

(* The channel is loaded and its upstream asked; video endpoints refuse    *)
(* other protocols.  A report that says nothing leaves the status.         *)
Reachable(q) ==
    LET c == task[q.job].channel IN
    c \in channels /\ (q.api = "video" => supportsVideoEndpoint(Protocol[c]))

Answer(q, heard) ==
    LET next == Spelled(q.api, heard.status) IN
    IF next = "" THEN q.copy ELSE next

Fetch(p, j, heard) ==
    LET q == poll[p] IN
    /\ q.pc = "asking" /\ q.job = j
    /\ Reachable(q) /\ heard \in Heard[stage[j]]
    /\ Polled(p, [q EXCEPT !.pc = "answered", !.reply = Answer(q, heard)])
    /\ UNCHANGED <<channels, call, task, stage, charged, fate>>

FetchFails(p) ==
    /\ poll[p].pc = "asking"
    /\ Polled(p, NoPoll)
    /\ UNCHANGED <<channels, call, task, stage, charged, fate>>

NeverWritten(p, j) ==                          \* mutant: only the reply
    LET q == poll[p] IN
    /\ q.pc = "answered" /\ q.job = j
    /\ Polled(p, [q EXCEPT !.pc = "told"])
    /\ UNCHANGED <<channels, call, task, stage, charged, fate>>

(* Updates writes the status over whatever the row holds by now; when it   *)
(* fails the reply is the status the row had when it was read.             *)
WriteStatus(p, j) ==
    LET q == poll[p] IN
    /\ q.pc = "answered" /\ q.job = j
    /\ task' = [task EXCEPT ![j].status = q.reply]
    /\ Polled(p, [q EXCEPT !.pc = "told"])
    /\ UNCHANGED <<channels, call, stage, charged, fate>>

WriteFails(p) ==
    /\ poll[p].pc = "answered"
    /\ Polled(p, [poll[p] EXCEPT !.pc = "told", !.reply = poll[p].copy])
    /\ UNCHANGED <<channels, call, task, stage, charged, fate>>

-----------------------------------------------------------------------------
(* EXTERNAL: a job ends; and an administrator deletes a channel.           *)

JobEnds(j, at) ==
    /\ stage[j] = "working"
    /\ stage' = [stage EXCEPT ![j] = at]
    /\ UNCHANGED <<channels, call, task, poll, charged, fate>>

DeleteChannel(c) ==
    /\ c \in channels
    /\ channels' = channels \ {c}
    /\ UNCHANGED <<call, task, poll, stage, charged, fate>>

Making(r) ==
    \/ \E u \in Users, e \in Endpoints, c \in Channels, j \in Jobs,
          at \in {"working", "finished", "failed"} :
          \E heard \in Heard[at] : Generate(r, u, e, c, j, at, heard)
    \/ Withhold(r)
    \/ \E cost \in Costs : Charge(r, cost)
    \/ ChargeFails(r)
    \/ createCompatibleTask(r)
    \/ CreateFails(r)
    \/ writeUpstreamResponse(r)

Asking(p) == \E u \in Users, j \in Jobs, api \in {"video", "compatible"} : Ask(p, u, j, api)

Answering(p) ==
    \/ \E j \in Jobs : stage[j] # "none" /\ \E heard \in Heard[stage[j]] : Fetch(p, j, heard)
    \/ FetchFails(p)
    \/ \E j \in Jobs : WriteStatus(p, j)
    \/ WriteFails(p)

GenerationsNext ==
    \/ \E r \in Calls : Making(r)
    \/ \E p \in Polls : Asking(p) \/ Answering(p)
    \/ \E j \in Jobs, at \in {"finished", "failed"} : JobEnds(j, at)
    \/ \E c \in Channels : DeleteChannel(c)

GenerationsSpec == GenerationsInit /\ [][GenerationsNext]_generationVars

(* A request that was accepted is worked on until it ends.  A client asks  *)
(* over and over while its task is open, an upstream that is asked over    *)
(* and over says at some time how a job ended, and such an answer is       *)
(* written at some time.                                                   *)
Ended(status) == Means(status) # "working"

HearsEnding(p, j) ==
    \E heard \in Heard["finished"] \cup Heard["failed"] :
        /\ stage[j] # "none" /\ Fetch(p, j, heard)
        /\ Ended(Answer(poll[p], heard))

GenerationsFairSpec ==
    /\ GenerationsSpec
    /\ \A p \in Polls : WF_generationVars(Answering(p))
    /\ \A j \in Jobs :
         /\ SF_generationVars(\E p \in Polls, u \in Users : Ask(p, u, j, "compatible"))
         /\ SF_generationVars(\E p \in Polls : HearsEnding(p, j))
         /\ SF_generationVars(\E p \in Polls : WriteStatus(p, j) /\ Ended(poll[p].reply))

-----------------------------------------------------------------------------
(* Properties.                                                             *)

(* What was charged and what was handed out: every row in the table was    *)
(* paid once, at the cost it shows; so was every answer given away; and a  *)
(* charge that neither belongs to a row nor to an answer is one whose row  *)
(* could not be created, or one whose call is still running.               *)
GenerationsArePaid ==
    \A j \in Jobs :
      /\ task[j] # None => charged[j] = <<task[j].cost>>
      /\ fate[j] = "delivered" => Len(charged[j]) = 1
      /\ fate[j] = "refused" => charged[j] = <<>>
      /\ charged[j] # <<>> =>
           \/ task[j] # None \/ fate[j] \in {"delivered", "lost"}
           \/ \E r \in Calls : call[r].pc = "charged" /\ call[r].job = j

(* A status that says a job is over says so truly, and of that very job,   *)
(* whichever family of endpoints wrote it; this holds in the row and in    *)
(* every reply, and replies go to the owner of the task.                   *)
Truthful(status, j) ==
    Ended(status) => stage[j] = Means(status)

EndingsAreTrue ==
    /\ \A j \in Jobs : task[j] # None => Truthful(task[j].status, j)
    /\ \A p \in Polls : poll[p].pc = "told" =>
         /\ Truthful(poll[p].reply, poll[p].job)
         /\ task[poll[p].job].owner = poll[p].user

(* A row that says its job is over changes only through a poll that had    *)
(* read it before: neither family of endpoints takes up again what the     *)
(* other has settled.                                                      *)
SettledChangesLate ==
    \A j \in Jobs :
      task[j] # None /\ Ended(task[j].status) /\ task'[j].status # task[j].status =>
        \E p \in Polls : poll[p].pc = "answered" /\ poll[p].job = j /\ ~Ended(poll[p].copy)

SettledRowsChangeLate == [][SettledChangesLate]_generationVars

(* However polls overtake one another, a client that keeps asking learns   *)
(* from the row that its job is over, unless the channel is deleted.       *)
EndingsReachTheRow ==
    \A j \in Jobs :
      (task[j] # None /\ task[j].polled /\ stage[j] \in {"finished", "failed"})
        ~> (task[j] # None /\ (Ended(task[j].status) \/ task[j].channel \notin channels))
=============================================================================
