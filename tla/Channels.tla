------------------------------ MODULE Channels ------------------------------
(***************************************************************************)
(* The upstream channels of a model: how requests are spread over them,    *)
(* how failures take a channel out of service and how it comes back.       *)
(*                                                                         *)
(* Requests and the health check report what an upstream answered, each    *)
(* when it is done; a ticker brings disabled channels back after a while;  *)
(* and an administrator saves whole rows that were read some time before.  *)
(***************************************************************************)
EXTENDS Routing

CONSTANTS
    Weights,        \* the weights an administrator gives
    OpeningWeight,  \* OpeningWeight[c]: the weight at the start
    Thresholds,     \* values of reliability_disable_after_failures
    Requests,       \* goroutines that serve proxy requests
    None,           \* no row, no channel
    MaxFailures,    \* bound: of the failure counter
    MaxCounter,     \* bound: of the routing counter
    MaxChurn        \* bound: administrators' requests

ASSUME ChannelsAssumption ==
    /\ Weights \subseteq Int /\ OpeningWeight \in [Channels -> Weights]
    /\ Thresholds \subseteq 1 .. MaxFailures
    /\ MaxFailures \in Nat /\ MaxCounter \in Nat /\ MaxChurn \in Nat
    /\ None \notin Channels

VARIABLES
    row,            \* the channels table; None: no row
    settings,       \* the reliability settings that are on
    disableAfter,   \* reliability_disable_after_failures
    counter,        \* routingCounters, of the one key there is
    request,        \* the proxy requests being served
    prober,         \* the ticker's goroutine: the channels it has yet to check
    editor,         \* the row an administrator's request has read
    turns,          \* history: the picks of the round that is running
    revived,        \* history: rows a save brought back after their deletion
    churn           \* what the bound counts (nothing else reads it)

channelVars == <<row, settings, disableAfter, counter, request, prober, editor, turns, revived, churn>>

(* off: auto_disabled_at is set.  When a row was last checked, and what the *)
(* check found, is for display; that time has come for a check or for a    *)
(* recovery is a choice of the ticker's actions.  measured is history: the *)
(* setting the failures were compared with when the last one was counted.  *)
Row == [enabled: BOOLEAN, failures: 0 .. MaxFailures, off: BOOLEAN, weight: Weights,
        measured: 0 .. MaxFailures]

Settings == {"auto_disable", "auto_recover", "auto_detect"}

Idle == [pc |-> "idle", cands |-> <<>>, weight |-> <<>>, channel |-> None]

ChannelsTypeOK ==
    /\ row \in [Channels -> Row \cup {None}]
    /\ settings \subseteq Settings
    /\ disableAfter \in Thresholds
    /\ counter \in 0 .. MaxCounter
    /\ \A r \in Requests : request[r].pc \in {"idle", "found", "calling"}
    /\ prober \subseteq Channels
    /\ editor \in [channel: Channels, copy: Row] \cup {None}
    /\ turns.cands \in Seq(Channels) /\ turns.picks \in Seq(Channels)
    /\ revived \subseteq Channels
    /\ churn \in 0 .. MaxChurn

NewRowUnweighted(w) ==                         \* mutant: the weight is lost
    [enabled |-> TRUE, failures |-> 0, off |-> FALSE, weight |-> 0, measured |-> 0]

NewRow(w) == [enabled |-> TRUE, failures |-> 0, off |-> FALSE, weight |-> w, measured |-> 0]

NoTurns == [cands |-> <<>>, weight |-> <<>>, picks |-> <<>>]

ChannelsInit ==
    /\ row = [c \in Channels |-> NewRow(OpeningWeight[c])]
    /\ settings = Settings
    /\ disableAfter \in Thresholds
    /\ counter = 0
    /\ request = [r \in Requests |-> Idle]
    /\ prober = {}
    /\ editor = None
    /\ turns = NoTurns
    /\ revived = {}
    /\ churn = 0

Exists(c) == row[c] # None

Becomes(r, q) == request' = [request EXCEPT ![r] = q]

Intervene == churn < MaxChurn /\ churn' = churn + 1

Untouched == UNCHANGED <<row, settings, disableAfter, prober, editor, revived, churn>>

-----------------------------------------------------------------------------
(* Routing a request.                                                      *)

(* The query; no candidate ends the request.                               *)
resolveTarget(r) ==
    LET weight == [c \in Channels |-> IF Exists(c) THEN row[c].weight ELSE 1]
        found == {c \in Channels : Exists(c) /\ row[c].enabled}
    IN
    /\ request[r] = Idle
    /\ found # {}
    /\ Becomes(r, [pc |-> "found", cands |-> Candidates(found, weight),
                   weight |-> weight, channel |-> None])
    /\ Untouched /\ UNCHANGED <<counter, turns>>

NextTurn(n) == n + 1

(* The picks are remembered while the candidates are the same.             *)
Remember(q, c) ==
    LET same == turns.cands = q.cands /\ turns.weight = q.weight
        round == RoundLength(q.cands, q.weight)
        picks == Append(IF same THEN turns.picks ELSE <<>>, c)
    IN turns' = [cands |-> q.cands, weight |-> q.weight,
                 picks |-> IF Len(picks) > round THEN Tail(picks) ELSE picks]

(* nextRoutingCounter is under a mutex: a draw is one step.                *)
Select(r) ==
    LET q == request[r]
        c == selectModelConfig(q.cands, q.weight, counter)
    IN
    /\ q.pc = "found"
    /\ IF Draws(q.cands)
       THEN counter < MaxCounter /\ counter' = NextTurn(counter) /\ Remember(q, c)
       ELSE UNCHANGED <<counter, turns>>
    /\ Becomes(r, [Idle EXCEPT !.pc = "calling", !.channel = c])
    /\ Untouched

-----------------------------------------------------------------------------
(* Reports.                                                                *)

StaysEnabled(x, failures) == x.enabled /\ failures < disableAfter

(* The settings of the moment; then one transaction, in which the row is   *)
(* read, counted and written.                                              *)
RecordChannelFailure(c) ==
    LET x == row[c] IN
    IF ~Exists(c) \/ "auto_disable" \notin settings THEN UNCHANGED row
    ELSE /\ x.failures < MaxFailures
         /\ row' = [row EXCEPT ![c] =
              [x EXCEPT !.failures = @ + 1,
                        !.enabled = StaysEnabled(x, x.failures + 1),
                        !.off = @ \/ (x.enabled /\ ~StaysEnabled(x, x.failures + 1)),
                        !.measured = disableAfter]]

(* A success clears the count and leaves the rest: a disabled channel      *)
(* stays disabled.                                                         *)
RecordChannelSuccess(c) ==
    row' = IF Exists(c) THEN [row EXCEPT ![c].failures = 0, ![c].measured = 0] ELSE row

(* recordUpstreamResult: errors, 401, 403, 408, 429 and 5xx are failures,  *)
(* 2xx and 3xx successes, and other answers (or a failed statement)        *)
(* neither.                                                                *)
recordUpstreamResult(r) ==
    LET c == request[r].channel IN
    /\ request[r].pc = "calling"
    /\ RecordChannelFailure(c) \/ RecordChannelSuccess(c) \/ UNCHANGED row
    /\ Becomes(r, Idle)
    /\ UNCHANGED <<settings, disableAfter, counter, prober, editor, turns, revived, churn>>

-----------------------------------------------------------------------------
(* The ticker.                                                             *)

RecoverIfHealthy(x) ==                         \* mutant: waits for a success first
    ~x.enabled /\ x.off /\ x.failures = 0

Recoverable(x) == ~x.enabled /\ x.off

(* RunDueChecks begins with recoverAutoDisabledChannels, one statement.    *)
recoverAutoDisabledChannels ==
    /\ prober = {}
    /\ "auto_recover" \in settings
    /\ row' = [c \in Channels |->
                 IF Exists(c) /\ Recoverable(row[c]) THEN NewRow(row[c].weight) ELSE row[c]]
    /\ row' # row
    /\ UNCHANGED <<settings, disableAfter, counter, request, prober, editor, turns, revived, churn>>

ScanDue(due) ==
    /\ prober = {}
    /\ "auto_detect" \in settings
    /\ due # {} /\ \A c \in due : Exists(c) /\ row[c].enabled
    /\ prober' = due
    /\ UNCHANGED <<row, settings, disableAfter, counter, request, editor, turns, revived, churn>>

(* checkChannel: by the id, so a channel that has been disabled or deleted *)
(* since the scan is reported on like any other.                           *)
checkChannel ==
    LET c == Min(prober) IN
    /\ prober # {}
    /\ RecordChannelFailure(c) \/ RecordChannelSuccess(c) \/ UNCHANGED row
    /\ prober' = prober \ {c}
    /\ UNCHANGED <<settings, disableAfter, counter, request, editor, turns, revived, churn>>

-----------------------------------------------------------------------------
(* Administrators.                                                         *)

BeginUpdate(c) ==
    /\ editor = None
    /\ Exists(c)
    /\ editor' = [channel |-> c, copy |-> row[c]]
    /\ Intervene
    /\ UNCHANGED <<row, settings, disableAfter, counter, request, prober, turns, revived>>

EditedKeepingFailures(x, enabled, w) ==        \* mutant: the counters are not reset
    [x EXCEPT !.enabled = enabled, !.weight = w]

(* The body may hold any column, but the counters are those of the copy,   *)
(* or fresh ones when the channel is switched on again.                    *)
Edited(x, enabled, w) ==
    IF ~x.enabled /\ enabled
    THEN [x EXCEPT !.enabled = TRUE, !.failures = 0, !.off = FALSE, !.weight = w, !.measured = 0]
    ELSE [x EXCEPT !.enabled = enabled, !.weight = w]

(* Save writes every column.  When the row is gone it is inserted again,   *)
(* and the default of the enabled column takes the place of FALSE.         *)
Update(enabled, w) ==
    LET c == editor.channel
        new == Edited(editor.copy, enabled, w)
    IN
    /\ editor # None
    /\ row' = [row EXCEPT ![c] = IF Exists(c) THEN new ELSE [new EXCEPT !.enabled = TRUE]]
    /\ revived' = IF Exists(c) THEN revived ELSE revived \cup {c}
    /\ editor' = None
    /\ UNCHANGED <<settings, disableAfter, counter, request, prober, turns, churn>>

Delete(c) ==
    /\ Exists(c)
    /\ row' = [row EXCEPT ![c] = None]
    /\ Intervene
    /\ UNCHANGED <<settings, disableAfter, counter, request, prober, editor, turns, revived>>

UpdateSettings(on, failures) ==
    /\ settings' = on
    /\ disableAfter' = failures
    /\ Intervene
    /\ UNCHANGED <<row, counter, request, prober, editor, turns, revived>>

ChannelsNext ==
    \/ \E r \in Requests : resolveTarget(r) \/ Select(r) \/ recordUpstreamResult(r)
    \/ recoverAutoDisabledChannels \/ checkChannel
    \/ \E due \in SUBSET Channels : ScanDue(due)
    \/ \E c \in Channels : BeginUpdate(c) \/ Delete(c)
    \/ \E enabled \in BOOLEAN, w \in Weights : Update(enabled, w)
    \/ \E on \in SUBSET Settings, failures \in Thresholds : UpdateSettings(on, failures)

ChannelsSpec == ChannelsInit /\ [][ChannelsNext]_channelVars

(* The ticker ticks and its goroutine goes on: every check has a deadline, *)
(* and nothing it calls waits for anybody else.  It comes by the recovery  *)
(* again and again, and one day the time of a channel is up.               *)
Ticking ==
    /\ SF_channelVars(recoverAutoDisabledChannels)
    /\ WF_channelVars(checkChannel)

ChannelsFairSpec == ChannelsSpec /\ Ticking

-----------------------------------------------------------------------------
(* Properties.                                                             *)

(* An enabled channel has failed fewer times in a row than disabled one    *)
(* when its last failure was counted (a setting that is lowered later is   *)
(* not applied to what was counted before), and bears no trace of an       *)
(* earlier switch-off: whatever reports, checks, recoveries and saves of   *)
(* old copies meet in its row.  (The exception is a row that a save has    *)
(* put back after somebody else had deleted it.)                           *)
EnabledIsSound ==
    \A c \in Channels \ revived :
      Exists(c) /\ row[c].enabled =>
        (row[c].failures = 0 \/ row[c].failures < row[c].measured) /\ ~row[c].off

(* In every full round of picks from the same candidates each of them is   *)
(* taken exactly as often as its weight says, wherever the shared counter  *)
(* stood when the round began and whoever drew.                            *)
RoundsFollowWeights ==
    LET round == RoundLength(turns.cands, turns.weight) IN
    turns.cands # <<>> /\ Len(turns.picks) = round =>
      \A i \in DOMAIN turns.cands :
        Cardinality({j \in 1 .. round : turns.picks[j] = turns.cands[i]})
          = Share(turns.cands, turns.weight, i)

(* A channel that was switched off by its failures comes back, unless      *)
(* recovery is off, or an administrator switches or deletes it.            *)
SwitchedOff(c) == Exists(c) /\ ~row[c].enabled /\ row[c].off

SwitchedOffComesBack ==
    \A c \in Channels : SwitchedOff(c) ~> ~SwitchedOff(c) \/ "auto_recover" \notin settings
=============================================================================
