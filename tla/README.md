# TLA+ models of the WindyPear Token Market backend

The repository is the community edition of a token market: an HTTP server in Go
(gin, gorm on SQLite) that sells access to upstream language models. Users hold
a balance, call models with API keys or from a chat page, recharge through
payment gateways, and can let a chat agent use tools on their own devices. All
durable state is in one SQLite database. A gorm transaction commits or is
rolled back as a whole and SQLite admits one writer, so a transaction is ONE
step of a model. A statement outside a transaction is a step of its own, and
whatever a handler does between two statements can be interleaved with
everything else: that is where the interesting behaviour is.

Contents: 1 inventory, 2 plan, 3 the modules and the code, 4 the runs, 5 what
the models leave out, 6 fairness, 7 proofs, 8 what the code does that may
surprise, 9 how to run.

## 1. Inventory

Paths are relative to `src/internal`. "Modelled" refers to section 3, and
section 5 says what of a modelled component is left out.

**Metered requests and billing** (`service/proxy.go`, `service/api_key.go`,
`service/billing.go`, `service/hooks.go`, `service/chat_executor.go`,
`middleware/auth.go`). State: `users.balance`, `api_keys` (limit, enabled,
reset time), `token_logs`, `referral_commission_logs`, the referral settings,
and in memory the copies of the user's and the key's row that authentication
took. Operations: authenticate, check balance and quota, forward to a channel,
read the usage, price it, charge (quota, debit, log and commission in one
transaction), answer. Hard: the copies are used until the request ends; the
checks before the upstream call are passed by any number of requests on the
same money; streams are charged after they were delivered; the chat agent
retries. Correct when: the books balance, nobody is charged twice or beyond
balance and quota, whoever gets an answer paid for it, every commission is
backed by a paid log. Modelled (`Billing`).

**Routing and pricing** (`service/proxy.go`, `service/format_compat.go`,
`model/price_tier.go`, `model/video_billing.go`, `api/admin.go`). State: the
prices of models, the multipliers of user channels and groups, an in-memory
counter per model. Operations: choose a channel by priority, weight and
counter; read an upstream's usage report in any of its shapes, or the one
written when the answer is converted; price it by unit, tier and multiplier;
show the catalogs. Hard: reports that count cached tokens inside or outside the
input, tiers in any order, prices edited between routing and charging. Correct
when: weights are honoured over every round of the counter, every token is
priced once and as the administrator meant it, and the catalogs show what is
charged. Modelled (`Routing`, `Usage`, `PriceBooks`, `Pricing`).

**Video tasks** (`service/proxy.go`, `service/format_compat.go`). State:
`video_tasks`. Operations: every endpoint that makes an image, a video, speech,
a transcription or a moderation, and the polls of two families of endpoints over
the same rows. Hard: the charge
comes before the row; concurrent polls write the upstream's answer without a
guard; the two families spell statuses differently. Correct when: what is
handed out is paid, a status that says a job is over is true and is learned by
whoever keeps asking. Modelled (`Generations`).

**Payments** (`api/payment.go`, `api/payment_openpayment.go`). State:
`payment_orders`, the gateway settings, the balance. Operations: place an order,
serve the gateway's notification and the browser's return, settle, answer. Hard:
repeated and concurrent reports, settings that change while an order is open,
answers lost after a commit. Correct when: an order is credited exactly once,
for its whole price, and eventually. Modelled (`Payments`).

**Check-in** (`api/checkin.go`). State: `check_ins`, streak and settings.
Operation: claim once a day, with a reward that depends on the streak. One
transaction, guarded by a unique index on user and day; what is left to go
wrong is calendar arithmetic in a configurable zone. Not modelled.

**Channel reliability** (`service/reliability.go`, `api/admin.go`). State:
failure counters and enabled flags of channels. Operations: count a failure,
disable at the threshold, reset on success, probe and re-enable. Hard:
concurrent failures and successes, administrators saving a whole row they read
earlier and changing the threshold. Correct when: an enabled channel bears no
trace of failures that should have disabled it, and one that was switched off comes back. Modelled
(`Channels`).

**Chat runs** (`service/advanced_chat_runs.go`, `advanced_chat.go`,
`advanced_chat_completion.go`, `advanced_chat_agent_groups.go`). State:
`advanced_chat_runs`, its tool calls and its event log, in memory a table of
cancel functions. Operations: send (interrupt the active run, create another),
stop, the goroutine that runs round by round, its sub-agents, which call tools
at the same time under the run's id, list and stream events, delete the session.
Hard: only guarded UPDATEs coordinate the goroutines with the handlers, and the
errors of the statements that end a run are dropped. Correct when: a session has
one active run, each run has one end and a closing event that agrees with it,
nothing is left open behind it, and it ends. Modelled (`ChatRun`, `RunLife`).

**Connector tasks** (`service/advanced_chat_connectors.go`). State: connectors
(devices) and their tasks. Operations: create with or without approval, decide,
claim, post a result, time out, cancel, delete the device. Hard: polls race,
results arrive late or twice. Correct when: a task is handed out at most once,
only after approval, and never again once it is over. Modelled
(`ConnectorTasks`, composed in `ChatRun`).

**Scheduled tasks** (`service/advanced_chat_tasks.go`). State: tasks with a next
time, status and enabled flag. Operations: tick, claim, run, reschedule, edit.
Hard: ticks against manual starts, times written from a copy read at the start,
a crash while a task is "running". Correct when: a task has one run at a time,
its row tells whether it is at work, it is scheduled as its user asked, and it
is started when it is due. Modelled (`ScheduledTasks`).

**Accounts and authentication** (`service/auth.go`, `service/password_auth.go`,
`service/passkey.go`, `api/passkey.go`). State: users, e-mail codes, bind
requests, passkey credentials and challenges. Operations: first-run setup,
registration, sign-in through a provider or with a passkey, binding, password
change, administration. Hard: "there is no administrator yet", "the code is
valid" and "the address is free" are asked some statements before they are acted
on; an answer to a challenge may come twice. Correct when: only the setup, an
administrator or the configuration makes administrators, a verified address was
proven, and a passkey signs in its owner only. Modelled (`Accounts`,
`Passkeys`).

**Synchronisation** (`service/sync.go`, `api/admin.go`). State: models and
their configs per channel. Operations: read an upstream's lists of names and
prices in any of their forms, hourly or by hand, preview and apply them, edit
both tables. Hard: every item is a chain of statements, whole rows are saved
from old copies, lists have a dozen forms. Correct when: a row costs what its
last writer meant, no config is left without its model, what is listed becomes
reachable. Modelled (`PriceLists`, `ModelSync`).

**Agent groups and studio** (`service/advanced_chat_agent_groups.go`,
`service/advanced_chat_agent_studio.go`): the goroutines of sub-agents and what
they do to the tables are part of `ChatRun`; the assembly of their prompts is
not, and what else is stored is configuration only its owner writes, under a
lock. Partly modelled. **Status monitor** (`service/status.go`): one writer, one row per
node; not modelled. **Administration** (`api/admin.go`): the writes that race
with something are actions of `Wallet`, `Billing`, `Accounts`, `Channels`,
`Pricing` and `ModelSync`; the rest is CRUD. **Audit** (`middleware/audit.go`,
`service/audit.go`): the retention of token logs is an action of `Billing`,
audit rows are never read by the logic. **Adapters and format conversion**
(`adapters/`, `service/format_compat.go`, `service/providers.go`): what
conversion does to the usage report, from which the bill is made, is in `Usage`;
the translation of messages is stateless. **Files, delivery and MCP client**
(`service/advanced_chat_files.go`, `..._delivery.go`, `..._mcp_client.go`),
**database, configuration and shell** (`model/`, `config/`, `app/`), and the
**edition hooks** (empty functions in this edition): stateless translation, I/O
or start-up; not modelled.

How they interact: authentication gives billing its copies; routing and pricing
feed it a channel and a cost; generations and the chat agent are among its
callers; reliability observes its upstream calls and decides which channels
routing may take; synchronisation and administrators write the models that are
routed and priced; payments, check-in, billing, commissions and administrators
all write `users.balance`, which is why `Billing` and `Payments` share the
module `Wallet`. Chat runs create connector tasks and wait for them; the
scheduler starts chat runs.

`PROJECT.json` lists every hazard of this code at its line, with the properties
that cover it or the reason why none does.

## 2. Plan

| # | Modules | Code | State |
|---|---------|------|-------|
| 1 | `Wallet`, `Billing`, `WalletProofs` | metered requests | done |
| 2 | `Payments`, `WalletProofs` | recharging | done |
| 3 | `RunLife`, `ConnectorTasks`, `ChatRun`, `ChatRunProofs` | chat agent | done |
| 4 | `Accounts`, `Passkeys`, `AccountsProofs` | who is who, and who administers | done |
| 5 | `Routing`, `Channels`, `ChannelsProofs` | channels against failures and administrators | done |
| 6 | `Usage`, `PriceBooks`, `Pricing`, `PricingProofs` | what a request costs | done |
| 7 | `Generations`, `GenerationsProofs` | images, videos, their tasks and polls | done |
| 8 | `ScheduledTasks`, `ScheduledTasksProofs` | the scheduler | done |
| 9 | `PriceLists`, `ModelSync`, `PricingProofs` | catalogue writes | done |
| 10 | `CollectionLemmas` | sums, folds and sorted lines, for the books, the rounds and the tiers | done |

What is left is what the provers cannot say: liveness, and the recursion with
which `PriceLists` reads a document (section 7).

Money comes first: it is the part where an interleaving costs somebody
something. Then the agent, which has the most concurrency, and rights.

Abstract specification: `RunLife` (what a session promises; implemented by
`ChatRun`, checked and proved).

Runs: one per component, or per question where one instance cannot show both
depth and width, with two actors for each role and a few interventions of the
outside world; pure operators over inputs of every shape to a bound. Theorems:
for a component its type invariant, its safety invariants and its action
properties. `Routing`, `Usage` and `PriceBooks` are pure; what they promise is
proved with the modules that use them. `PriceLists` recurses over documents and
has no theorems. `ModelSync` therefore does not extend it: what is read of an
upstream is a constant there, and `MCModelSync` fills it in with what
`PriceLists` reads.

## 3. The modules and the code

`PROJECT.json` "map" gives the source lines of every definition.

### Wallet

`live` and `balance` are the rows and the money column of `users`. `CanPay` and
`Debited` are the charging statement (`balance >= cost` is in its WHERE clause;
a free request passes always), `Credited` the crediting statement, which touches
no row and reports no error when the user is gone. `AdminUpdateBalance` writes
an absolute value, `DeleteUser` removes the row and leaves all others.
`opening` is a history variable: what the user started with, corrected by what
administrators typed, so that the books can be balanced against it.

### Billing

One record of `req` is one handler goroutine; its `kind` is a plain request, a
stream, or the loop of the chat agent.

| Action | Code |
|--------|------|
| `AuthenticateKey`, `AuthenticateSession` | `AuthMiddleware`; the rows are copied into `seen` |
| `ResolveTarget`, `Refuse` | the checks before the upstream call, on the copies |
| `UpstreamAnswers`, `UpstreamFails`, `AnswerBreaksOff` | the call, and the chat loop's bounded retries |
| `PriceUsage` | usage to cost, before the transaction |
| `BillCommit`, `BillRollback` | `billUsage`: quota, debit, log, commission; all or nothing |
| `Deliver`, `NextRound` | the reply; another round of the agent |
| `UpdateAPIKey`, `ResetAPIKeyUsage`, `DeleteAPIKey` | the owner's handlers |
| `UpdateReferralSettings`, `CleanupTokenLogs`, `UserAdmin`, `Crash` | administrators, retention, the process |

Time appears only as an order: a reset time is the number of logs written
before it, because `token_logs.created_at` is taken inside the write
transaction; `time.Now()` of a reset is read before its UPDATE, so `now` may be
any earlier moment. The retention deletes oldest rows first and is a counter.

### Payments

`orders` is the table, `trades` and `acked` are the gateway's own books (what it
was paid, and what it need not report any more), `callback` the goroutines that
serve notifications and returns. `VerifyCallback`, `SettleOrder` (the
transaction, which reads the order again) and `AnswerSuccess` are three steps,
because settings, other callbacks and crashes come between them; `MoneyMismatch`
and `SettleFails` are the refusals. A report with an invalid signature changes
nothing and has no action. The gateways differ in URLs and signatures; here they
differ in name.

### ConnectorTasks, ChatRun and RunLife

`ConnectorTasks` is the task table: the decision of the user, the poll that
claims, the result that is stored unconditionally, expiry, cancellation,
deletion of the device. A task is identified with the tool call it serves,
`<<agent, round>>`, and an agent, a goroutine that calls tools, is
`<<run, number>>`: number 0 is the run's own, the others are its sub-agents.

`ChatRun` adds the runs of one session. `status`, `tools` and `events` are the
row, its tool calls and its closing events; `go[a]` is the goroutine of an
agent, whose `pc` names its next database access; `cancelFns` and `cancelled` are the in-memory
table of cancel functions and the contexts they cancelled. A send is
`BeginSend`, `StopRun`, `SignalCancel`, `AnnounceCancelled`, `CreateRun`: the
interruption and the creation are separate transactions, and so are here. The
goroutine's `Checked` is `ensureAdvancedChatRunNotCancelled`: the status is read
in one step and what follows is another.

`Lead` is what only the run's own goroutine does, `Work` what every agent does.
`StartAgents` is a call of agent_split or agent_delegate: the named sub-agents
start, and `JoinAgents` waits for all of them. A sub-agent asks the model,
prepares, records and closes tool calls with the run's own functions and under
the run's id; an error, or its last answer, ends it and not the run. Every
statement may fail. A statement of a tool call that fails ends the agent or
leaves the call as it is, and `missed` remembers the call. The errors of the
statements that start a run, end it and write its closing event are dropped by
the code; `adrift` remembers such runs. Both are histories.

`RunLife` is what the user sees: absent, queued, running, one of three ends, and
at most one closing event that agrees with the end. `ChatRun!Life` maps `status`
to `status` and the log to `outcome` (the log of a deleted run counts as empty:
a late event may still be appended to a session that is gone).

### Accounts

`users` is the table, with the address, the subject of a provider, and whether
the row is an administrator's and its address verified; `how` is a history
field, what its creation rests on. `handler` holds the requests being served,
with what each has found out so far. Only `SetupInitialAdmin` is a transaction.

| Action | Code |
|--------|------|
| `SendRegistrationEmailCode`, `SendPasswordChangeEmailCode`, `CreateOIDCBindRequest` | codes and links go out |
| `BeginRegister`, `CheckCode`, `LookForAdmin`, `RegisterWithPassword`, `markEmailCodeUsed` | `RegisterWithPassword`, a query a step: setup done, code valid, address free, first administrator, insert, code used |
| `BeginChangePassword`, `ChangePassword` | the same for a new password |
| `BeginOAuth`, `WeighClaims`, `FindAccount`, then `LinkSubject` or `CreateFromClaims` | `verifyOAuthClaims` and `handleOAuthCallback` |
| `EnsureFirstAdmin`, `Promote` | any signed-in user of a site without administrator |
| `BeginBind`, `CheckBind`, `HandleOIDCBindCallback` | binding a provider |
| `BeginAdmin`, then `UpdateUser`, `DeleteUser` or `UpdateSettings` | the middleware decides, the handler writes later |
| `Expire`, `Fail` | time, errors, crashes |

`proven` remembers the addresses a code or a provider has vouched for, `gap`
that the site has once lost its last administrator.

### Passkeys

`challenge` and `credential` are the tables, `signed` and `answers` belong to
the authenticators. `createWebAuthnChallenge` (which deletes expired rows
first) serves `BeginPasskeyRegistration` and `OfferLogin`. Finishing is
`Take` (the row is read), `consumeWebAuthnChallenge` (and deleted: two
statements, so two steps), then `FinishPasskeyRegistration`, or
`LookUpCredential`, `StoreSignCount` and `FinishPasskeyLogin`. `DeletePasskey`,
`DeleteOwner`, `ExpireChallenge` and `BreakOff` come in between. An owner whose
row is gone is read as the zero user, for whom no token is issued. `ceremony` holds
the requests being served. The module shares no name with `Accounts`, so that
one module of proofs can speak of both.

### Routing and Channels

`Routing` has the pure part: `Candidates` is the line of the enabled channels in
the query's order (priority, weight, id), `Position` the candidate whose share of a round holds the counter,
`selectModelConfig` the choice. `Channels` has the rows and who writes them:
`resolveTarget` (the query), `Select` (the draw, under a mutex) and
`recordUpstreamResult` of a request; `recoverAutoDisabledChannels`, `ScanDue`
and `checkChannel` of the ticker; `BeginUpdate` and `Update` of an administrator
who saves a row read earlier, `Delete`, `UpdateSettings`, which sets any flags
and any threshold at once. The threshold is read when a failure is counted;
`measured`, a history field of the row, is the one its last failure was compared
with.
`RecordChannelFailure` and `RecordChannelSuccess` are transactions of their own.

### Usage, PriceBooks and Pricing

`Usage` reads reports: `parseUsageTokens` and its relatives for streams and
images, and `ClientReport`, the report a converted answer carries, which is the
one that is billed. A report is a shape and the fields in it, top level or
details. `PriceBooks` prices counts: `NormalizePriceTiers`,
`CalculateTieredTokenCostWithMetrics`, video prices, the division of a request
among its `Parts`, group multipliers, and what the two catalogs show
(`Advertised`, `Exposed`). `Pricing` has the rows: `SaveModel`,
`UpdateUserChannel`, `Regroup`, `UpdateGroup`, `SetChannelGroupMultipliers`,
`SetModelGroupMultipliers` by administrators, and a request that is routed
(`resolveTarget`, which reads the rows) and billed later (`Bill`). `asked` is
the body an administrator sent, so that the price that was meant can be told
from the price that is stored. Prices are counted in halves of the smallest
unit and costs in millionths, so that all arithmetic is of integers.

### Generations

`Handler` is a table of the endpoints: the channels each accepts, whether it
filters content, whether a price may be refused after the answer, and when a row
is kept. A call is `Generate`, `Withhold`, `Charge` or `ChargeFails`, then
`createCompatibleTask`, `CreateFails` or `writeUpstreamResponse`. A poll is
`Ask` (the row is read), `Fetch` or `FetchFails` (the upstream), `WriteStatus`
or `WriteFails`. `normalizeVideoTaskStatus`, `normalizeCompatibleTaskStatus` and
the two notions of a terminal word are the code's; `Reports` enumerates the
nested objects an upstream may send, and `Heard` what is read from them.
`JobEnds` and `Reports` are external.

### ScheduledTasks

`row` is the table; `order` is what its user asked for, `next` the next time
("later", "due" or none). A row is created enabled whatever was asked, since the
default of the column takes the place of FALSE, but its next time is that of the
order as it came. `worker` are the goroutines of ticks and manual
starts, with the copy of the order each works from; `editor` is a request
between its check and its write.

| Action | Code |
|--------|------|
| `createScheduledTask`, `Check`, `updateScheduledTask`, `deleteScheduledTask` | the user's handlers: the check that the task is idle is a query before the write |
| `runDueAdvancedChatScheduledTasks`, `Load` | the tick lists, its goroutine reads the row again |
| `runScheduledTask` | a manual start |
| `Claim` | the conditional UPDATE of the status |
| `prepareAdvancedChatAssistantRun`, `createAdvancedChatAssistantRun`, `PrepareFails`, `failAdvancedChatScheduledTaskQueue` | the run is prepared (over the network) and created, or not; then the row is read again for its next time, and one that cannot be read gets none |
| `runAdvancedChatScheduledTaskCompletion`, `LastWordLost` | the end of the run, written from the copy; an error of that statement is dropped |
| `TimePasses`, `Switch`, `Crash` | the clock, the setting, the process |

### PriceLists and ModelSync

`PriceLists` reads lists: a tree of maps and lists, in which one key stands for
all spellings of a field, from which `parseUpstreamPriceItems`,
`fetchUpstreamAvailableModels` and the previews take items, in every form the
code knows (objects, maps by model, maps split by field, ratios, tiers,
billing expressions, this program's own catalog, `PricingDocument`).
`Read` gathers what the server can make of one upstream. `ModelSync` has the
tables; its `Sites` are such readings. A synchronisation takes its items one by one:
`FindModel`, `InsertModel`, `FindConfig`, `UpdateConfig` or `CreateConfig` for
names, `FindModel`, `WritePrices` for prices, each a statement. `SyncChannel`
is the hour or the button, `ApplySync` and `ApplyPriceSync` what an
administrator was shown. `ReadModel` and `UpdateModel`, `UpdateChannelModel`,
`ReadModelOf`, `SaveModelOf`, `SaveConfig`, `CreateChannelModel` and
`InsertModelOf` are the handlers that read a row, change it and save the whole
of it; a body may give a model another name in both of them, and a config
another model. `Saved` is what a save writes when the row is gone: it is
inserted, enabled. Each row carries `meant`, a history: the prices meant by whoever wrote
them last.

## 4. The runs

Deadlock is not checked in any run: a server whose bounded requests, orders or
runs are all finished has, in the model, nothing left to do. Times are of two
workers on a small machine.

**billing** (`MCBilling.cfg`, @billing). Two users,
alice and bob, bob referred by alice; one key of bob's; two interchangeable
requests. An answer costs 2, or -1, for the handlers that set multipliers take
negative ones; accounts open with 4, so two charges empty an
account and a commission (rate setting 15000, read as 150 %, amount 3) can refill it. Limits 0
("none") and 3, so that one charge is within the limit and the second is not.
Two rounds, one retry, one intervention (`MaxChurn`).

- `LedgerReconciles`: balance = opening + commissions - the positive costs
  logged, for every row that exists, whatever interleaves, rolls back, crashes
  or is deleted. A cost below zero is logged and moves no money (section 8).
- `OnlyAdminOverdraws`: no charge takes a balance below zero.
- `QuotaHonoured`: every charge left its key within the limit of its request's
  copy, however many requests passed the early check together.
- `NeverBilledTwice`: one charge per round of a request.
- `DeliveredIsBilled`: an answer that is not a stream is delivered only when all
  its rounds have a committed log.
- `CommissionsBacked`: every commission names a paid log of the referred user,
  and no two the same log.

Two requests are the fewest that race for a balance or a quota, and a third adds
no new kind of conflict, since every charge is compared with the sum of the
others. One intervention is a reset or an edit between two charges, a deletion,
an overwrite or a crash; the theorems bound none of this.

**payments** (`MCPayments.cfg`, 22 thousand states). One user, one order, two
callbacks at a time, two exchange rates, both gateways; four interventions
(changes of the settings, roll-backs, crashes, edits and deletions of the user).
Prices are rounded to cents; the cent is worth 4 units, so that no price is a
whole number of cents before it is rounded.

- `OrderCreditedOnce`: one credit per order.
- `CreditsAreEarned`: a credit is its order's amount, for its order's user, and
  the gateway took the whole price the order was placed at.
- `AcknowledgedIsSettled`: "success" is told only for a settled order.
- `RechargesReconcile`: balance = opening + credits.
- `PaymentsSettle`: a whole payment is settled, unless its gateway is not
  the selected one.

Orders meet in the balance only, and a balance is only added to, so one order
shows every race there is; the theorems of section 7 hold for any number.

**chat_run** (`MCChatRun.cfg`, @chat_run). One
run and two sub-agents with a tool call each, their device, a request that stops
the run, two crashes or deletions, and failures of any statement. The bound
`FewThings` says that the second sub-agent starts after or with the first, and
that a run in which it has started meets no crash, no deletion, no failure of a
tool call's statement and at most one call that needs approval: with one
sub-agent, or none, everything is combined with everything.

- `HandedOutOnce`: a task reaches the device at most once.
- `ApprovedFirst`: a task that needs approval reaches it only with it.
- `ClosedStaysClosed`: a task that is over is never opened again, though
  results, time-outs and cancellations are written over one another.
- `LeftoverTasks`: a goroutine that has ended, a run's or a sub-agent's, leaves
  no open task, but for a call of which a statement failed and for the exception
  in section 8.
- `NoCallLeftOpen`: a run that ended by itself shows no tool call, of its own or
  of a sub-agent, as going on, unless a statement of that call failed. The run
  waits for all of its sub-agents, and this is what the waiting is for.
- `RunsEnd`: an active run ends and its log says how, unless the process dies, a
  session or a device is deleted, or the very statement fails that starts the
  run, ends it or writes its closing event.

**chat_session** (`MCChatSession.cfg`, @chat_session).
Two interchangeable runs and two requests that send and stop while the
goroutines work and the statements of runs fail; one round, one crash or
deletion. The bound `QuietCalls` says that no task reaches the device and no
statement of a tool call fails.

- `OneActiveRun`: one active run at a time, although each message interrupts
  and creates in separate transactions.
- `ImplementsRunLife`: every step is a step of `RunLife` or a stutter.

The two chat runs split the size between them: one has depth (sub-agents, tasks,
approvals, failures), the other width (runs and requests). In both an agent has
one round: the calls of two agents meet in every order, those of two rounds
only one after the other. The theorems of section 7 bound neither runs nor
agents, rounds, requests or failures.

**accounts** (`MCAccounts.cfg`, 2 million states, one minute). Two rows and two
requests, each interchangeable; the address of a configured administrator, which
a provider vouches for, and another one; an identity that comes without an
address and is configured too. Three codes, links, administrators' requests or
expiries.

- `AdminsAppointed`: while the site has had an administrator all along, only
  the setup, an administrator or the configuration makes one; no registration
  or sign-in that looked before the setup does.
- `VerifiedIsProven`: a verified address was vouched for by a code or by a
  provider, with the two exceptions of section 8.

Two requests are what a race needs, and two rows let one be the first
administrator's while the other one races with it.

**passkeys** (`MCPasskeys.cfg`, @passkeys). Two users,
two keys that sign twice each, three challenges, two requests, all of them
interchangeable within their kind; one expiry or deletion. Three challenges
are a registration for each key and a sign-in, or one registration and two
sign-ins.

- `SignInsEntitled`: whoever is signed in owns the key that answered, and the
  challenge was one for sign-ins, for that account or for any. Nobody is signed
  in for an account that is gone.
- `AnsweredStaysClosed`: an answer that comes again after its sign-in is over
  is refused.

**channels** (`MCChannels.cfg`, @channels). Two channels
of weights 1 and 2, thresholds of one and two failures, weighted rounds, three draws
(a whole round), two requests of administrators, one proxy request at a time:
reports of the health check are what it races with.

- `ChannelsTypeOK`: types.
- `EnabledIsSound`: an enabled channel has failed fewer times than disabled one
  when its last failure was counted, and bears no trace of an earlier
  switch-off.
- `RoundsFollowWeights`: in a full round each candidate is taken as often as
  its weight says, wherever the counter stood.
- `SwitchedOffComesBack`: a channel that failures switched off is back in the
  end, unless recovery is off or an administrator intervenes.

**pricing** (`MCPricing.cfg`, 301 thousand states, two and a half minutes). Fifteen
bodies of a model (tiers out of order, doubled, invalid, of every condition;
per item; video prices with and without durations), multipliers -2, 0 and 2, six
settings of groups, and answers of every kind whose reports come in every shape
and are converted between all pairs of protocols; one edit between routing and
charging.

- `PricedAsMeant`: each token costs the price the administrator meant for its
  place, computed from the body that was sent, without sorting or segments.
- `EveryTokenPricedOnce`: the tokens of a request are divided among the prices
  without remainder.
- `CatalogIsCharged`: both catalogs show what is charged, but for the
  multiplier of the user's groups.

Tiers start at 0 to 3 and reports count up to 5 tokens, so that every segment
is empty, partly used, exactly used and overrun.

**converted_usage** (`MCConverted.cfg`, module `MCPricing`) expects a violation:
`CachedTokensPricedOnce`, that cached tokens are priced as cached and not as
fresh input as well, is false when an answer is converted to an OpenAI-style
protocol (section 8).

**generations** (`MCGenerations.cfg`, 110 thousand states, one minute). One job
made by one call over three kinds of endpoint (never a row, always a row, a row
for jobs), two polls of two users, a video channel and another one, one word for
each of an upstream's stages; costs 0 and 1.

- `GenerationsArePaid`: every row and every answer given away was paid once,
  at the cost it shows; what is paid without either is a row that could not be
  created.
- `EndingsAreTrue`: a status that says a job is over is true, in the row and
  in every reply, whichever family of endpoints wrote it.
- `SettledRowsChangeLate`: a settled row changes only through a poll that had
  read it before it was settled.
- `EndingsReachTheRow`: a client that keeps asking learns the end.

Jobs do not meet, so one is enough; two polls overtake one another.

**scheduled_tasks** (`MCScheduledTasks.cfg`, @scheduled_tasks). One task of any kind, two goroutines, one request of the user at a
time, one crash. Tasks do not meet either, and three theorems hold for any
number of tasks, goroutines and crashes.

- `StatusTellsWork`: one run at a time; the row says queued or running exactly
  while a goroutine works on it, or after that goroutine was lost.
- `RestsAsAsked`: a row at rest has a next time exactly when its order asks for
  one. An edit that was written while a goroutine had a copy is excepted; a
  row that was created disabled, and one whose start failed and could not read
  it, have none (`timeless`, until it is edited or runs).
- `DueTasksStart`: what is due is started or stops being due, while scheduled
  tasks are allowed.

**model_sync** (`MCModelSync.cfg`, @model_sync).
One channel; the upstream is any of fifteen sites, which spell the same price
books in every form that is read, and are read as eight different lists; the
hourly synchronisation and one administrator, who may give a model either of two
names. Two edits or failures meet the site that sells two models and repeats a
name, one meets the others (`FewEdits`). Five ids of models and eight of configs
are more than that can use up.

- `PricedAsListed`: a row costs what its last writer meant, on sample usages
  below and above every threshold.
- `SyncedConfigsHaveModels`: when a synchronisation creates a config, the model
  it points to is there, or another one that has been given its name; though
  models are deleted and renamed under its hands.
- `ListedIsConfigured`: a model an upstream lists can be reached in the end.

**Mutants.** Every property of every passing run has a mutant in `PROJECT.json`: a
definition replaced by the form a plausible bug would give it (a WHERE clause
without the status, a charge without `balance >= cost`, a transaction that does
not read the order again), under which the run refutes the property. The mutated
forms stand in the modules, before the definition they replace, marked "mutant";
no action uses them.

**Bounds**: `MaxRounds`, `MaxAgents`, `MaxRetries`, `MaxChurn`, `MaxEdits`, `MaxCrashes`
(interventions in all), `MaxFailures`, `MaxCounter`, `MaxSigned`, `MaxRemovals`, and
the sets of values (`Costs`, `Limits`, `Amounts`, `Weights`, `Thresholds`,
`Books`, ...). `FewThings`, `QuietCalls` and `FewEdits` are constraints of a run, named and
explained in its MC module. `churn`,
`edits`, `removals` and `crashes` are counters the code does not have; nothing reads
them but the guards that spend them, and `RunsEnd`.

## 5. What the models leave out

Within the modelled components:

- Billing: the key that older installations keep on the user's row; creation and
  rotation of keys; the price formula (a cost is any member of `Costs`; the
  formula is `PriceBooks`); money as decimals (a model counts a smallest unit).
  Every dashboard session is one kind of caller.
- Payments: the signature and discovery documents; a gateway that takes more
  than the price (it is refused like less); orders that are never paid, which
  simply stay pending.
- Chat runs: texts, the message list, costs (they are rounds of `Billing`); at
  most one tool call per round, where the model may ask for several that are
  executed one after another; the ids of tool calls, taken to be different; the
  events that do not close the log. A number stands for one sub-agent, which is
  started once, and a delegate that splits its work in turn is not modelled.
- Connector tasks: registration and heartbeats, previews, the expansion of a
  payload; the order of the queue (any queued task may be the oldest one).
- Accounts and passkeys: password hashes, user names, tokens, CAPTCHA, the
  configuration of providers, the cryptography of passkeys (an authenticator's
  answer is a record only it can add), referral codes.
- Routing and channels: user channels other than one; what a check displays;
  when a check is due (any enabled channel may be).
- Usage and pricing: the tokenizer (its guess is an input), integer overflow,
  meta models (another edition's), the completion ratios of a catalog, the
  deletion of groups (its effect, a group that is gone, is an input).
- Generations: bodies of requests, the list of a user's tasks, the content
  served for a finished one; `HandleImageGeneration` and `HandleVideoGeneration`,
  to which no route leads; `HandleUploadImage`, which keeps no state.
- Scheduled tasks: the session a run is given and its deletion, the limit of
  twenty tasks a tick takes, the interval's length.
- Synchronisation: providers and icons, endpoint types, a config that changes
  its channel, tables of group multipliers, video and
  cache-write prices (which no list can set), and `fetchUpstreamModelPrices` and
  `fetchAutoModelPrices`, which nothing calls. An administrator applies all the
  prices that were previewed. A sample usage never meets a threshold exactly,
  and two forms are not among the sites (section 8).

Not modelled at all: check-in, the status monitor, files, delivery and the MCP client, the database layer and the shell, the edition
hooks, for the reasons in section 1 and in `PROJECT.json`.

## 6. Fairness

Safety needs none. Six properties need it. Except where it is said below, nothing
is assumed of users, devices and administrators, who may do nothing, or of
crashes and failures, which may or may not happen.

`PaymentsFairSpec`: strong fairness of the gateway's notification of each order
(a gateway repeats it until it is answered with "success", so if it could be
verified again and again it is verified sometime, although goroutines come and
go), and weak fairness of each callback that is being served (net/http runs it;
the handler waits for nothing but the database). Interventions are bounded, so
roll-backs and crashes do not go on for ever.

`ChatFairSpec`: weak fairness of every goroutine, a run's or a sub-agent's, and
of every handler. Every wait of a goroutine ends. Calls of the model and of
tools have time-outs or the deadline of the run's context, and the poll of a
task has one of its own. A run that waits for its sub-agents waits for
goroutines that end. One lock is held across calls, that of the agent studio
(`withAdvancedChatAgentStudioLock`, advanced_chat_agent_studio.go:232), for as
long as an agent of a group works with tools that execute: only a chief, or a
run without a group's agent, may delegate, and the agents it delegates to are
not given agent_delegate, so that whoever holds a lock of this kind never waits
for another one, and whoever waits for it waits for calls that have time-outs. A
run ends though nobody approves and no device answers.

`ChannelsFairSpec`: weak fairness of `checkChannel` (each check has a deadline),
strong fairness of `recoverAutoDisabledChannels`: the ticker comes by again and
again, between scans, and one day the waiting time of a channel is over.

`GenerationsFairSpec`: weak fairness of each poll that was accepted. The
property speaks of a client that keeps asking, over the endpoints that poll
every protocol, of an upstream that says how a job ended sometime when it is
asked over and over, and of a write that succeeds sometime when it is tried over
and over: these are three strong fairness conditions, one each, per job.

`ScheduledTasksFairSpec`: weak fairness of the goroutines (runs end: that is
`RunsEnd` of `ChatRun`; one whose last statement fails keeps an active row, but
its goroutine ends, and that is what the scheduler's goroutine waits for), strong fairness of the tick for each task, since the
ticker comes by every thirty seconds and, in the program, always finds a
goroutine: `Workers` bounds a number that is not bounded there.

`SyncFairSpec`: the hour comes round for each channel that is on (strong
fairness of `SyncChannel`, as the single worker may be busy with another one),
and the hourly goroutine goes on (weak fairness of its statements).

## 7. Proofs

The modules `...Proofs` and `CollectionLemmas` are checked by TLAPS, for all
values of the constants under the assumptions named in the modules:
`BalancesAssumption`, `BillingAssumption` (owners and referrers are users, the
ids of nobody are not, limits are naturals, costs and rates are integers),
`PaymentsAssumption`, `RoundsAssumption`, `ChatAssumption`,
`AccountsAssumption`, `PasskeysAssumption`, `RoutingAssumption`,
`ChannelsAssumption`, `GenerationsAssumption`, `NoneAssumption`,
`ScheduledTasksAssumption` (no row, no time and nothing read are different from
rows, times and tasks; weights and thresholds are numbers), `PricingAssumption`
(bodies are of the type the handler decodes, groups are finitely many, reports
carry numbers) and `SyncAssumption` (what is read of a list has the type of what
is stored). TLC evaluates every assumption on the instances of the runs. One
theorem has a hypothesis besides, which is discussed below. The proofs of
`Billing` and `Payments` share `WalletProofs`, those of `Pricing` and
`ModelSync` share `PricingProofs`.

| Theorem | Statement |
|---------|-----------|
| `TypeCorrect` | `BillingSpec => []BillingTypeOK` |
| `SingleCharge` | `BillingSpec => []NeverBilledTwice` |
| `PaidBeforeDelivered` | `BillingSpec => []DeliveredIsBilled` |
| `CommissionsAreBacked` | `BillingSpec => []CommissionsBacked` |
| `NoOverdraft` | `BillingSpec => OnlyAdminOverdraws` |
| `LedgerBalances` | `BillingSpec => []LedgerReconciles` |
| `QuotaKept` | `BillingSpec => []QuotaHonoured` |
| `PaymentsTypeCorrect` | `PaymentsSpec => []PaymentsTypeOK` |
| `CreditedOnce` | `PaymentsSpec => []OrderCreditedOnce` |
| `EarnedCredits` | `PaymentsSpec => []CreditsAreEarned` |
| `SettledBeforeAcknowledged` | `PaymentsSpec => []AcknowledgedIsSettled` |
| `RechargesBalance` | `PaymentsSpec => []RechargesReconcile` |
| `ChatTypeCorrect` | `ChatSpec => []ChatTypeOK` |
| `LifeInvariance` | `ChatSpec => []LifeInv` |
| `SingleActiveRun` | `ChatSpec => []OneActiveRun` |
| `RunLifeRefined` | `ChatSpec => ImplementsRunLife` |
| `HandedOutAtMostOnce` | `ChatSpec => []HandedOutOnce` |
| `ApprovedBeforeHandedOut` | `ChatSpec => []ApprovedFirst` |
| `ClosedForGood` | `ChatSpec => ClosedStaysClosed` |
| `NoTaskForgotten` | `ChatSpec => []LeftoverTasks` |
| `EveryCallClosed` | `ChatSpec => []NoCallLeftOpen` |
| `AccountsTyped` | `AccountsSpec => []AccountsTypeOK` |
| `VerifiedMeansProven` | `AccountsSpec => []VerifiedIsProven` |
| `AdministratorsAppointed` | `AccountsSpec => AdminsAppointed` |
| `PasskeysTyped` | `PasskeysSpec => []PasskeysTypeOK` |
| `SignInsOwned` | `PasskeysSpec => []SignInsEntitled` |
| `NoAnswerAgain` | `PasskeysSpec => AnsweredStaysClosed` |
| `ChannelsTyped` | `ChannelsSpec => []ChannelsTypeOK` |
| `EnabledChannelsSound` | `ChannelsSpec => []EnabledIsSound` |
| `RoundsShared` | `ChannelsSpec => []RoundsFollowWeights` |
| `GenerationsTyped` | `GenerationsSpec => []GenerationsTypeOK` |
| `PaidOnce` | `GenerationsSpec => []GenerationsArePaid` |
| `EndingsTrue` | `GenerationsSpec => []EndingsAreTrue` |
| `SettledLate` | `GenerationsSpec => SettledRowsChangeLate` |
| `TasksTyped` | `ScheduledTasksSpec => []ScheduledTasksTypeOK` |
| `WorkIsTold` | `ScheduledTasksSpec => []StatusTellsWork` |
| `TasksRestAsAsked` | `ScheduledTasksSpec => []RestsAsAsked` |
| `PricingIsTyped` | `PricingSpec => []PricingInv` |
| `TokensArePricedOnce` | `PricingSpec => []EveryTokenPricedOnce` |
| `TokensCostWhatIsMeant` | `PricingSpec => []PricedAsMeant` |
| `CatalogsAreCharged` | `PricingSpec => []CatalogIsCharged` |
| `SyncIsTyped` | `SyncSpec => []SyncTyped(PricedItem, ModelRow)` |
| `PricesAreAsListed` | `ListsSayWhatIsMeant` implies `SyncSpec => []PricedAsListed` |
| `SyncedConfigsAreServed` | `SyncSpec => SyncedConfigsHaveModels` |

`NeverBilledTwice` is not inductive: a request about to be charged must be known
to have no log for its round. `BillingInv` therefore also says where a request
stands against its logs (`RoundsInOrder`: logs of a request are of rounds not
above its own, and the current round has one only when the program counter is
past the charge), that every round before the current one is logged
(`PastRoundsLogged`), and whom a request serves (`CallerKnown`: a key whose
owner is gone authenticates the zero user, which the balance check refuses).

The books are sums over tables. `CollectionLemmas` derives what the proofs need
of a sum from its recursive definition, without a theorem that takes an operator:
an induction over numbers is an induction over the set of those that satisfy
the claim (`SetInduction`, from a least number that does not, which exists
because `<` is well-founded). That the recursion defines a function at all
(`IterDefined`) is the long part; then a sum does not depend on the order in
which `CHOOSE` takes its members (`SumRemove`), grows by what is added
(`SumGrows`) and depends on its own summands only (`SumAgrees`). In the same
way a fold is what its steps make of it (`FoldExists`), and a finite set has
exactly one line in a strict order (`LineExists`, `LineUnique`).
`LedgerBalances` and `QuotaKept` then go over each action: a charge adds one log
to the sum of one user, of at most one other (the commission) and of one key in
its window, and a reset, a retention or a deletion leaves older sums alone.
Neither needs an invariant beyond `BillingInv`: what a request remembers of its
key was written into its log.

`PaymentsInv` adds to the types and the properties that a callback serves a
trade that exists and that a settled one serves a paid order
(`CallbacksOnTrades`), and that a trade belongs to a placed order
(`TradesOfPlacedOrders`); with them, reading the order again in the transaction
is what makes the credit unique. `RechargesBalance` adds the sum of the
credits, as above.

`LifeInv` is what the goroutines and the requests of a session know.
`GoroutinesKnow`: which rows and which closing events each program counter
allows; a goroutine that has won the race to end its run is the only one to
write the closing event. `AgentsKnow`: a sub-agent is at work only while its
run's goroutine waits for it, and is dead only with it, so that a run that goes
on has no sub-agent left that does. `HandlersKnow` says the same of a request between its
UPDATE and its event, `HandlersApart` that two requests never hold the same
run's cancellation or the same new run. The refinement follows: the race is
decided by the guarded UPDATE, and the loser finds the row ended and leaves the
log alone. `TaskInv` adds the rows of the tasks: a
task that nobody claimed was never handed out and, once queued, has the approval
it needs (`WaitingTasks`); a call its agent has not reached has no row, no
approval and no device (`FreshCalls`), which is why a new row cannot reopen an
old one. `ShownInv` says, agent by agent, who will close what is open: a call
that is shown as going on is the agent's current one, at a step from which it
will be closed, or a statement of it failed (`CallShown`), and an open task has
a goroutine that waits for it, or one of the excuses in section 8 (`Held`,
`missed`); a goroutine that may still end its run finds it neither completed nor
failed (`LiveRuns`). The statements that fail cost the theorems nothing else: a
run that stays active by an error (`adrift`) is still the only one, and one
without a closing event has no second end.

`AccountsInv` is what the requests know (`RequestsSound`). `Shown`: an address a
request has had confirmed is in `proven`, an identity that is linked or bound was
reported by its provider, and a password is changed only for a row that still
has the confirmed address. `Entitled`: a request that is about to make an
administrator has the configuration on its side, or the site had lost its last
one. For that, `QuietBeforeSetup` is needed: until the setup there is no
account, no bind and no request, so nobody who was admitted can have found the
site without an administrator it had never had. `AdministratorsAppointed` is an
action property: with the invariant, each statement that writes the right is one
of those the property allows.

`PasskeysInv` ties a request to rows that other requests delete: its challenge
was in use and keeps its purpose and its account, its key has the owner it was
registered with (`KnowsItsRows`), every answer is to a challenge for sign-ins
(`SignedByKey`), and the challenge of a finished sign-in is gone. What no step
takes back is one formula, `PasskeysKeep`; each action keeps it.

`ChannelsInv` adds to `EnabledIsSound` that the copy an administrator is about
to save is as sound as the row it was read from (`CopySound`). Soundness is
measured by the threshold with which the last failure was compared, which the
row carries; of the threshold of the moment nothing could be said, since it
may be lowered at any time. `RoundsInv` is
about the draws: the candidates a request waits with are a line, and the draws
since the candidates changed are consecutive positions of the counter
(`Window`). The rest is arithmetic: the partial sums of shares cut the round
into intervals, one per candidate (`BeforeOrdered`, `HolderOfPosition`), and
consecutive numbers modulo the length of a round meet every position once, so a
candidate is drawn as often as its interval is long (`RotationVisitsAll`,
`RoundIsShared`), wherever the counter stood. That the query's line exists
(`CandidatesExist`) is proved from the rank of a channel among the others.

`GenerationsInv` says of a running call that its job is its own and that what it
paid is one charge of its cost (`CallSound`), of a job nobody began that it has
no trace (`JobsSound`), and of a poll that what it copied was true of the row
when it was read and still is (`PollSound`: jobs end once, and a word one family
of endpoints wrote means the same to the other, `NormalStays` and its
neighbours). `SettledLate` follows from the last part: a poll that still asks
holds a copy that was not over.

`WorkInv` of `ScheduledTasksProofs` is about who works on a task: at most one
goroutine is past its claim of a row (`OneWorker`), a busy row has one or was
orphaned (`BusyIsWorked`), a worked row is busy (`WorkedIsBusy`; with it the
conditional UPDATE of the claim keeps `OneWorker`), and nobody knows a task
before it has a row (`UnbornUntouched`). `TimesInv` adds why times written from
a copy are right: unless an edit overlapped, a copy is the order of the row, or
both are orders to run once, of which only the flag may have changed, or the
copy is the empty one of a start that could not read its row and is about to
leave it without a time (`CopiesAgree`), and who works on a task has started it (`WorkersStarted`).

`PricingInv` is small: the row of the model is what `modelFromInput` makes of
the body that was saved last, and so were the rows a request was routed with; a
bill has counts that fit into one another, and the cost its rows make of them. What the properties say is then about operators.
`EveryTokenPricedOnce`: whatever a report says, `normalizeUsageTokenCounts`
leaves counts in which caches fit into the input (`CountsNormal`), and the
`Parts` of such counts are never negative and add up (`PartsDivide`).
`PricedAsMeant`: what is stored is a line of tiers, sorted and without a
double, whose members are the last valid ones of each start
(`NormalizedIsKept`, `OneLine`); normalising again changes nothing
(`NormalizeIdempotent`), so that prices that were stored, shown and charged
agree. The price meant for a token is that of the segment it lies in
(`PlainIsSorted`, `MeantInTier`), and by an induction along the line the walk
over the segments has charged, at each tier, what was meant for the tokens
before it (`WalkAddsUp`). `CatalogIsCharged`: multiplying by a number above zero
keeps a line a line (`TimesIsNormal`) and multiplies every walk, the progressive
one (`SegmentsScale`) and the conditional one (`BestScales`), and so a sheet
whose prices are a multiple has costs that are that multiple (`MultipleCosts`).

The synchronisation is typed once for all (`SyncStepTyped`): for any two sets
`Items` and `Rows` such that what is written of an item is a row, and what is
edited in a row is a row (`Closed`), every item a worker holds is of the one,
and every row in the table or in somebody's hands of the other. `SyncIsTyped` takes
all items and rows. `PricesAreAsListed` takes the items whose prices, as they are
written, cost what they mean, and the rows that cost what their last writer
meant: there is no worker, between any two statements, from whose hands a row
of mixed prices could reach the table. Its hypothesis, `ListsSayWhatIsMeant`,
says that the items the server reads of an upstream are such items. It is about
`PriceLists`, whose recursion no prover can unfold, and the sites of model_sync
satisfy it: in the run each of their items is written to a fresh row, which
`PricedAsListed` compares. The theorem proves what the run cannot: any number of
channels, workers, models and edits.

`SyncedConfigsHaveModels` needs `NamesAgree`. Whoever is about to create a config
holds the row it found or made for its item, which may have been deleted or
renamed since. If it was deleted, it is inserted again with the config, unless
its name has been given to another row, which then serves. If it was renamed it
is there still. For either it must be known that the row in hand has the item's
name: it had when it was found, and nobody writes into another one's hands.

Each invariant has lemmas per group of actions, one step per action; a PTL step
concludes. The invariants were first checked with TLC.

Proving changed the models in a few places. The `CASE`s of a tiered cost and of a
group's multiplier had arms that overlap, of which TLC takes the first and the
logic any; they are `IF`s now, in the order of the code's returns. What comes
from outside was untyped where the code has a type (a decoded body, a report, an
item of a list); the assumptions on the constants say it now.

Only model-checked:

- what `PriceLists` makes of a document, that is `ListsSayWhatIsMeant`;
- the liveness properties `PaymentsSettle`, `RunsEnd`, `SwitchedOffComesBack`,
  `EndingsReachTheRow`, `DueTasksStart` and `ListedIsConfigured`, which are out
  of TLAPS's reach.

## 8. What the code does that may surprise

One thing contradicts what the repository says of itself:

- **Cached tokens of a converted answer are billed twice** (run
  converted_usage). `todo.md` records cached-input pricing for billing as done,
  and `model/models.go` calls the price one for cached input. A converted answer
  is billed from the body written for the client. The OpenAI-style bodies write
  the whole input with the cached tokens in it, and always the field
  `cache_creation_input_tokens`, also when it is 0; the parser takes the
  presence of that field for a sign that caches are not in the input, and adds
  the cached tokens to it once more. Four input tokens of which three were
  cached are billed as four fresh ones and three cached ones.

The rest are consequences of the code, which the models follow.

- Multipliers below zero are not refused by the handlers that set them, and give
  costs below zero. Such a cost is logged, counts against a key's quota as it is,
  and moves no money: `ApplyUsageCharge` passes over it. The logs then add up to
  less than was charged; `LedgerReconciles` counts positive costs.
- A stream is delivered before it is charged; when the charge is refused it is
  delivered unpaid. `DeliveredIsBilled` excludes streams.
- An administrator's edit of a balance overwrites charges committed since the
  page was read. `opening` accounts for it.
- An order whose gateway is deselected is not settled until it is selected
  again (`PaymentsSettle` says so).
- A tool call may be recorded as running after its run was stopped: the status
  is read before the record is written. `NoCallLeftOpen` is about runs that
  ended by themselves.
- A stop between the creation of a task that waits for approval and the record
  of its tool call leaves a pending approval that belongs to a cancelled run.
  `LeftoverTasks` names this exception.
- A time-out may overwrite a result that came at the same moment, and a late
  result may overwrite a time-out; both are closed, and stay so.
- After a crash a run stays active in the table until somebody sends a message
  or stops it; `RunsEnd` therefore excludes crashes. It also stays active when
  the statement fails that starts or ends it, since those errors are dropped,
  and its log stays without an end when that of the closing event fails.
- When a statement of a tool call fails, the call may stay shown as going on in
  a run that is over, and its task open. `NoCallLeftOpen` and `LeftoverTasks`
  name such calls (`missed`).
- The first administrator's address is taken on trust, and so is that of an
  account whose registration had begun when codes were not required and was
  written when they were: the setting is read twice. `VerifiedIsProven` names
  both.
- An identity whose claimed address is configured as an administrator's raises
  the account it is bound to, whatever that account's own address is. A site
  that has lost its last administrator makes one of the next user who comes by.
- Two overlapping requests with the same passkey answer may both be served:
  the challenge is read, then deleted. The stored count of signatures may go
  back when two sign-ins overlap.
- A threshold of failures that is lowered is not applied to what was counted
  before: a channel with more failures stays enabled until the next one.
- A save of a channel, a model or a config that was deleted since it was read
  inserts the row again. `EnabledIsSound` excepts channels brought back so.
- A user channel's multiplier of zero is charged as one, and shown as zero by
  the catalogs. One below zero is not refused (`UserChannelAPI.Create` and
  `Update`): tiers with a negative price are dropped whenever a list is
  normalised, so that the catalogs would show fewer tiers than are charged.
  `CatalogIsCharged` speaks of multipliers above zero.
- A video or image job is charged before its row exists; when the insert fails
  the caller has paid for a task nobody can poll. A task that fails is not
  refunded. A poll of a task whose upstream gave no id never asks again.
- An edit of a scheduled task that is written while a goroutine holds a copy of
  it may lose its times; a crash, or an error of the last statement, leaves its
  row busy for good: it is not started again, and its owner can neither edit nor
  delete it. The claim does not ask again whether the task is due.
- A scheduled task that is created disabled is stored enabled, without a next
  time: it does not start by itself, but an interval that is started by hand
  then goes on. When a start fails and the row cannot be read for its next
  time, the row loses it.
- An hourly synchronisation switches a config on again that an administrator
  switched off. Editing a config switches its model on, and gives it the name in
  the body. A config whose model is renamed keeps the upstream's name.
- In a billing expression the threshold itself is charged at the upper tier,
  also when it is written with `<=`. Per-call models that are nested objects in
  a map split by field lose their quota type, and where a list has both a ratio
  and a generic price the cached price depends on the form it comes in: neither
  is among the sites of model_sync.
- A channel that is deleted leaves its configs behind. Two synchronisations may
  give one channel and model two configs.

## 9. How to run

    tlc -workers 2 -config MCBilling.cfg MCBilling.tla
    tlc -workers 2 -config MCPayments.cfg MCPayments.tla
    tlc -workers 2 -config MCChatRun.cfg MCChatRun.tla
    tlc -workers 2 -config MCChatSession.cfg MCChatRun.tla
    tlc -workers 2 -config MCAccounts.cfg MCAccounts.tla
    tlc -workers 2 -config MCPasskeys.cfg MCPasskeys.tla
    tlc -workers 2 -config MCChannels.cfg MCChannels.tla
    tlc -workers 2 -config MCPricing.cfg MCPricing.tla
    tlc -workers 2 -config MCConverted.cfg MCPricing.tla     (finds a violation)
    tlc -workers 2 -config MCGenerations.cfg MCGenerations.tla
    tlc -workers 2 -config MCScheduledTasks.cfg MCScheduledTasks.tla
    tlc -workers 2 -config MCModelSync.cfg MCModelSync.tla
    tlapm CollectionLemmas.tla
    tlapm WalletProofs.tla
    tlapm ChatRunProofs.tla
    tlapm ScheduledTasksProofs.tla
    tlapm AccountsProofs.tla
    tlapm ChannelsProofs.tla
    tlapm GenerationsProofs.tla
    tlapm PricingProofs.tla
