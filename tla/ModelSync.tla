------------------------------ MODULE ModelSync ------------------------------
(***************************************************************************)
(* The tables of models and of their channels, and who writes them.        *)
(*                                                                         *)
(* Every hour each channel's upstream is asked for the names of its        *)
(* models; an administrator does the same by hand, takes prices over from  *)
(* a list they were shown, and edits both tables.  Every item of a list is *)
(* a chain of statements of its own, and an error ends the rest.           *)
(***************************************************************************)
EXTENDS PriceBooks

CONSTANTS
    Channels,
    Names,          \* names of models
    Sites,          \* what may be read of upstreams: names, previews of them, items with prices
    Books,          \* prices an administrator may enter
    ModelIds, ConfigIds,    \* ids of rows, given out in order
    Background, Handlers,   \* the hourly synchronisation; requests of administrators
    Unborn, Gone,   \* no row yet, no row any more
    None,           \* no channel, no config
    MaxEdits        \* bound: what administrators do and what goes wrong

(* The prices of a row that a synchronisation writes, and what it reads.   *)
Book == [quota: Quotas, price: [TextUnits -> Int], tiers: [TextUnits -> Seq(TierRow)]]

NamedItem ==
    [name: STRING, quota: Quotas, price: [TextUnits -> Int], tiers: [TextUnits -> Seq(TierRow)]]

PricedItem ==
    [name: STRING, quota: Quotas, price: [TextUnits -> Int], tiers: [TextUnits -> Seq(TierRow)],
     meant: Book]

(* A row carries a history with it: the prices meant by who wrote it.      *)
ModelRow == [name: STRING, book: Book, enabled: BOOLEAN, meant: Book]

ASSUME SyncAssumption ==
    /\ Names \subseteq STRING /\ Books \subseteq Book
    /\ \A s \in Sites :
         /\ s.names \in Seq(NamedItem) /\ s.items \in Seq(PricedItem)
         /\ \A preview \in s.previews : preview \in Seq(NamedItem)
    /\ Unborn # Gone /\ Unborn \notin ModelRow /\ Gone \notin ModelRow

VARIABLES
    site,           \* EXTERNAL: what is read of the channels' upstream, one of Sites
    channels,       \* the channels table: "on", "off" or None
    models,         \* the models table
    configs,        \* the model_configs table
    worker,         \* the synchronisations and handlers at work
    shown,          \* the price items an administrator has before them
    edits           \* what the bound counts (nothing else reads it)

syncVars == <<site, channels, models, configs, worker, shown, edits>>

Workers == Background \cup Handlers

Free == [quota |-> "token", price |-> [unit \in TextUnits |-> 0], tiers |-> [unit \in TextUnits |-> <<>>]]

Written(item) ==
    [quota |-> item.quota, price |-> item.price,
     tiers |-> [unit \in TextUnits |-> NormalizePriceTiers(item.tiers[unit])]]

Row(name, book, meant) == [name |-> name, book |-> book, enabled |-> TRUE, meant |-> meant]

Config(c, id, name) == [channel |-> c, model |-> id, upstream |-> name, enabled |-> TRUE]

Idle == [pc |-> "idle"]

In(table, id) == table[id] \notin {Unborn, Gone}

Named(name) == {id \in ModelIds : In(models, id) /\ models[id].name = name}

(* Names are unique, channels and models of a config are not checked.      *)
Fresh(table, id) == table[id] = Unborn /\ \A k \in DOMAIN table : k < id => table[k] # Unborn

FirstConfig(c, id) ==
    {k \in ConfigIds : In(configs, k) /\ configs[k].channel = c /\ configs[k].model = id
        /\ \A j \in 1 .. k - 1 : ~(In(configs, j) /\ configs[j].channel = c /\ configs[j].model = id)}

Model(id, row) == models' = [models EXCEPT ![id] = row]
ModelConfig(id, row) == configs' = [configs EXCEPT ![id] = row]
Becomes(w, q) == worker' = [worker EXCEPT ![w] = q]

Edit == edits < MaxEdits /\ edits' = edits + 1

SyncInit ==
    /\ site \in Sites
    /\ channels = [c \in Channels |-> "on"]
    /\ models = [id \in ModelIds |-> Unborn]
    /\ configs = [id \in ConfigIds |-> Unborn]
    /\ worker = [w \in Workers |-> Idle]
    /\ shown = <<>>
    /\ edits = 0

-----------------------------------------------------------------------------
(* Synchronising the models of a channel.                                  *)

Sync(w, kind, c, items) ==
    Becomes(w, IF items = <<>> THEN Idle ELSE [pc |-> "find", kind |-> kind, channel |-> c, todo |-> items])

(* SyncAll takes the channels that are on, the button any it is given.     *)
SyncChannel(w, c) ==
    /\ worker[w] = Idle
    /\ channels[c] = "on" \/ (w \in Handlers /\ channels[c] = "off")
    /\ Sync(w, "models", c, site.names)
    /\ UNCHANGED <<site, channels, models, configs, shown, edits>>

ApplyChannelModels(w, c, items) == Sync(w, "models", c, items)

(* The administrator selects among the names of a preview, which shows     *)
(* each of them once.                                                      *)
ApplySync(w, c, name) ==
    /\ worker[w] = Idle /\ channels[c] # None
    /\ \E preview \in site.previews : \E i \in DOMAIN preview :
         preview[i].name = name /\ ApplyChannelModels(w, c, <<preview[i]>>)
    /\ Edit /\ UNCHANGED <<site, channels, models, configs, shown>>

Item_(w) == Head(worker[w].todo)

NextItem(w) ==
    Becomes(w, IF Len(worker[w].todo) = 1 THEN Idle
               ELSE [pc |-> "find", kind |-> worker[w].kind, channel |-> worker[w].channel,
                     todo |-> Tail(worker[w].todo)])

(* A worker is at pc next, and keeps what it knows with what more it does. *)
Goes(w, pc, more) ==
    LET q == worker[w] IN
    Becomes(w, [x \in DOMAIN q \cup DOMAIN more |->
                  IF x = "pc" THEN pc ELSE IF x \in DOMAIN q THEN q[x] ELSE more[x]])

SyncUnchanged == UNCHANGED <<site, channels, shown, edits>>

(* ensureGlobalModel and upsertGlobalModelPrice look the name up first.    *)
FindModel(w) ==
    LET q == worker[w]
        ids == Named(Item_(w).name)
    IN
    /\ q.pc = "find"
    /\ \/ /\ ids = {} /\ Goes(w, "insert", <<>>)
       \/ \E id \in ids :
            Goes(w, IF q.kind = "models" THEN "config" ELSE "prices", [id |-> id, row |-> models[id]])
    /\ UNCHANGED <<models, configs>> /\ SyncUnchanged

(* A name that was taken meanwhile is an error.                            *)
InsertModel(w, id) ==
    LET q == worker[w]
        row == IF q.kind = "models" THEN Row(Item_(w).name, Free, Free)
               ELSE Row(Item_(w).name, Written(Item_(w)), Item_(w).meant)
    IN
    /\ q.pc = "insert"
    /\ IF Named(Item_(w).name) # {} THEN Becomes(w, Idle) /\ UNCHANGED models
       ELSE /\ Fresh(models, id) /\ Model(id, row)
            /\ IF q.kind = "models" THEN Goes(w, "config", [id |-> id, row |-> row]) ELSE NextItem(w)
    /\ UNCHANGED configs /\ SyncUnchanged

FindConfig(w) ==
    LET q == worker[w]
        found == FirstConfig(q.channel, q.id)
    IN
    /\ q.pc = "config"
    /\ \/ found = {} /\ Goes(w, "create", <<>>)
       \/ \E k \in found : Goes(w, "update", [config |-> k])
    /\ UNCHANGED <<models, configs>> /\ SyncUnchanged

UpdatedNameOnly(k, name) ==                    \* mutant: what is off stays off
    [configs[k] EXCEPT !.upstream = name]

(* A config that somebody switched off is on again.                        *)
Updated(k, name) == [configs[k] EXCEPT !.upstream = name, !.enabled = TRUE]

UpdateConfig(w) ==
    LET k == worker[w].config IN
    /\ worker[w].pc = "update"
    /\ IF In(configs, k) THEN ModelConfig(k, Updated(k, Item_(w).name)) ELSE UNCHANGED configs
    /\ NextItem(w)
    /\ UNCHANGED models /\ SyncUnchanged

WithoutModel(q) == models                      \* mutant: the row alone is created

(* The model is inserted with it where its row is gone, unless its name    *)
(* is another's by now.                                                    *)
WithModel(q) ==
    IF In(models, q.id) \/ Named(q.row.name) # {} THEN models ELSE [models EXCEPT ![q.id] = q.row]

CreateConfig(w, k) ==
    LET q == worker[w] IN
    /\ q.pc = "create" /\ Fresh(configs, k)
    /\ ModelConfig(k, Config(q.channel, q.id, Item_(w).name))
    /\ models' = WithModel(q)
    /\ NextItem(w)
    /\ SyncUnchanged

-----------------------------------------------------------------------------
(* Taking prices over.                                                     *)

PreviewPrices(c) ==
    /\ channels[c] # None
    /\ shown' = site.items
    /\ Edit /\ UNCHANGED <<site, channels, models, configs, worker>>

ApplyGlobalModelPrices(w, c, items) == Sync(w, "prices", c, items)

ApplyPriceSync(w, c) ==
    /\ worker[w] = Idle /\ channels[c] # None /\ shown # <<>>
    /\ ApplyGlobalModelPrices(w, c, shown)
    /\ shown' = <<>>
    /\ UNCHANGED <<site, channels, models, configs, edits>>

(* All columns in one statement; a row that is gone is not written.        *)
WritePrices(w) ==
    LET id == worker[w].id IN
    /\ worker[w].pc = "prices"
    /\ IF In(models, id)
       THEN Model(id, [models[id] EXCEPT !.book = Written(Item_(w)),
                                         !.meant = Item_(w).meant])
       ELSE UNCHANGED models
    /\ NextItem(w)
    /\ UNCHANGED configs /\ SyncUnchanged

-----------------------------------------------------------------------------
(* Editing by hand.  Whole rows are read, changed and saved.  A model may  *)
(* be given another name wherever a body names it; one that is left out    *)
(* stays as it is.                                                         *)

(* Saving a row that is gone inserts it again, and the default of the      *)
(* enabled column takes the place of FALSE.                                *)
Saved(table, id, row) == IF In(table, id) THEN row ELSE [row EXCEPT !.enabled = TRUE]

CanSave(id, row) == Named(row.name) \subseteq {id}

CreateModel(id, name, book) ==
    /\ Fresh(models, id) /\ Named(name) = {}
    /\ Model(id, Row(name, Written(book), book))
    /\ Edit /\ UNCHANGED <<site, channels, configs, worker, shown>>

ReadModel(w, id) ==
    /\ worker[w] = Idle /\ In(models, id)
    /\ Becomes(w, [pc |-> "edit", id |-> id, row |-> models[id]])
    /\ Edit /\ UNCHANGED <<site, channels, models, configs, shown>>

UpdateModel(w, book, enabled) ==
    LET q == worker[w] IN
    /\ q.pc = "edit"
    /\ \E name \in Names \cup {q.row.name} :
         LET row == [q.row EXCEPT !.name = name, !.book = Written(book), !.meant = book,
                                  !.enabled = enabled]
         IN IF CanSave(q.id, row) THEN Model(q.id, Saved(models, q.id, row)) ELSE UNCHANGED models
    /\ Becomes(w, Idle)
    /\ UNCHANGED configs /\ SyncUnchanged

(* One transaction with the configs of the model.                          *)
DeleteModel(id) ==
    /\ In(models, id)
    /\ Model(id, Gone)
    /\ configs' = [k \in ConfigIds |->
         IF In(configs, k) /\ configs[k].model = id THEN Gone ELSE configs[k]]
    /\ Edit /\ UNCHANGED <<site, channels, worker, shown>>

(* globalModelFromInput: the model is looked up by its id, or by its name  *)
(* where none is given; it is named, switched on and saved.                *)
CreateChannelModel(w, c, name) ==
    /\ worker[w] = Idle
    /\ \/ /\ Named(name) = {}
          /\ Becomes(w, [pc |-> "new", config |-> None, copy |-> Config(c, 0, name), row |-> Row(name, Free, Free)])
       \/ \E id \in {id \in ModelIds : In(models, id)} :
            Becomes(w, [pc |-> "save", config |-> None, copy |-> Config(c, id, name), id |-> id,
                        row |-> [models[id] EXCEPT !.name = name, !.enabled = TRUE]])
    /\ Edit /\ UNCHANGED <<site, channels, models, configs, shown>>

(* A body may move the config to another model.                            *)
UpdateChannelModel(w, k, id, enabled) ==
    /\ worker[w] = Idle /\ In(configs, k)
    /\ Becomes(w, [pc |-> "model", config |-> k,
                   copy |-> [configs[k] EXCEPT !.model = id, !.enabled = enabled]])
    /\ Edit /\ UNCHANGED <<site, channels, models, configs, shown>>

ReadModelOf(w) ==
    LET q == worker[w]
        id == q.copy.model
    IN
    /\ q.pc = "model"
    /\ IF In(models, id)
       THEN \E name \in Names \cup {models[id].name} :
              Goes(w, "save", [id |-> id, row |-> [models[id] EXCEPT !.name = name, !.enabled = TRUE]])
       ELSE Becomes(w, Idle)
    /\ UNCHANGED <<models, configs>> /\ SyncUnchanged

InsertModelOf(w, id) ==
    LET q == worker[w] IN
    /\ q.pc = "new"
    /\ IF Named(q.row.name) # {} THEN Becomes(w, Idle) /\ UNCHANGED models
       ELSE /\ Fresh(models, id) /\ Model(id, q.row)
            /\ Becomes(w, [q EXCEPT !.pc = "config saved", !.copy.model = id])
    /\ UNCHANGED configs /\ SyncUnchanged

SaveModelOf(w) ==
    LET q == worker[w] IN
    /\ q.pc = "save"
    /\ IF CanSave(q.id, q.row) THEN Model(q.id, q.row) /\ Goes(w, "config saved", <<>>)
       ELSE Becomes(w, Idle) /\ UNCHANGED models
    /\ UNCHANGED configs /\ SyncUnchanged

SaveConfig(w, k) ==
    LET q == worker[w] IN
    /\ q.pc = "config saved"
    /\ IF q.config = None THEN Fresh(configs, k) ELSE k = q.config
    /\ ModelConfig(k, Saved(configs, k, q.copy))
    /\ Becomes(w, Idle)
    /\ UNCHANGED models /\ SyncUnchanged

DeleteChannelModel(k) ==
    /\ In(configs, k)
    /\ ModelConfig(k, Gone)
    /\ Edit /\ UNCHANGED <<site, channels, models, worker, shown>>

(* The configs of a channel that is deleted stay behind.                   *)
SetChannel(c, to) ==
    /\ channels[c] # None
    /\ channels' = [channels EXCEPT ![c] = to]
    /\ Edit /\ UNCHANGED <<site, models, configs, worker, shown>>

-----------------------------------------------------------------------------
(* A statement fails, or the process dies: the rest is not done.           *)
Fail(w) ==
    /\ worker[w] # Idle
    /\ Becomes(w, Idle)
    /\ Edit /\ UNCHANGED <<site, channels, models, configs, shown>>

Syncing(w) ==
    \/ FindModel(w)
    \/ \E id \in ModelIds : InsertModel(w, id)
    \/ FindConfig(w)
    \/ UpdateConfig(w)
    \/ \E k \in ConfigIds : CreateConfig(w, k)
    \/ WritePrices(w)

Editing(w) ==
    \/ \E id \in ModelIds : ReadModel(w, id) \/ InsertModelOf(w, id)
    \/ \E book \in Books, enabled \in BOOLEAN : UpdateModel(w, book, enabled)
    \/ \E c \in Channels, name \in Names : CreateChannelModel(w, c, name)
    \/ \E k \in ConfigIds, id \in ModelIds, enabled \in BOOLEAN : UpdateChannelModel(w, k, id, enabled)
    \/ ReadModelOf(w)
    \/ SaveModelOf(w)
    \/ \E k \in ConfigIds : SaveConfig(w, k)

SyncNext ==
    \/ \E w \in Workers, c \in Channels : SyncChannel(w, c)
    \/ \E w \in Workers : Syncing(w) \/ Fail(w)
    \/ \E w \in Handlers :
         \/ Editing(w)
         \/ \E c \in Channels, name \in Names : ApplySync(w, c, name)
         \/ \E c \in Channels : ApplyPriceSync(w, c)
    \/ \E c \in Channels : PreviewPrices(c)
    \/ \E id \in ModelIds, name \in Names, book \in Books : CreateModel(id, name, book)
    \/ \E id \in ModelIds : DeleteModel(id)
    \/ \E k \in ConfigIds : DeleteChannelModel(k)
    \/ \E c \in Channels, to \in {"on", "off", None} : SetChannel(c, to)

SyncSpec == SyncInit /\ [][SyncNext]_syncVars

(* The hour comes round for every channel that is on.                      *)
SyncFairSpec ==
    /\ SyncSpec
    /\ \A w \in Background :
         /\ \A c \in Channels : SF_syncVars(SyncChannel(w, c))
         /\ WF_syncVars(Syncing(w))

-----------------------------------------------------------------------------
(* Properties.                                                             *)

Sheet(book) ==
    LET in(unit) == unit \in TextUnits IN
    [quota |-> book.quota, video |-> <<>>,
     price |-> [unit \in Units |-> IF in(unit) THEN book.price[unit] ELSE 0],
     tiers |-> [unit \in Units |-> IF in(unit) THEN book.tiers[unit] ELSE <<>>]]

Usages ==
    {[Nothing EXCEPT !["input"] = input, !["read"] = read, !["output"] = output] :
        input \in {2, 5}, read \in {0, 2}, output \in {0, 3}}

Costs(book) == [u \in Usages |-> calculateModelUsageCost(u, <<>>, Sheet(book))]

(* Whatever form a list has and whoever writes at the same time, a model   *)
(* costs what the last writer of its prices meant: its row is never a      *)
(* mixture, and taking prices over from a list, by any of its spellings    *)
(* or from another site of this kind, charges what the list charges.       *)
PricedAsListed ==
    \A id \in ModelIds : LET row == models[id] IN
      In(models, id) => row.book = row.meant \/ Costs(row.book) = Costs(row.meant)

(* When a synchronisation creates a config, the model it names is there,   *)
(* though models are deleted and named anew under its hands; or the name   *)
(* it was found by has been given to another row meanwhile.                *)
KeepsModels(w) ==
    \A k \in ConfigIds :
      In(configs', k) /\ ~In(configs, k) /\ worker[w].pc = "create" /\ worker'[w] # worker[w] =>
        LET config == configs'[k] IN
        \E id \in ModelIds :
          In(models', id) /\ (id = config.model \/ models'[id].name = config.upstream)

SyncedConfigsHaveModels == [][\A w \in Workers : KeepsModels(w)]_syncVars

(* A model that an upstream lists can be reached through its channel in    *)
(* the end, as long as the channel is on.                                  *)
Configured(c, name) ==
    \E k \in ConfigIds, id \in ModelIds :
        /\ In(configs, k) /\ configs[k].channel = c /\ configs[k].enabled /\ configs[k].model = id
        /\ In(models, id) /\ models[id].name = name

ListedIsConfigured ==
    \A c \in Channels, name \in Names :
      (channels[c] = "on" /\ \E i \in DOMAIN site.names : site.names[i].name = name)
        ~> (Configured(c, name) \/ channels[c] # "on")
=============================================================================
