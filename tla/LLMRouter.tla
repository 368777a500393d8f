----------------------------- MODULE LLMRouter -----------------------------
(***************************************************************************)
(* The language model of a shop: the row of shop_llm_configs that the      *)
(* settings page writes (handler/llm_config.go), its copy in Redis, and    *)
(* the pool of provider clients all shops share (service/llm_router.go).   *)
(*                                                                         *)
(* Requests take their steps between the steps of an update: reading the   *)
(* copy, reading the row, filling the copy, taking a client.               *)
(***************************************************************************)
EXTENDS Naturals, FiniteSets

CONSTANTS Shops,
          PlatformKeys, \* providers the platform has a key for
          Changes,      \* bodies of UpdateConfig: [provider, model, key]; "" for none
          Calls, Updates,           \* slots of requests, of updates
          MaxChanges, MaxFailures   \* bounds

Providers == {"", "deepseek"} \cup {b.provider : b \in Changes}
Models == {"", "deepseek-chat"} \cup {b.model : b \in Changes}
Keys == {"", "platform"} \cup {b.key : b \in Changes}
Config == [provider: Providers, model: Models, key: Keys]
RouterConstants == /\ Shops # {} /\ Changes \subseteq Config
                   /\ MaxChanges \in Nat /\ MaxFailures \in Nat

VARIABLES
    plan,     \* plan[s]: the shop's billing plan
    row,      \* row[s]: NoConfig or [provider, model, key]
    copy,     \* copy[s]: the configuration in Redis
    pool,     \* clients: [provider, hash, key, model], one per provider and hash
    call,     \* call[c]: [pc, shop, cfg, client]
    update,   \* update[u]: [pc, shop, cfg]
    kept,     \* shops whose row has a model no check of the plan has passed
    raced,    \* shops whose copy may be an older row
    changes, failures  \* counted for the bounds

routerVars == <<plan, row, copy, pool, call, update, kept, raced,
                changes, failures>>
configVars == <<plan, row, kept, changes>>

NoConfig == [provider |-> "", model |-> "", key |-> ""]
DefaultConfig == [provider |-> "deepseek", model |-> "deepseek-chat", key |-> ""]
NoClient == [provider |-> "", hash |-> "", key |-> "", model |-> ""]
Nobody == CHOOSE s \in Shops : TRUE
IdleCall == [pc |-> "idle", shop |-> Nobody, cfg |-> NoConfig, client |-> NoClient]
IdleUpdate == [pc |-> "idle", shop |-> Nobody, cfg |-> NoConfig, create |-> FALSE]

\* What a client, a request and an update hold.
Client == [provider: Providers, hash: Keys, key: Keys, model: Models]
CallRecord == [pc: {"idle", "read", "fill", "take", "done"}, shop: Shops,
               cfg: Config, client: Client]
UpdateRecord == [pc: {"idle", "save", "invalidate"}, shop: Shops,
                 cfg: Config, create: BOOLEAN]

\* planModelAllowlist; a plan that is not listed passes every check.
Allows(p, m) == CASE p = "free" -> m \in {"qwen-turbo", "deepseek-chat"}
                  [] p = "growth" -> m \in {"qwen-plus", "qwen-max", "deepseek-chat",
                                            "deepseek-reasoner"}
                  [] OTHER -> TRUE

RouterInit ==
    /\ plan \in [Shops -> {"free", "growth"}] /\ row = [s \in Shops |-> NoConfig]
    /\ copy = [s \in Shops |-> NoConfig] /\ pool = {}
    /\ call = [c \in Calls |-> IdleCall] /\ update = [u \in Updates |-> IdleUpdate]
    /\ kept = {} /\ raced = {}
    /\ changes = 0 /\ failures = 0

Fail == failures < MaxFailures /\ failures' = failures + 1

--------------------------------------------------------------------------
\* UpdateConfig. The plan is asked about a model that comes without a key; the row
\* is read, merged with the body and saved as a whole.
Merge(old, b) == [provider |-> IF b.provider # "" THEN b.provider ELSE old.provider,
                  model |-> IF b.model # "" THEN b.model ELSE old.model,
                  key |-> b.key]
\* The database fills in what a new row leaves empty.
Stored(cfg) ==
    [cfg EXCEPT !.provider = IF cfg.provider = "" THEN DefaultConfig.provider ELSE cfg.provider,
                !.model = IF cfg.model = "" THEN DefaultConfig.model ELSE cfg.model]
Unchecked(s, b) == b.key = "" /\ b.model = "" /\ row[s] # NoConfig
                   /\ (row[s].key # "" \/ s \in kept)
UpdateConfig(u, s, b) ==
    /\ update[u].pc = "idle" /\ changes < MaxChanges
    /\ b.key = "" /\ b.model # "" => Allows(plan[s], b.model)
    /\ update' = [update EXCEPT ![u] = [pc |-> "save", shop |-> s,
                                        cfg |-> Stored(Merge(row[s], b)),
                                        create |-> row[s] = NoConfig]]
    /\ kept' = IF Unchecked(s, b) THEN kept \cup {s} ELSE kept
    /\ changes' = changes + 1
    /\ UNCHANGED <<plan, row, copy, pool, call, raced, failures>>
\* A second row for the shop is refused by its unique index. A request that is
\* about to fill the copy has read an older row.
SaveConfig(u) ==
    LET s == update[u].shop IN
    /\ update[u].pc = "save"
    /\ \/ /\ update[u].create => row[s] = NoConfig
          /\ row' = [row EXCEPT ![s] = update[u].cfg] /\ UNCHANGED failures
          /\ update' = [update EXCEPT ![u].pc = "invalidate"]
          /\ raced' = IF \E c \in Calls : call[c].pc = "fill" /\ call[c].shop = s
                      THEN raced \cup {s} ELSE raced
       \/ /\ IF update[u].create /\ row[s] # NoConfig THEN UNCHANGED failures ELSE Fail
          /\ update' = [update EXCEPT ![u] = IdleUpdate] /\ UNCHANGED <<row, raced>>
    /\ UNCHANGED <<plan, copy, pool, call, kept, changes>>
InvalidateCache(u) ==
    LET s == update[u].shop IN
    /\ update[u].pc = "invalidate" /\ update' = [update EXCEPT ![u] = IdleUpdate]
    /\ \/ copy' = [copy EXCEPT ![s] = NoConfig] /\ UNCHANGED <<raced, failures>>
       \/ Fail /\ raced' = raced \cup {s} /\ UNCHANGED copy
    /\ UNCHANGED <<plan, row, pool, call, kept, changes>>
\* Billing moves the shop to another plan; nothing looks at the row.
PlanChanges(s, p) ==
    /\ plan[s] # p /\ changes < MaxChanges /\ changes' = changes + 1
    /\ plan' = [plan EXCEPT ![s] = p]
    /\ kept' = IF row[s] # NoConfig \/ \E u \in Updates : update[u].pc = "save"
               THEN kept \cup {s} ELSE kept
    /\ UNCHANGED <<row, copy, pool, call, update, raced, failures>>

--------------------------------------------------------------------------
\* GetProvider, getConfig: the copy, then the row, then the default, which is not
\* copied. An error of Redis or of the database counts as "not there".
ReadCopy(c, s) ==
    /\ call[c].pc = "idle"
    /\ \/ /\ copy[s] # NoConfig /\ UNCHANGED failures
          /\ call' = [call EXCEPT ![c] = [pc |-> "take", shop |-> s, cfg |-> copy[s],
                                          client |-> NoClient]]
       \/ /\ IF copy[s] = NoConfig THEN UNCHANGED failures ELSE Fail
          /\ call' = [call EXCEPT ![c] = [IdleCall EXCEPT !.pc = "read", !.shop = s]]
    /\ UNCHANGED <<configVars, copy, pool, update, raced>>
ReadRow(c) ==
    LET s == call[c].shop IN
    /\ call[c].pc = "read"
    /\ \/ /\ row[s] # NoConfig /\ UNCHANGED failures
          /\ call' = [call EXCEPT ![c] = [@ EXCEPT !.pc = "fill", !.cfg = row[s]]]
       \/ /\ IF row[s] = NoConfig THEN UNCHANGED failures ELSE Fail
          /\ call' = [call EXCEPT ![c] = [@ EXCEPT !.pc = "take", !.cfg = DefaultConfig]]
    /\ UNCHANGED <<configVars, copy, pool, update, raced>>
FillCopy(c) ==
    /\ call[c].pc = "fill" /\ call' = [call EXCEPT ![c].pc = "take"]
    /\ \/ copy' = [copy EXCEPT ![call[c].shop] = call[c].cfg] /\ UNCHANGED failures
       \/ Fail /\ UNCHANGED copy
    /\ UNCHANGED <<configVars, pool, update, raced>>
CopyExpires(s) ==
    /\ copy[s] # NoConfig /\ copy' = [copy EXCEPT ![s] = NoConfig]
    /\ UNCHANGED <<configVars, pool, call, update, raced, failures>>

\* getOrCreateProvider: the pool is searched again under the write lock, so one
\* client is made per provider and key. Its model is that of its first user.
KeyOf(cfg) == IF cfg.key # "" THEN cfg.key
              ELSE IF cfg.provider \in PlatformKeys THEN "platform" ELSE ""
\* Seeded bug: the clients are pooled by provider alone.
PoolHashConstant(key) == "platform"
PoolHash(key) == key
Pooled(cfg) == {p \in pool : p.provider = cfg.provider /\ p.hash = PoolHash(KeyOf(cfg))}
GetOrCreateProvider(c) ==
    LET cfg == call[c].cfg
        new == [provider |-> cfg.provider, hash |-> PoolHash(KeyOf(cfg)),
                key |-> KeyOf(cfg), model |-> cfg.model]
    IN /\ call[c].pc = "take"
       /\ IF KeyOf(cfg) = "" THEN /\ call' = [call EXCEPT ![c].pc = "done"] /\ UNCHANGED pool
          ELSE /\ pool' = IF Pooled(cfg) = {} THEN pool \cup {new} ELSE pool
               /\ \E p \in IF Pooled(cfg) = {} THEN {new} ELSE Pooled(cfg) :
                      call' = [call EXCEPT ![c] = [@ EXCEPT !.pc = "done", !.client = p]]
       /\ UNCHANGED <<configVars, copy, update, raced, failures>>
CallEnds(c) == /\ call[c].pc = "done" /\ call' = [call EXCEPT ![c] = IdleCall]
               /\ UNCHANGED <<configVars, copy, pool, update, raced, failures>>

--------------------------------------------------------------------------
RouterNext ==
    \/ \E u \in Updates : \/ \E s \in Shops, b \in Changes : UpdateConfig(u, s, b)
                          \/ SaveConfig(u) \/ InvalidateCache(u)
    \/ \E s \in Shops : CopyExpires(s) \/ \E p \in {"free", "growth"} : PlanChanges(s, p)
    \/ \E c \in Calls : \/ \E s \in Shops : ReadCopy(c, s)
                        \/ ReadRow(c) \/ FillCopy(c) \/ GetOrCreateProvider(c) \/ CallEnds(c)

RouterSpec == RouterInit /\ [][RouterNext]_routerVars

RouterTypeOK == /\ raced \subseteq Shops /\ kept \subseteq Shops /\ failures \in 0..MaxFailures
                /\ changes \in 0..MaxChanges
                /\ plan \in [Shops -> {"free", "growth"}]
                /\ row \in [Shops -> Config] /\ copy \in [Shops -> Config]
                /\ pool \subseteq Client /\ \A p \in pool : p.key # ""
                /\ call \in [Calls -> CallRecord] /\ update \in [Updates -> UpdateRecord]

\* The copy is the row, unless an update has still to delete it, a request read
\* the older row before the update and filled the copy after it, or the delete
\* failed: then the older configuration is served for up to five minutes.
CopyAgrees == \A s \in Shops : copy[s] \notin {NoConfig, row[s]} =>
    s \in raced \/ \E u \in Updates : update[u].pc = "invalidate" /\ update[u].shop = s
\* A request works with the key of its own configuration, or with the platform's:
\* never with the key another shop has brought. There is one client for each.
KeysApart == /\ \A c \in Calls : call[c].client # NoClient =>
                    call[c].client.key = KeyOf(call[c].cfg)
             /\ \A p, q \in pool : p.provider = q.provider /\ p.key = q.key => p = q
\* Without a key of its own a shop is left with a model its plan allows, unless the
\* plan has changed or the key was taken away and the model kept (or an update
\* saved over another).
PlanRespected == \A s \in Shops \ kept :
    row[s].key = "" /\ row[s] # NoConfig => Allows(plan[s], row[s].model)
RouterSound == CopyAgrees /\ KeysApart /\ PlanRespected
=============================================================================
