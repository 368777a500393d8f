--------------------------- MODULE ShopLifecycle ---------------------------
(***************************************************************************)
(* One shop from installation to uninstallation: the background jobs that  *)
(* an installation starts, the webhooks that keep writing the shop's data, *)
(* and the deletion of that data (webhook_shop.go, webhook_customer.go,    *)
(* shop_cleanup.go, theme_activator.go).                                   *)
(*                                                                         *)
(* A table is either empty or holds rows of the shop.                      *)
(***************************************************************************)
EXTENDS Naturals, FiniteSets

CONSTANTS Synced,     \* tables that a sync and the webhooks write
          Cleaned,    \* tables that CleanupAll names
          Scoped,     \* tables that hold rows of a shop
          Redacted, Personal, \* tables of which shop/redact and customers/redact delete rows
          Installs,   \* bound: installations, each a slot for its jobs
          MaxWebhooks, MaxDeleteFailures  \* bounds

VARIABLES
    shopRow,    \* of its row: [token, uninstalled]
    filled,     \* tables that hold rows of the shop
    jobs,       \* jobs[i]: what the jobs of installation i have still to do
    theme,      \* settings_data.json at Shopify: [edits, block]
    llmConfigs, \* 0 or 1: shop_id is a unique key
    cleaning,   \* "no", "run", "done": the deletion after an uninstall
    todo,       \* tables that the deletion has not come to
    late,       \* writes to tables since the uninstallation began
    failed,     \* deletions that failed
    hooks       \* webhooks delivered

\* The configurations of a shop, of which an installation writes the default, are
\* deleted after an uninstallation, and by nothing else.
LifecycleConstants ==
    /\ IsFiniteSet(Cleaned) /\ Synced \subseteq Scoped
    /\ "shop_llm_configs" \in (Cleaned \cap Scoped) \ (Synced \cup Redacted \cup Personal)
    /\ MaxDeleteFailures \in Nat

dataVars == <<filled, cleaning, todo, late, failed>>
instVars == <<jobs, theme, llmConfigs>>
lifecycleVars == <<shopRow, dataVars, instVars, hooks>>

Jobs == {"theme", "sync"}

LifecycleInit ==
    /\ shopRow = [token |-> FALSE, uninstalled |-> FALSE]
    /\ filled = {} /\ cleaning = "no" /\ todo = {} /\ late = 0 /\ failed = 0
    /\ jobs = [i \in Installs |-> [due |-> {}, begun |-> FALSE, left |-> {}, read |-> 0]]
    /\ theme = [edits |-> 0, block |-> FALSE] /\ llmConfigs = 0
    /\ hooks = 0

\* Writes that come after the shop's uninstallation has begun.
Late(n) == IF cleaning = "no" THEN late ELSE late + n

\* ActivateTheme: token, default LLM configuration, then the jobs. Nothing here
\* looks at uninstalled_at or resets it.
ActivateTheme(i) ==
    /\ ~jobs[i].begun
    /\ shopRow' = [shopRow EXCEPT !.token = TRUE]
    /\ llmConfigs' = 1
    /\ jobs' = [jobs EXCEPT ![i] = [due |-> Jobs, begun |-> TRUE, left |-> Synced, read |-> 0]]
    /\ late' = Late(1 - llmConfigs)
    /\ filled' = filled \cup {"shop_llm_configs"}
    /\ UNCHANGED <<cleaning, todo, failed, theme, hooks>>

\* EnableAppEmbedBlock: theme and settings are read, or one of the calls fails.
ReadSettings(i) ==
    /\ "theme" \in jobs[i].due
    /\ \/ jobs' = [jobs EXCEPT ![i].due = (@ \ {"theme"}) \cup {"put"}, ![i].read = theme.edits]
       \/ jobs' = [jobs EXCEPT ![i].due = @ \ {"theme"}]
    /\ UNCHANGED <<shopRow, dataVars, theme, llmConfigs, hooks>>
\* updateSettingsData: the whole file as it was read, with the block enabled.
PutSettings(i) ==
    /\ "put" \in jobs[i].due
    /\ jobs' = [jobs EXCEPT ![i].due = @ \ {"put"}]
    /\ theme' \in {theme, [edits |-> jobs[i].read, block |-> TRUE]}
    /\ UNCHANGED <<shopRow, dataVars, llmConfigs, hooks>>
MerchantEdits ==
    /\ theme.edits = 0 /\ theme' = [theme EXCEPT !.edits = 1]
    /\ UNCHANGED <<shopRow, dataVars, jobs, llmConfigs, hooks>>

\* The initial sync goes through products, orders and customers; a part that
\* fails is logged, and the next one begins.
InitialSync(i, t) ==
    /\ "sync" \in jobs[i].due /\ t \in jobs[i].left
    /\ \/ filled' = filled \cup {t} /\ late' = Late(1)
       \/ UNCHANGED <<filled, late>>
    /\ jobs' = [jobs EXCEPT ![i].left = @ \ {t},
                            ![i].due = IF jobs[i].left = {t} THEN @ \ {"sync"} ELSE @]
    /\ UNCHANGED <<shopRow, cleaning, todo, failed, theme, llmConfigs, hooks>>

\* Any other webhook writes its table, whether the shop is installed or not.
DataWebhook(t) ==
    /\ hooks < MaxWebhooks /\ hooks' = hooks + 1
    /\ filled' = filled \cup {t} /\ late' = Late(1)
    /\ UNCHANGED <<shopRow, cleaning, todo, failed, instVars>>

\* handleAppUninstalled and ShopUninstall: mark the row, then delete.
Uninstall ==
    /\ shopRow.token /\ cleaning # "run"
    /\ \/ shopRow' = [shopRow EXCEPT !.uninstalled = TRUE]
       \/ shopRow' = shopRow                     \* the update fails and is logged
    /\ cleaning' = "run" /\ todo' = Cleaned /\ late' = 0 /\ failed' = 0
    /\ UNCHANGED <<filled, instVars, hooks>>
\* Seeded bug: the tables are taken from those the installation fills.
DeleteSyncedTable(t) ==
    /\ cleaning = "run" /\ t \in todo
    /\ todo' = todo \ {t}
    /\ cleaning' = IF todo = {t} THEN "done" ELSE "run"
    /\ \/ filled' = filled \ ({t} \cap Synced) /\ failed' = failed
          /\ llmConfigs' = IF t = "shop_llm_configs" THEN 0 ELSE llmConfigs
       \/ failed < MaxDeleteFailures /\ failed' = failed + 1 /\ UNCHANGED <<filled, llmConfigs>>
    /\ UNCHANGED <<shopRow, late, jobs, theme, hooks>>
\* CleanupAll: one table after the other; one that fails is counted and left.
DeleteTable(t) ==
    /\ cleaning = "run" /\ t \in todo
    /\ todo' = todo \ {t}
    /\ cleaning' = IF todo = {t} THEN "done" ELSE "run"
    /\ \/ filled' = filled \ {t} /\ failed' = failed
          /\ llmConfigs' = IF t = "shop_llm_configs" THEN 0 ELSE llmConfigs
       \/ failed < MaxDeleteFailures /\ failed' = failed + 1 /\ UNCHANGED <<filled, llmConfigs>>
    /\ UNCHANGED <<shopRow, late, jobs, theme, hooks>>

\* handleShopRedact, two days after the uninstallation, has a list of its own.
ShopRedact == /\ shopRow.uninstalled
              /\ \E done \in SUBSET Redacted : filled' = filled \ done
              /\ UNCHANGED <<shopRow, cleaning, todo, late, failed, instVars, hooks>>
\* handleCustomerRedact deletes the rows of one customer, which may be all of a
\* table, and every reply code of the shop.
CustomerRedact ==
    /\ \E done \in SUBSET Personal : filled' = filled \ done
    /\ UNCHANGED <<shopRow, cleaning, todo, late, failed, instVars, hooks>>

LifecycleNext ==
    \/ ShopRedact \/ CustomerRedact
    \/ \E i \in Installs : \/ ActivateTheme(i) \/ ReadSettings(i) \/ PutSettings(i)
                          \/ \E t \in Synced : InitialSync(i, t)
    \/ MerchantEdits \/ Uninstall
    \/ \E t \in Scoped \ {"shop_llm_configs"} : DataWebhook(t)
    \/ \E t \in Cleaned : DeleteTable(t)

LifecycleSpec == LifecycleInit /\ [][LifecycleNext]_lifecycleVars

LifecycleTypeOK == /\ shopRow \in [token: BOOLEAN, uninstalled: BOOLEAN]
          /\ filled \subseteq Scoped /\ todo \subseteq Cleaned
          /\ cleaning \in {"no", "run", "done"} /\ llmConfigs \in 0..1
          /\ late \in Nat /\ failed \in 0..MaxDeleteFailures

\* After an uninstallation a table that the deletion names still holds rows only
\* if its deletion failed or something wrote to it since: the initial sync,
\* which runs for up to ten minutes, or a webhook.
LeftBehindBounded == cleaning = "done" => Cardinality(filled \cap Cleaned) <= late + failed
\* A configuration of the model survives exactly in its table.
ConfigStored == llmConfigs = 1 <=> "shop_llm_configs" \in filled
\* Both hold through any interleaving of installations, deletions and webhooks.
LifecycleSound == LeftBehindBounded /\ ConfigStored
=============================================================================
