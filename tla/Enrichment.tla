----------------------------- MODULE Enrichment -----------------------------
(***************************************************************************)
(* The data pipeline (platform/datapipeline) and the enrichment of a       *)
(* product row by its five stages.  A webhook stores the row and leaves    *)
(* the stages to a task of the queue, or to a goroutine when the queue is  *)
(* down; the synchronisation runs them in its own loop.  All of these may  *)
(* work on one product at once.                                            *)
(***************************************************************************)
EXTENDS Integers, Sequences, FiniteSets, TLC

CONSTANTS Contents,   \* what Shopify may hold of the product: [price, currency, size, type, text]
          Rates, Sizes, Tree, Synonyms, Regions,  \* the tables of the stages
          Jobs,       \* goroutines and workers that may run the stages
          MaxStages,  \* bound: longest pipeline that Run is compared on
          MaxEdits, MaxSyncs, MaxFailures   \* bounds

VARIABLES
    pipeline, \* a pipeline for Run alone, or the empty one
    shopify, version,  \* the product at Shopify, and how often it was edited
    hooks,    \* webhooks on their way: [content, version]
    row,      \* the synced_products row: NoRow or [content, version, enriched]
    tasks,    \* enrich_product tasks in the queue
    job,      \* job[j]: [pc, source, content, version]
    syncs, failures   \* counted for the bounds

enrichVars == <<pipeline, shopify, version, hooks, row, tasks, job, syncs, failures>>

NoRow == [version |-> -1]
Idle == [pc |-> "idle"]

--------------------------------------------------------------------------
\* Pipeline.Run: a stage that panics or appends an error is passed over, unless it
\* is critical. Stages are [critical, outcome]; the result says which stages left a
\* field, which an error, and whether the caller is given an error.
Aborts(stage) == stage.critical /\ stage.outcome # "ok"
RunAll(stages) ==
    LET after[i \in 0..Len(stages)] ==
            IF i = 0 THEN [fields |-> {}, errors |-> {}, failed |-> Len(stages) = 0]
            ELSE LET before == after[i - 1] IN
                 IF before.failed THEN before
                 ELSE IF stages[i].outcome = "ok" THEN [before EXCEPT !.fields = @ \cup {i}]
                 ELSE [before EXCEPT !.errors = @ \cup {i}, !.failed = Aborts(stages[i])]
    IN after[Len(stages)]

--------------------------------------------------------------------------
\* What the stages find under the keys they look for. The synchronisation hands them
\* the product as Shopify wrote it, which has no country; the webhook hands them the
\* row in JSON, whose keys are Title and ProductType and never title or product_type.
NothingFound == [price |-> 0, currency |-> "", size |-> "", type |-> "", text |-> {}, country |-> ""]
Payload(source, c) ==
    IF source = "sync" THEN [price |-> c.price, currency |-> "", size |-> c.size, type |-> c.type,
                             text |-> c.text, country |-> ""]
    ELSE NothingFound

Lookup(table, key, default) == IF key \in DOMAIN table THEN table[key] ELSE default
Missing == "missing"
NormalizeCurrency(p) == LET code == IF p.currency = "" THEN "USD" ELSE p.currency IN
    IF code \notin DOMAIN Rates \/ p.price = 0 THEN Missing ELSE "USD"
ClassifyRegion(p) == IF p.country = "" THEN Missing ELSE Lookup(Regions, p.country, "OTHER")
NormalizeSize(p) == IF p.size = "" THEN Missing ELSE Lookup(Sizes, p.size, p.size)
TagCategory(p) == IF p.type = "" THEN Missing
                  ELSE Lookup(Tree, p.type, Lookup(Tree, Lookup(Synonyms, p.type, p.type),
                                                   "Other"))
ExtractMaterial(p) == IF p.text = {} THEN Missing ELSE ToString(p.text)
Columns == {"currency", "region", "size", "category", "materials"}
Stages(p) == [currency |-> NormalizeCurrency(p), region |-> ClassifyRegion(p),
              size |-> NormalizeSize(p), category |-> TagCategory(p),
              materials |-> ExtractMaterial(p)]
Empty == [c \in Columns |-> ""]

\* One error of one stage keeps the caller from storing what the others found.
\* Seeded bug: the fields without an error are stored.
KeepsPartial(result) == [c \in Columns |-> IF result[c] = Missing THEN "" ELSE result[c]]
Keeps(result) == IF \E c \in Columns : result[c] = Missing THEN Empty ELSE result

EnrichInit ==
    /\ pipeline \in UNION {[1..n -> [critical : BOOLEAN, outcome : {"ok", "error", "panic"}]]
                             : n \in 0..MaxStages}
    /\ shopify \in (IF pipeline = <<>> THEN Contents ELSE {CHOOSE c \in Contents : TRUE})
    /\ version = 0 /\ hooks = {} /\ row = NoRow /\ tasks = 0
    /\ job = [j \in Jobs |-> Idle] /\ syncs = 0 /\ failures = 0

Fail == failures < MaxFailures /\ failures' = failures + 1
Live == pipeline = <<>>

--------------------------------------------------------------------------
\* An edit at Shopify sends a webhook with the product of that moment.
Edit(c) ==
    /\ Live /\ version < MaxEdits /\ version' = version + 1 /\ shopify' = c
    /\ hooks' = hooks \cup {[content |-> c, version |-> version + 1]}
    /\ UNCHANGED <<pipeline, row, tasks, job, syncs, failures>>

\* handleProduct: an upsert, which empties the columns of the stages, then the task.
\* The webhook of a failed upsert is answered with 200 as well, and is lost.
Upsert(old, c, v) == [content |-> c, version |-> v, enriched |-> Empty]
Run(j, source, c, v) == job' = [job EXCEPT ![j] = [pc |-> "run", source |-> source, content |-> c,
                                                   version |-> v]]
HandleProduct(h) ==
    /\ h \in hooks /\ hooks' = hooks \ {h}
    /\ \/ Fail /\ UNCHANGED <<row, tasks, job>>
       \/ /\ row' = Upsert(row, h.content, h.version)
          /\ \/ tasks' = tasks + 1 /\ UNCHANGED <<job, failures>>
             \/ /\ Fail /\ UNCHANGED tasks
                /\ \E j \in Jobs : job[j] = Idle /\ Run(j, "webhook", h.content, h.version)
    /\ UNCHANGED <<pipeline, shopify, version, syncs>>

\* HandleEnrichProduct reads the row anew; an error of the query gives the task back.
HandleEnrichProduct(j) ==
    /\ tasks > 0 /\ job[j] = Idle
    /\ \/ Fail /\ UNCHANGED <<tasks, job>>
       \/ /\ tasks' = tasks - 1 /\ UNCHANGED failures
          /\ IF row = NoRow THEN UNCHANGED job ELSE Run(j, "webhook", row.content, row.version)
    /\ UNCHANGED <<pipeline, shopify, version, hooks, row, syncs>>

\* Sync: a page is read, then its product stored, enriched and announced.
ReadPage(j) ==
    /\ Live /\ job[j] = Idle /\ syncs < MaxSyncs /\ syncs' = syncs + 1
    /\ job' = [job EXCEPT ![j] = [pc |-> "upsert", source |-> "sync", content |-> shopify,
                                  version |-> version]]
    /\ UNCHANGED <<pipeline, shopify, version, hooks, row, tasks, failures>>
UpsertProduct(j) ==
    /\ job[j].pc = "upsert"
    /\ \/ Fail /\ job' = [job EXCEPT ![j] = Idle] /\ UNCHANGED row
       \/ /\ row' = Upsert(row, job[j].content, job[j].version)
          /\ job' = [job EXCEPT ![j].pc = "run"] /\ UNCHANGED failures
    /\ UNCHANGED <<pipeline, shopify, version, hooks, tasks, syncs>>

\* runProductPipeline and runEnrichPipeline: the stages, and one update of the row
\* found under the product's id at that time; without a result, with a context that
\* has ended or with a failed update nothing is stored.
RunPipeline(j) ==
    LET found == Keeps(Stages(Payload(job[j].source, job[j].content))) IN
    /\ job[j].pc = "run" /\ job' = [job EXCEPT ![j] = Idle]
    /\ \/ /\ row' = IF row = NoRow \/ found = Empty THEN row ELSE [row EXCEPT !.enriched = found]
          /\ UNCHANGED failures
       \/ Fail /\ UNCHANGED row
    /\ UNCHANGED <<pipeline, shopify, version, hooks, tasks, syncs>>

EnrichNext ==
    \/ \E c \in Contents : Edit(c)
    \/ \E h \in hooks : HandleProduct(h)
    \/ \E j \in Jobs : HandleEnrichProduct(j) \/ ReadPage(j) \/ UpsertProduct(j) \/ RunPipeline(j)

Spec == EnrichInit /\ [][EnrichNext]_enrichVars

TypeOK == /\ shopify \in Contents /\ version \in 0..MaxEdits /\ tasks \in 0..MaxEdits
          /\ syncs \in 0..MaxSyncs /\ failures \in 0..MaxFailures
          /\ row = NoRow \/ row.content \in Contents

\* A stage of Run leaves its field if and only if it succeeds and every critical
\* stage before it has succeeded; Run fails only for a critical stage or for want of stages.
StagesIndependent == LET r == RunAll(pipeline) IN \A i \in 1..Len(pipeline) :
    /\ i \in r.fields <=> /\ pipeline[i].outcome = "ok"
                          /\ \A k \in 1..(i - 1) : pipeline[k].critical => pipeline[k].outcome = "ok"
    /\ i \in r.errors => pipeline[i].outcome # "ok"
    /\ r.failed <=> \E k \in 1..Len(pipeline) : pipeline[k].critical /\ pipeline[k].outcome # "ok"
\* A row has the results of all five stages or of none, so that a category is never
\* shown beside another version's materials; as no payload holds a country, of none.
AllOrNothing == row # NoRow => row.enriched = Empty
\* The database never gets ahead of Shopify, and without failures the last webhook or
\* page handled is the row.
RowIsSeen == row # NoRow => row.version <= version /\ (row.version = version => row.content = shopify)
EnrichSound == StagesIndependent /\ AllOrNothing /\ RowIsSeen
=============================================================================
