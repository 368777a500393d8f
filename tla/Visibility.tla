----------------------------- MODULE Visibility -----------------------------
(***************************************************************************)
(* What AI search engines are shown of one shop, and the cached copies it  *)
(* is served from: the feed, the llms.txt files and the product schemas    *)
(* (handler/geo.go), the score, the advice for a product and the plan that *)
(* decides who may write (handler/visibility.go, service/visibility).      *)
(* Every answer is looked up, computed and stored in three steps, between  *)
(* which products change and other requests delete the same keys.          *)
(***************************************************************************)
EXTENDS Naturals, Sequences, FiniteSets

CONSTANTS Products,          \* the shop's active products, in database order: 1..n
          RequestSlots,      \* requests that run at the same time
          Ttl,               \* Ttl[k]: how long an entry of kind k lives
          Mixes,             \* what one behaviour mixes: [kinds of requests, number of requests]
          MaxTime, MaxWorldChanges, MaxLost   \* bounds

VARIABLES
    version,  \* version[p]: what the product row holds, but for its title
    planAllows, \* the shop's plan allows writes
    cache,    \* cache[k]: Gone, or [val, until, raced, batch]
    slot,     \* slot[s]: [pc, op, key, val, raced]; results of a batch in val
    shown,    \* shown[o]: the versions when a request of kind o last ended
    lastPaid, \* last time at which the plan allowed writes
    mix,      \* the mix of this behaviour
    time, worldChanges, requests, lostCalls    \* counters under the bounds

visibilityVars == <<version, planAllows, cache, slot, shown, lastPaid, mix, time,
                    worldChanges, requests, lostCalls>>
counters == <<mix, time, worldChanges, requests, lostCalls>>

K(kind) == <<kind, 0>>
CacheKeys == {K("feed"), K("llms"), K("txt"), K("full"), K("score"), K("plan")}
        \cup ({"schema", "ai"} \X Products)
CacheKinds == {"feed", "llms", "txt", "full", "score", "plan", "schema", "ai"}
VisibilityConstants == /\ Products \subseteq Nat /\ IsFiniteSet(Products)
                       /\ Ttl \in [CacheKinds -> Nat]
                       /\ MaxTime \in Nat /\ MaxWorldChanges \in Nat
Gone == [until |-> 0]
IdleSlot == [pc |-> "idle"]
Live(k) == cache[k] # Gone
Reads == {"feed", "llms", "txt", "score"}
Guarded == {"optimize", "describe", "deploy", "generate", "clear", "scan"}
Open == {"regenerate", "refresh"}

VisibilityInit ==
    /\ version = [p \in Products |-> 0] /\ planAllows = TRUE
    /\ cache = [k \in CacheKeys |-> Gone] /\ slot = [s \in RequestSlots |-> IdleSlot]
    /\ shown = [o \in Guarded \cup Open |-> version] /\ lastPaid = 0 /\ mix \in Mixes
    /\ time = 0 /\ worldChanges = 0 /\ requests = 0 /\ lostCalls = 0

Put(c, k, v, raced, batch) ==
    [c EXCEPT ![k] = [val |-> v, until |-> time + Ttl[k[1]], raced |-> raced, batch |-> batch]]

--------------------------------------------------------------------------
(* The world *)
ProductWebhook(p) ==
    /\ worldChanges < MaxWorldChanges /\ worldChanges' = worldChanges + 1
    /\ version' = [version EXCEPT ![p] = @ + 1]
    /\ UNCHANGED <<planAllows, cache, slot, shown, lastPaid, mix, time, requests, lostCalls>>
\* Fills that have read the other plan store what no longer holds.
PlanChange ==
    /\ worldChanges < MaxWorldChanges /\ worldChanges' = worldChanges + 1
    /\ planAllows' = ~planAllows
    /\ slot' = [s \in RequestSlots |-> IF slot[s].pc = "fill" /\ slot[s].key = K("plan")
                                THEN [slot[s] EXCEPT !.raced = TRUE] ELSE slot[s]]
    /\ lastPaid' = IF planAllows THEN time ELSE lastPaid
    /\ UNCHANGED <<version, cache, shown, mix, time, requests, lostCalls>>
Tick == /\ time < MaxTime /\ time' = time + 1
        /\ cache' = [k \in CacheKeys |-> IF cache[k].until <= time + 1 THEN Gone ELSE cache[k]]
        /\ UNCHANGED <<version, planAllows, slot, shown, lastPaid, mix, worldChanges,
                       requests, lostCalls>>

--------------------------------------------------------------------------
(* Lookup, query, fill *)
Optimized(p) == [of |-> p, versions |-> version]
BeginRequest(s, op, key, pc) ==
    /\ slot[s].pc = "idle" /\ requests < mix.requests /\ requests' = requests + 1
    /\ slot' = [slot EXCEPT ![s] = [pc |-> pc, op |-> op, key |-> key, val |-> <<>>,
                                    raced |-> FALSE]]
    /\ UNCHANGED <<version, planAllows, cache, shown, lastPaid, mix, time, worldChanges,
                   lostCalls>>
Ask(s, kind) == BeginRequest(s, "read", K(kind), "lookup")
GetSchema(s, p) == "schema" \in mix.kinds /\ BeginRequest(s, "read", <<"schema", p>>, "lookup")
ProductAdvice(s, p) == "ai" \in mix.kinds /\ BeginRequest(s, "read", <<"ai", p>>, "lookup")
\* checkWriteAccess first: the plan is a cached read like the others.
Write(s, op) == BeginRequest(s, op, K("plan"), "lookup")
\* The cron's refresh and Regenerate ask for no plan.
WriteOpen(s, op) == BeginRequest(s, op, K("plan"), "act")

\* What follows the verdict on the plan.
Allowed(s, ok) == [slot[s] EXCEPT !.pc = IF ok THEN "act" ELSE "idle"]
Lookup(s) ==
    LET k == slot[s].key IN
    /\ slot[s].pc = "lookup"
    /\ slot' = [slot EXCEPT ![s] =
                   IF ~Live(k) THEN [slot[s] EXCEPT !.pc = "query"]
                   ELSE IF slot[s].op = "read" THEN IdleSlot ELSE Allowed(s, cache[k].val.ok)]
    /\ UNCHANGED <<version, planAllows, cache, shown, lastPaid, counters>>
Scored == [versions |-> version, deployed |-> Live(K("txt")) \/ Live(K("llms"))]
Schemas == [versions |-> version]
Current(k) == CASE k[1] = "plan" -> [ok |-> planAllows]
                [] k[1] = "ai" -> Optimized(k[2])
                [] k[1] = "score" -> Scored
                [] OTHER -> Schemas
\* The model may give no advice; a schema of a product without variants is "not found".
Query(s) ==
    /\ slot[s].pc = "query"
    /\ \/ /\ slot' = [slot EXCEPT ![s].pc = "fill", ![s].val = Current(slot[s].key)]
          /\ UNCHANGED lostCalls
       \/ /\ slot[s].key[1] \in {"ai", "schema", "feed", "plan"} /\ lostCalls < MaxLost
          /\ slot' = [slot EXCEPT ![s] = IdleSlot] /\ lostCalls' = lostCalls + 1
    /\ UNCHANGED <<version, planAllows, cache, shown, lastPaid, mix, time, worldChanges,
                   requests>>
Fill(s) ==
    LET x == slot[s] IN
    /\ x.pc = "fill"
    /\ \/ cache' = Put(cache, x.key, x.val, x.raced, FALSE) /\ UNCHANGED lostCalls
       \/ lostCalls < MaxLost /\ lostCalls' = lostCalls + 1 /\ UNCHANGED cache
    /\ slot' = [slot EXCEPT ![s] = IF x.op = "read" THEN IdleSlot ELSE Allowed(s, x.val.ok)]
    /\ UNCHANGED <<version, planAllows, shown, lastPaid, mix, time, worldChanges, requests>>

--------------------------------------------------------------------------
(* Writes *)
\* The calls to the model run side by side and the ones that fail are left out: the
\* results are some of the products, in the order in which the calls have ended.
EndOrders(S) == {q \in UNION {[1..n -> S] : n \in 0..Cardinality(S)} :
                    \A i, j \in DOMAIN q : q[i] = q[j] => i = j}
Selected == {Products} \cup {{p} : p \in Products}
Proposed(s, S, q) ==
    [slot EXCEPT ![s].pc = "store",
        ![s].val = [first |-> CHOOSE p \in S : \A r \in S : p <= r, size |-> Cardinality(S),
                    results |-> [i \in DOMAIN q |-> Optimized(q[i])]]]
Batch(s) ==
    /\ slot[s].pc = "act" /\ slot[s].op = "optimize"
    /\ \E S \in Selected : \E q \in EndOrders(S) : slot' = Proposed(s, S, q)
    /\ UNCHANGED <<version, planAllows, cache, shown, lastPaid, counters>>
\* Fix of one description, or the model's refusal.
Describe(s, p) ==
    /\ slot[s].pc = "act" /\ slot[s].op = "describe"
    /\ \/ slot' = Proposed(s, {p}, <<p>>) /\ UNCHANGED lostCalls
       \/ /\ lostCalls < MaxLost /\ lostCalls' = lostCalls + 1
          /\ slot' = [slot EXCEPT ![s] = IdleSlot]
    /\ UNCHANGED <<version, planAllows, cache, shown, lastPaid, mix, time, worldChanges,
                   requests>>
\* The result at a place is stored as the advice for the product at that place.
StoreBatch(s) ==
    LET x == slot[s].val
        at(p) == p - x.first + 1
    IN
    /\ slot[s].pc = "store" /\ slot[s].op \in {"optimize", "describe"}
    /\ slot' = [slot EXCEPT ![s].pc = "drop"]
    /\ cache' = [k \in CacheKeys |->
          IF k[1] = "ai" /\ at(k[2]) \in DOMAIN x.results
          THEN Put(cache, k, x.results[at(k[2])], FALSE, x.size > 1)[k] ELSE cache[k]]
    /\ UNCHANGED <<version, planAllows, shown, lastPaid, counters>>
\* llms.txt and llms-full.txt, from one query, which may fail.
GenerateFiles(s) ==
    /\ slot[s].pc = "act" /\ slot[s].op \in {"deploy", "refresh", "generate"}
    /\ \/ /\ slot' = [slot EXCEPT ![s].pc = "store", ![s].val = [versions |-> version]]
          /\ UNCHANGED lostCalls
       \/ /\ lostCalls < MaxLost /\ lostCalls' = lostCalls + 1
          /\ slot' = [slot EXCEPT ![s] = IdleSlot]
    /\ UNCHANGED <<version, planAllows, cache, shown, lastPaid, mix, time, worldChanges,
                   requests>>
Deploy(s) ==
    /\ slot[s].pc = "store" /\ slot[s].op \in {"deploy", "refresh", "generate"}
    /\ slot' = [slot EXCEPT ![s].pc = "drop"]
    /\ cache' = Put(Put(cache, K("txt"), slot[s].val, FALSE, FALSE),
                    K("full"), slot[s].val, FALSE, FALSE)
    /\ UNCHANGED <<version, planAllows, shown, lastPaid, counters>>
NothingFirst(s) ==
    /\ slot[s].pc = "act" /\ slot[s].op \in {"clear", "scan", "regenerate"}
    /\ slot' = [slot EXCEPT ![s].pc = "drop"]
    /\ UNCHANGED <<version, planAllows, cache, shown, lastPaid, counters>>
\* The keys a request deletes at its end. Redis takes "geo:schema:<shop>:*", and
\* "geo:schema:<shop>", as names of keys, and there are none of that name.
\* Seeded bug: the feed is left for the next refresh.
DropsScoreOnly(op) == CASE op = "generate" -> {}
                        [] op = "regenerate" -> {K("llms")}
                        [] OTHER -> {K("score")}
Drops(op) == CASE op = "generate" -> {}
               [] op = "regenerate" -> {K("feed"), K("llms")}
               [] op \in {"scan", "deploy", "refresh"} -> {K("score")}
               [] OTHER -> {K("feed"), K("score")}
DropCopies(s) ==
    LET op == slot[s].op IN
    /\ slot[s].pc = "drop"
    /\ cache' = [k \in CacheKeys |-> IF k \in Drops(op) THEN Gone ELSE cache[k]]
    /\ shown' = [shown EXCEPT ![op] = version]
    /\ slot' = [t \in RequestSlots |-> IF t = s THEN IdleSlot
                ELSE IF slot[t].pc = "fill" /\ slot[t].key \in {K("feed"), K("llms"), K("score")}
                THEN [slot[t] EXCEPT !.raced = TRUE] ELSE slot[t]]
    /\ UNCHANGED <<version, planAllows, lastPaid, counters>>

VisibilityNext ==
    \/ \E p \in Products : ProductWebhook(p)
    \/ PlanChange \/ Tick
    \/ \E s \in RequestSlots :
          \/ \E k \in Reads \cap mix.kinds : Ask(s, k)
          \/ \E p \in Products : GetSchema(s, p) \/ ProductAdvice(s, p)
          \/ \E o \in Guarded \cap mix.kinds : Write(s, o)
          \/ \E o \in Open \cap mix.kinds : WriteOpen(s, o)
          \/ Lookup(s) \/ Query(s) \/ Fill(s)
          \/ Batch(s) \/ StoreBatch(s) \/ GenerateFiles(s) \/ Deploy(s)
          \/ NothingFirst(s) \/ DropCopies(s)
          \/ \E p \in Products : Describe(s, p)

VisibilitySpec == VisibilityInit /\ [][VisibilityNext]_visibilityVars

VisibilityTypeOK ==
    /\ \A k \in CacheKeys : cache[k].until <= MaxTime + Ttl[k[1]]
    /\ \A s \in RequestSlots :
          slot[s].pc \in {"idle", "lookup", "query", "fill", "act", "store", "drop"}
    /\ version \in [Products -> 0..MaxWorldChanges] /\ lastPaid <= time

NotOlder(k, o) == (Live(k) /\ ~cache[k].raced) =>
                     \A p \in Products : cache[k].val.versions[p] >= shown[o][p]
\* Deleting the copies works: a copy that is served after a request that deletes it was
\* made from products no older than that request's end, unless the computation that
\* stored it was under way.
Invalidated == /\ \A o \in {"optimize", "describe", "clear", "regenerate"} : NotOlder(K("feed"), o)
               /\ NotOlder(K("llms"), "regenerate")
               /\ \A o \in {"optimize", "describe", "clear", "scan", "deploy", "refresh"} :
                     NotOlder(K("score"), o)
\* Advice belongs to another product only if a batch of several has stored it.
AdviceKept == \A p \in Products : Live(<<"ai", p>>) /\ ~cache[<<"ai", p>>].batch
                                     => cache[<<"ai", p>>].val.of = p
\* A plan that is remembered as allowing writes did so when it was stored, unless it
\* changed while it was being looked up; and so no longer than its time to live ago.
PlanRemembered == Live(K("plan")) /\ cache[K("plan")].val.ok /\ ~cache[K("plan")].raced
                     => planAllows \/ lastPaid + Ttl["plan"] >= cache[K("plan")].until
\* What the caches of the visibility pages serve is never older than a change and its
\* lifetime allow, and no change drops less than it must (geo.go, visibility.go).
VisibilitySound == Invalidated /\ AdviceKept /\ PlanRemembered

\* handler/visibility.go:254: the current content is compared with the advice for it.
AdviceOfProduct == \A p \in Products : Live(<<"ai", p>>) => cache[<<"ai", p>>].val.of = p
=============================================================================
