----------------------------- MODULE SyncCursor -----------------------------
(***************************************************************************)
(* Incremental synchronisation of one kind of record of one shop: the cron *)
(* handlers with their last_sync marker (handler/cron.go), the paged       *)
(* syncers (platform/sync) and the webhooks that write the same rows       *)
(* (handler/webhook_product.go, webhook_order.go).                         *)
(*                                                                         *)
(* Time is counted in changes made at Shopify: the version of a record is  *)
(* the time of its last change, and a marker is the number of changes made *)
(* before it was set.  Records are numbered in the order Shopify lists     *)
(* them.  Orders set the marker before a run, products and customers after *)
(* a run that returned no error.                                           *)
(***************************************************************************)
EXTENDS Integers, FiniteSets, FiniteSetsExt

CONSTANTS
    Runner,        \* calls of the cron endpoint that may be served at once
    Records,       \* how many records the shop can have
    Kinds,         \* the kinds of record a behaviour may be about
    PageSize,      \* limit=250
    MaxPages,      \* MaxPages[k]: maxPages of the syncer of kind k
    MaxChanges,    \* bound: changes at Shopify
    MaxSyncFaults  \* bound: failed requests, writes and deaths

\* What the module asks of its constants; the instances assume it.
SyncConstants == /\ Kinds \subseteq {"orders", "products", "customers"}
                 /\ MaxPages \in [Kinds -> Nat \ {0}] /\ PageSize \in Nat \ {0}
                 /\ {Records, MaxChanges, MaxSyncFaults} \subseteq Nat

VARIABLES
    kind,      \* the kind of record, fixed: each has its own table and marker
    clock,     \* changes made at Shopify so far
    remote,    \* remote[r]: version at Shopify, 0 before it exists
    local,     \* local[r]: version in the synced table, 0 for no row
    webhooks,  \* <<r, v>>: webhooks Shopify has not delivered yet
    marker,    \* last_sync in Redis, Never when it is missing
    fresh,     \* the marker is younger than the skip window
    run,       \* run[w]: the sync that runner w is in
    lost,      \* history: lost[r], what happened to r's current version
    syncFaults \* history: faults so far

shop == <<kind, clock, remote>>
redis == <<marker, fresh>>
syncVars == <<shop, local, webhooks, redis, run, lost, syncFaults>>

Record == 1 .. Records
Version == 0 .. MaxChanges
Never == -1

(***************************************************************************)
(* A run lists the records changed after since; pos is the last position   *)
(* its pages have reached, page what is left of the page it is writing,    *)
(* more whether Shopify announced a next page.                             *)
(***************************************************************************)
NoRun == [pc |-> "idle", since |-> Never, pos |-> 0, pages |-> 0,
          page |-> {}, more |-> FALSE]

Cause == {"overtaken", "failed", "behind", "abandoned", "garbled", "cut"}

MarkFirst == kind = "orders"

Runs == [pc : {"idle", "start", "fetch", "page", "finish"},
         since : Version \union {Never}, pos : 0 .. Records,
         pages : 0 .. MaxPages[kind], page : SUBSET (Record \X Version),
         more : BOOLEAN]

SyncTypeOK ==
    /\ kind \in Kinds
    /\ clock \in Version
    /\ remote \in [Record -> Version]
    /\ local \in [Record -> Version]
    /\ webhooks \subseteq Record \X Version
    /\ marker \in Version \union {Never}
    /\ fresh \in BOOLEAN
    /\ run \in [Runner -> Runs]
    /\ lost \in [Record -> SUBSET Cause]
    /\ syncFaults \in 0 .. MaxSyncFaults

SyncInit ==
    /\ kind \in Kinds
    /\ clock = 0
    /\ remote = [r \in Record |-> 0]
    /\ local = [r \in Record |-> 0]
    /\ webhooks = {}
    /\ marker = Never
    /\ fresh = FALSE
    /\ run = [w \in Runner |-> NoRun]
    /\ lost = [r \in Record |-> {}]
    /\ syncFaults = 0

Fault == syncFaults < MaxSyncFaults /\ syncFaults' = syncFaults + 1

-----------------------------------------------------------------------------
(* Shopify, external.  A change that a running sync has already paged past  *)
(* is noted as made behind it.                                              *)

PagedPast(r) == \E w \in Runner : run[w].pc # "idle" /\ r <= run[w].pos

Change(r) ==
    /\ clock < MaxChanges
    /\ clock' = clock + 1
    /\ remote' = [remote EXCEPT ![r] = clock + 1]
    /\ webhooks' = webhooks \union {<<r, clock + 1>>}
    /\ lost' = [lost EXCEPT ![r] = IF PagedPast(r) THEN {"behind"} ELSE {}]
    /\ UNCHANGED <<kind, local, redis, run, syncFaults>>

-----------------------------------------------------------------------------
(* Writing a row: an upsert on (shop_id, platform_id) that compares no      *)
(* versions.                                                                *)

UpsertRow(r, v) ==
    /\ local' = [local EXCEPT ![r] = v]
    /\ lost' = [lost EXCEPT ![r] = CASE v = remote[r] -> {}
                                     [] v # remote[r] /\ v < local[r] -> @ \union {"overtaken"}
                                     [] OTHER -> @]

\* Delivered in any order; a failed write is answered with 200 as well.
HandleWebhook(r, v) ==
    /\ <<r, v>> \in webhooks
    /\ webhooks' = webhooks \ {<<r, v>>}
    /\ \/ UpsertRow(r, v) /\ UNCHANGED syncFaults
       \/ Fault /\ UNCHANGED <<local, lost>>
    /\ UNCHANGED <<shop, redis, run>>

-----------------------------------------------------------------------------
(* The marker.                                                              *)

WindowPasses ==
    /\ fresh
    /\ fresh' = FALSE
    /\ UNCHANGED <<shop, local, webhooks, marker, run, lost, syncFaults>>

MarkerExpires ==
    /\ ~fresh
    /\ marker' = Never
    /\ UNCHANGED <<shop, local, webhooks, fresh, run, lost, syncFaults>>

\* An error of the SET is dropped.
SetMarker ==
    \/ marker' = clock /\ fresh' = TRUE /\ UNCHANGED syncFaults
    \/ Fault /\ UNCHANGED redis

-----------------------------------------------------------------------------
(* A run.                                                                   *)

\* getLastSync and the skip test; a Redis error reads as "never".
ReadMarker(w) ==
    /\ run[w].pc = "idle"
    /\ \E since \in {marker, Never} :
          /\ \/ since = marker /\ ~fresh /\ UNCHANGED syncFaults
             \/ since = Never /\ Fault
          /\ run' = [run EXCEPT ![w] = [NoRun EXCEPT !.pc = "start", !.since = since]]
    /\ UNCHANGED <<shop, local, webhooks, redis, lost>>

BeginSync(w) ==
    /\ run[w].pc = "start"
    /\ IF MarkFirst THEN SetMarker ELSE UNCHANGED <<redis, syncFaults>>
    /\ run' = [run EXCEPT ![w].pc = "fetch"]
    /\ UNCHANGED <<shop, local, webhooks, lost>>

\* Seeded bug: a change made right after the marker is not asked for.
ListedLate(w) == {r \in Record : run[w].pos < r /\ run[w].since + 1 < remote[r]
                                                /\ remote[r] > 0}

Listed(w) == {r \in Record : run[w].pos < r /\ run[w].since < remote[r]
                                            /\ remote[r] > 0}

\* One page, as Shopify has the records at that moment.
FetchPage(w) ==
    /\ run[w].pc = "fetch"
    /\ \E on \in SUBSET Listed(w) :
          /\ \A r \in on, s \in Listed(w) \ on : r < s
          /\ \/ Cardinality(on) = PageSize
             \/ Cardinality(on) < PageSize /\ on = Listed(w)
          /\ run' = [run EXCEPT ![w] =
                [@ EXCEPT !.pc = "page",
                          !.page = {<<r, remote[r]>> : r \in on},
                          !.pages = run[w].pages + 1,
                          !.more = on # Listed(w),
                          !.pos = IF on = Listed(w) THEN Records ELSE Max(on)]]
    /\ UNCHANGED <<shop, local, webhooks, redis, lost, syncFaults>>

Losing(records, cause) ==
    lost' = [r \in Record |-> IF r \in records THEN lost[r] \union {cause}
                                               ELSE lost[r]]

\* A body that does not parse ends the loop, and Sync returns no error.
FetchGarbled(w) ==
    /\ run[w].pc = "fetch"
    /\ Fault
    /\ Losing(Listed(w), "garbled")
    /\ run' = [run EXCEPT ![w] = [@ EXCEPT !.pc = "finish", !.pos = Records]]
    /\ UNCHANGED <<shop, local, webhooks, redis>>

Unwritten(w) ==
    {p[1] : p \in run[w].page} \union
    (IF run[w].pc = "page" /\ ~run[w].more THEN {} ELSE Listed(w))

\* A request that fails for good, a cancelled context or a death: the
\* handler returns without marking.  (When a later page fails the syncer
\* panics on the nil page, which net/http recovers.)
Abandon(w) ==
    /\ run[w].pc # "idle"
    /\ Fault
    /\ Losing(IF run[w].pc = "start" THEN {} ELSE Unwritten(w), "abandoned")
    /\ run' = [run EXCEPT ![w] = NoRun]
    /\ UNCHANGED <<shop, local, webhooks, redis>>

\* A write that fails is counted in SyncResult.Errors and nothing else.
WriteRecord(w) ==
    /\ run[w].pc = "page"
    /\ \E p \in run[w].page :
          /\ \A q \in run[w].page : p[1] <= q[1]
          /\ \/ UpsertRow(p[1], p[2]) /\ UNCHANGED syncFaults
             \/ Fault /\ Losing({p[1]}, "failed") /\ UNCHANGED local
          /\ run' = [run EXCEPT ![w].page = @ \ {p}]
    /\ UNCHANGED <<shop, webhooks, redis>>

\* Seeded bug: the page limit is not tested.
NextPageUnlimited(w) ==
    /\ run[w].pc = "page" /\ run[w].page = {} /\ run[w].more
    /\ run' = [run EXCEPT ![w].pc = "fetch"]
    /\ UNCHANGED <<shop, local, webhooks, redis, lost, syncFaults>>

NextPage(w) ==
    /\ run[w].pc = "page" /\ run[w].page = {} /\ run[w].more
    /\ run[w].pages < MaxPages[kind]
    /\ run' = [run EXCEPT ![w].pc = "fetch"]
    /\ UNCHANGED <<shop, local, webhooks, redis, lost, syncFaults>>

\* The last page is written, or the page limit is reached.
EndPages(w) ==
    /\ run[w].pc = "page" /\ run[w].page = {}
    /\ ~run[w].more \/ run[w].pages = MaxPages[kind]
    /\ Losing(IF run[w].more THEN Listed(w) ELSE {}, "cut")
    /\ run' = [run EXCEPT ![w] = [@ EXCEPT !.pc = "finish", !.pos = Records]]
    /\ UNCHANGED <<shop, local, webhooks, redis, syncFaults>>

\* Seeded bug: orders are marked when the run is over.
FinishMarks(w) ==
    /\ run[w].pc = "finish"
    /\ SetMarker
    /\ run' = [run EXCEPT ![w] = NoRun]
    /\ UNCHANGED <<shop, local, webhooks, lost>>

Finish(w) ==
    /\ run[w].pc = "finish"
    /\ IF MarkFirst THEN UNCHANGED <<redis, syncFaults>> ELSE SetMarker
    /\ run' = [run EXCEPT ![w] = NoRun]
    /\ UNCHANGED <<shop, local, webhooks, lost>>

Proceed(w) ==
    \/ BeginSync(w) \/ FetchPage(w) \/ WriteRecord(w) \/ NextPage(w)
    \/ EndPages(w) \/ Finish(w)

SyncNext ==
    \/ \E r \in Record : Change(r)
    \/ \E p \in webhooks : HandleWebhook(p[1], p[2])
    \/ WindowPasses
    \/ MarkerExpires
    \/ \E w \in Runner :
          ReadMarker(w) \/ Proceed(w) \/ FetchGarbled(w) \/ Abandon(w)

SyncSpec == SyncInit /\ [][SyncNext]_syncVars

(* The scheduler keeps calling the endpoint, time passes and calls return.  *)
SyncFairness ==
    /\ WF_syncVars(WindowPasses)
    /\ \A w \in Runner : SF_syncVars(ReadMarker(w)) /\ WF_syncVars(Proceed(w))

SyncFairSpec == SyncSpec /\ SyncFairness

-----------------------------------------------------------------------------
Behind(r) == local[r] # remote[r]

\* Runner w has r's current version in hand or still has to list it.
WillWrite(w, r) ==
    \/ <<r, remote[r]>> \in run[w].page
    \/ run[w].pc \in {"start", "fetch"} /\ r \in Listed(w)
    \/ run[w].pc = "page" /\ run[w].more /\ r \in Listed(w)

LostOnlyBy(causes) ==
    \A r \in Record :
        Behind(r) => \/ marker < remote[r]
                     \/ \E w \in Runner : WillWrite(w, r)
                     \/ lost[r] \intersect causes # {}

(* Marking first, a change can hide behind the marker only when its run was *)
(* abandoned, its page or row failed, the page limit cut it off or an older *)
(* copy was written over it: never because it was made, or its webhook got  *)
(* lost, while a run was paging (cron.go SyncOrders, 173-176).              *)
MarkedFirstCovers ==
    MarkFirst => LostOnlyBy({"overtaken", "failed", "abandoned", "garbled", "cut"})

(* Marking last, an abandoned run loses nothing, the next run lists the     *)
(* same changes again; but a change made behind a run may be hidden (cron.go*)
(* SyncProducts and SyncCustomers, 131-141 and 312-321).                    *)
MarkedLastCovers ==
    ~MarkFirst => LostOnlyBy({"overtaken", "failed", "behind", "garbled", "cut"})

(* What the marker promises, whichever way the kind of record sets it.      *)
MarkerCovers == MarkedFirstCovers /\ MarkedLastCovers

(* Whatever is not hidden reaches the table: a change newer than the marker *)
(* is written by a later run, however many webhooks were lost.              *)
CatchesUp ==
    \A r \in Record :
        marker < remote[r] ~> ~Behind(r) \/ lost[r] # {}
=============================================================================
