------------------------------ MODULE Metrics ------------------------------
(***************************************************************************)
(* The metrics of the server (platform/observability/): every request,     *)
(* statement and model call is counted by the goroutine that makes it, and *)
(* GET /metrics renders all counters on one page.                          *)
(*                                                                         *)
(* Counters are atomic or guarded by mu, a sync.RWMutex: Lock announces    *)
(* itself, waits for the readers that hold the lock, and keeps new readers *)
(* out. Prometheus() holds mu for reading all along and takes it again for *)
(* the sections on model calls, synchronisation and cron runs. histLock is *)
(* always taken last and held for one step only: it is not modelled.       *)
(***************************************************************************)
EXTENDS Naturals, FiniteSets

CONSTANTS Workers,   \* goroutines that record
          Scrapers,  \* goroutines that render the page
          MaxCalls, MaxScrapes   \* bounds

VARIABLES
    writer,   \* the worker that has called mu.Lock ("none": no worker)
    holds,    \* the writer has the lock
    readers,  \* readers[s]: times the scraper holds mu for reading
    worker,   \* worker[w]: [pc, kind, bad]
    scraper,  \* scraper[s]: its place in Prometheus()
    page,     \* page[s]: what it has read so far
    atomics,  \* the atomic counters
    maps,     \* the counters under mu
    durations, \* samples under histLock: they are never dropped
    calls, scrapes   \* counted for the bounds

MetricsConstants ==
    IsFiniteSet(Workers) /\ "none" \notin Workers /\ {MaxCalls, MaxScrapes} \subseteq Nat

metricVars == <<writer, holds, readers, worker, scraper, page, atomics, maps,
                durations, calls, scrapes>>
lockVars == <<writer, holds, readers>>

\* A synchronisation, a cron run and an event are recorded as a call is.
RecordKinds == {"request", "call", "query"}
IdleWorker == [pc |-> "idle", kind |-> "request", bad |-> FALSE]
NoPage == [total |-> 0, errors |-> 0, byStatus |-> 0, badStatus |-> 0, ext |-> 0, llm |-> 0,
           byModule |-> 0, samples |-> 0]

MetricsInit ==
    /\ writer = "none" /\ holds = FALSE /\ readers = [s \in Scrapers |-> 0]
    /\ worker = [w \in Workers |-> IdleWorker]
    /\ scraper = [s \in Scrapers |-> "idle"] /\ page = [s \in Scrapers |-> NoPage]
    /\ atomics = [active |-> 0, total |-> 0, errors |-> 0, ext |-> 0, db |-> 0]
    /\ maps = [byStatus |-> 0, badStatus |-> 0, llm |-> 0, byModule |-> 0]
    /\ durations = 0 /\ calls = 0 /\ scrapes = 0

Plus(r, n) == r + IF n THEN 1 ELSE 0
Move(w, pc) == worker' = [worker EXCEPT ![w].pc = pc]
\* Lock: the announcement; the lock once the last reader has left; the release.
Announce(w) == writer = "none" /\ writer' = w /\ UNCHANGED <<holds, readers>>
Acquire(w) == /\ writer = w /\ \A s \in Scrapers : readers[s] = 0
              /\ holds' = TRUE /\ UNCHANGED <<writer, readers>>
Unlock == writer' = "none" /\ holds' = FALSE /\ UNCHANGED readers
RLock(s) == /\ writer = "none" /\ readers' = [readers EXCEPT ![s] = @ + 1]
            /\ UNCHANGED <<writer, holds>>
RUnlock(s) == readers' = [readers EXCEPT ![s] = @ - 1] /\ UNCHANGED <<writer, holds>>

--------------------------------------------------------------------------
\* The middleware, a model call or a statement of GORM begins.
BeginRecord(w, kind, bad) ==
    /\ worker[w].pc = "idle" /\ calls < MaxCalls /\ calls' = calls + 1
    /\ worker' = [worker EXCEPT ![w] = [pc |-> "atomics", kind |-> kind, bad |-> bad]]
    /\ atomics' = [atomics EXCEPT !.active = Plus(@, kind = "request")]
    /\ UNCHANGED <<lockVars, scraper, page, maps, durations, scrapes>>
\* The atomic counters come first: RecordRequest, RecordLLMCall, RecordDBQuery.
\* Seeded bug: the request is counted when it has been filed.
CountLate(w) ==
    /\ worker[w].pc = "atomics" /\ Move(w, IF worker[w].kind = "query" THEN "hist" ELSE "lock")
    /\ UNCHANGED <<lockVars, scraper, page, atomics, maps, durations, calls, scrapes>>
Count(w) ==
    /\ worker[w].pc = "atomics" /\ Move(w, IF worker[w].kind = "query" THEN "hist" ELSE "lock")
    /\ atomics' = CASE worker[w].kind = "request" -> [atomics EXCEPT !.total = @ + 1,
                                                                     !.active = @ - 1]
                    [] worker[w].kind = "call" -> [atomics EXCEPT !.ext = @ + 1]
                    [] OTHER -> [atomics EXCEPT !.db = @ + 1]
    /\ UNCHANGED <<lockVars, scraper, page, maps, durations, calls, scrapes>>
LockWaits(w) == /\ worker[w].pc = "lock" /\ Move(w, "wait") /\ Announce(w)
                /\ UNCHANGED <<scraper, page, atomics, maps, durations, calls, scrapes>>
LockTaken(w) == /\ worker[w].pc = "wait" /\ Move(w, "file") /\ Acquire(w)
                /\ UNCHANGED <<scraper, page, atomics, maps, durations, calls, scrapes>>
\* A request is filed by status, with its sample, before mu is released.
FileRequest(w) ==
    /\ worker[w].pc = "file" /\ worker[w].kind = "request"
    /\ maps' = [maps EXCEPT !.byStatus = @ + 1, !.badStatus = Plus(@, worker[w].bad)]
    /\ atomics' = [atomics EXCEPT !.errors = Plus(@, worker[w].bad)]
    /\ durations' = durations + 1
    /\ Unlock /\ Move(w, "idle")
    /\ UNCHANGED <<scraper, page, calls, scrapes>>
\* A call is filed, and its module under a second lock (RecordLLMCallByModule);
\* its sample is added with mu released.
FileCall(w) ==
    /\ worker[w].pc = "file" /\ worker[w].kind = "call"
    /\ maps' = [maps EXCEPT !.llm = @ + 1] /\ Unlock /\ Move(w, "hist")
    /\ UNCHANGED <<scraper, page, atomics, durations, calls, scrapes>>
AddSample(w) ==
    /\ worker[w].pc = "hist" /\ durations' = durations + 1
    /\ Move(w, IF worker[w].kind = "call" THEN "module" ELSE "idle")
    /\ UNCHANGED <<lockVars, scraper, page, atomics, maps, calls, scrapes>>
ModuleWaits(w) == /\ worker[w].pc = "module" /\ Move(w, "moduleWait") /\ Announce(w)
                  /\ UNCHANGED <<scraper, page, atomics, maps, durations, calls, scrapes>>
FileModule(w) ==
    /\ worker[w].pc = "moduleWait" /\ writer = w /\ \A s \in Scrapers : readers[s] = 0
    /\ maps' = [maps EXCEPT !.byModule = @ + 1] /\ Unlock /\ Move(w, "idle")
    /\ UNCHANGED <<scraper, page, atomics, durations, calls, scrapes>>

--------------------------------------------------------------------------
Place(s, pc) == scraper' = [scraper EXCEPT ![s] = pc]
workerVars == <<worker, atomics, maps, durations, calls>>
Scrape(s) ==
    /\ scraper[s] = "idle" /\ scrapes < MaxScrapes /\ scrapes' = scrapes + 1
    /\ RLock(s) /\ Place(s, "totals") /\ page' = [page EXCEPT ![s] = NoPage]
    /\ UNCHANGED workerVars
WriteTotals(s) ==
    /\ scraper[s] = "totals" /\ Place(s, "maps")
    /\ page' = [page EXCEPT ![s].total = atomics.total, ![s].errors = atomics.errors]
    /\ UNCHANGED <<lockVars, workerVars, scrapes>>
WriteMaps(s) ==
    /\ scraper[s] = "maps" /\ Place(s, "llm")
    /\ page' = [page EXCEPT ![s].byStatus = maps.byStatus, ![s].badStatus = maps.badStatus,
                            ![s].ext = atomics.ext]
    /\ UNCHANGED <<lockVars, workerVars, scrapes>>
\* The nested read locks: model calls; calls by module; synchronisation; cron.
Nested == {"llm", "module", "sync", "cron"}
SectionAfter(pc) == CASE pc = "llm" -> "module" [] pc = "module" -> "sync" [] pc = "sync" -> "hist"
               [] OTHER -> "jobs"
NestedRLock(s) ==
    /\ scraper[s] \in Nested /\ readers[s] = 1 /\ RLock(s)
    /\ UNCHANGED <<scraper, page, workerVars, scrapes>>
NestedRead(s) ==
    /\ scraper[s] \in Nested /\ readers[s] = 2 /\ RUnlock(s) /\ Place(s, SectionAfter(scraper[s]))
    /\ page' = CASE scraper[s] = "llm" -> [page EXCEPT ![s].llm = maps.llm]
                 [] scraper[s] = "module" -> [page EXCEPT ![s].byModule = maps.byModule]
                 [] OTHER -> page
    /\ UNCHANGED <<workerVars, scrapes>>
WriteHistograms(s) ==
    /\ scraper[s] = "hist" /\ Place(s, "cron")
    /\ page' = [page EXCEPT ![s].samples = durations]
    /\ UNCHANGED <<lockVars, workerVars, scrapes>>
ScrapeEnds(s) == /\ scraper[s] = "jobs" /\ RUnlock(s) /\ Place(s, "idle")
                 /\ UNCHANGED <<page, workerVars, scrapes>>

MetricsNext ==
    \/ \E w \in Workers :
        \/ \E kind \in RecordKinds, bad \in BOOLEAN : BeginRecord(w, kind, bad)
        \/ Count(w) \/ LockWaits(w) \/ LockTaken(w) \/ FileRequest(w) \/ FileCall(w)
        \/ AddSample(w) \/ ModuleWaits(w) \/ FileModule(w)
    \/ \E s \in Scrapers : \/ Scrape(s) \/ WriteTotals(s) \/ WriteMaps(s) \/ NestedRLock(s)
                           \/ NestedRead(s) \/ WriteHistograms(s) \/ ScrapeEnds(s)

MetricsSpec == MetricsInit /\ [][MetricsNext]_metricVars

MetricsTypeOK ==
    /\ writer \in Workers \cup {"none"} /\ (holds => writer # "none")
    /\ readers \in [Scrapers -> 0..2] /\ calls \in 0..MaxCalls
    /\ \A w \in Workers : worker[w].kind \in RecordKinds

\* A page that has passed the maps is one state of the counters, although it is
\* read in pieces: the statuses add up to no more requests than the total, the
\* errors are those of the statuses, and no module has calls that are not calls.
PageConsistent == \A s \in Scrapers : scraper[s] \in {"hist", "cron", "jobs"} =>
    /\ page[s].byStatus <= page[s].total /\ page[s].errors = page[s].badStatus
    /\ page[s].byModule <= page[s].llm /\ page[s].llm <= page[s].ext
\* When nobody records, what has been counted is what has been filed.
AllFiled == (\A w \in Workers : worker[w].pc = "idle") =>
    /\ atomics.active = 0 /\ maps.byStatus = atomics.total /\ maps.badStatus = atomics.errors
    /\ maps.llm = atomics.ext /\ maps.byModule = maps.llm
    /\ durations = atomics.total + atomics.ext + atomics.db
MetricsSound == PageConsistent /\ AllFiled

\* The collector serves goroutines that record while others scrape: never is a
\* scraper kept out of a nested section by a worker that waits for it to leave.
NobodyStuck == \A s \in Scrapers, w \in Workers :
    ~(scraper[s] \in Nested /\ readers[s] = 1 /\ writer = w /\ ~holds)
=============================================================================
