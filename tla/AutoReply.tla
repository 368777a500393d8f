----------------------------- MODULE AutoReply -----------------------------
(***************************************************************************)
(* Replies to the bad reviews of one shop: the intake of Judge.me reviews  *)
(* (service/judgeme/sync.go), the bus consumer that drafts and posts a     *)
(* reply (service/review/auto_reply_service.go), the merchant's dashboard  *)
(* (handler/review_auto_reply.go) and the cron endpoint that finishes      *)
(* pending replies (handler/cron.go).                                      *)
(*                                                                         *)
(* All of them write the status of the same reply_records row, one SQL     *)
(* statement at a time; the row's unique index is (shop, platform_id), so  *)
(* a review has at most one.  Every review here has a rating below 4.      *)
(***************************************************************************)
EXTENDS Integers, FiniteSets

CONSTANTS
    Review,       \* the reviews written on Judge.me
    Hook,         \* webhook requests being served at the same time
    Worker,       \* engines: each has one consumer of review.synced
    Request,      \* Approve requests being served at the same time
    Mode,         \* send modes the shop is set to over time
    EditStatus,   \* statuses the dashboard's edit form writes
    MaxAttempts,  \* maxRetries of postReplyWithRetry
    MaxHooks,     \* bound: webhooks processed for one review
    MaxFaults     \* bound: lost events, rejected writes, deaths of a consumer

Status == {"absent", "pending", "processing", "approved", "sent", "failed",
           "rejected", "skipped", "cancelled"}

ASSUME ModeAssumption == Mode \subseteq {"auto", "manual"}
ASSUME EditAssumption == EditStatus \subseteq Status \ {"absent"}
ASSUME BoundsAssumption == /\ MaxAttempts \in Nat \ {0}
                           /\ MaxHooks \in Nat
                           /\ MaxFaults \in Nat

VARIABLES
    synced,    \* reviews with a synced_reviews row
    hook,      \* hook[h]: where webhook request h is
    hooks,     \* hooks[r]: webhooks processed for r so far
    events,    \* events[r]: review.synced events waiting for a consumer
    status,    \* status[r]: of the reply_records row, or "absent"
    mode,      \* mode[r]: send_mode of the row
    work,      \* work[w]: where engine w is in handleReviewSynced
    approval,  \* approval[q]: review whose reply request q has to post
    cron,      \* rows the running cron request has loaded and not updated
    replied,   \* reviews with a public reply on Judge.me
    attempts,  \* history: attempts[r], posts made by the consumers
    decided,   \* history: rows given a final status before a consumer took them
    faults     \* history: faults so far

intake == <<synced, hook, hooks>>
record == <<status, mode, decided>>
vars == <<intake, events, record, work, approval, cron, replied, attempts, faults>>

None == "none"

FreeHook == [pc |-> "idle", r |-> None, answered |-> FALSE]
FreeWorker == [pc |-> "idle", r |-> None, tries |-> 0]

TypeOK ==
    /\ synced \subseteq Review
    /\ hook \in [Hook -> [pc : {"idle", "insert"}, r : Review \union {None},
                          answered : BOOLEAN]]
    /\ hooks \in [Review -> 0 .. MaxHooks]
    /\ events \in [Review -> Nat]
    /\ status \in [Review -> Status]
    /\ mode \in [Review -> {"auto", "manual"}]
    /\ work \in [Worker ->
          [pc : {"idle", "check", "create", "claim", "post", "wait", "sent", "failed"},
           r : Review \union {None}, tries : 0 .. MaxAttempts]]
    /\ approval \in [Request -> Review \union {None}]
    /\ cron \subseteq Review
    /\ replied \subseteq Review
    /\ attempts \in [Review -> Nat]
    /\ decided \subseteq Review
    /\ faults \in 0 .. MaxFaults

Init ==
    /\ synced = {}
    /\ hook = [h \in Hook |-> FreeHook]
    /\ hooks = [r \in Review |-> 0]
    /\ events = [r \in Review |-> 0]
    /\ status = [r \in Review |-> "absent"]
    /\ mode = [r \in Review |-> "manual"]
    /\ work = [w \in Worker |-> FreeWorker]
    /\ approval = [q \in Request |-> None]
    /\ cron = {}
    /\ replied = {}
    /\ attempts = [r \in Review |-> 0]
    /\ decided = {}
    /\ faults = 0

Fault == faults < MaxFaults /\ faults' = faults + 1

-----------------------------------------------------------------------------
(* Intake.  A webhook reads the review, with its public reply if it has one *)
(* by then; the full sync of the cron or of the dashboard only stores rows. *)

SyncRow(r) ==
    /\ r \notin synced
    /\ synced' = synced \union {r}
    /\ UNCHANGED <<hook, hooks, events, record, work, approval, cron, replied,
                   attempts, faults>>

Receive(h, r) ==
    /\ hook[h].pc = "idle"
    /\ hooks[r] < MaxHooks
    /\ hooks' = [hooks EXCEPT ![r] = @ + 1]

\* ProcessNewReview ends when it counts a row of the review, and goes on when
\* it counts none or the count fails.
ProcessNewReview(h, r) ==
    \/ r \in synced /\ UNCHANGED <<hook, faults>>
    \/ /\ (r \notin synced /\ UNCHANGED faults) \/ Fault
       /\ hook' = [hook EXCEPT ![h] = [pc |-> "insert", r |-> r,
                                       answered |-> r \in replied]]

\* An event of a review that has a reply is dropped by its consumer.
PublishReviewSynced(r, answered) ==
    events' = IF answered THEN events ELSE [events EXCEPT ![r] = @ + 1]

ReviewCreated(h, r) ==
    /\ Receive(h, r)
    /\ ProcessNewReview(h, r)
    /\ UNCHANGED <<synced, events, record, work, approval, cron, replied, attempts>>

ReviewUpdated(h, r) ==
    /\ Receive(h, r)
    /\ IF r \in synced
       THEN PublishReviewSynced(r, r \in replied) /\ UNCHANGED <<hook, faults>>
       ELSE ProcessNewReview(h, r) /\ UNCHANGED events
    /\ UNCHANGED <<synced, record, work, approval, cron, replied, attempts>>

\* The upsert and the event that follows it.
InsertReview(h) ==
    LET r == hook[h].r
    IN  /\ hook[h].pc = "insert"
        /\ synced' = synced \union {r}
        /\ PublishReviewSynced(r, hook[h].answered)
        /\ hook' = [hook EXCEPT ![h] = FreeHook]
        /\ UNCHANGED <<hooks, record, work, approval, cron, replied, attempts, faults>>

InsertReviewFails(h) ==
    /\ hook[h].pc = "insert"
    /\ Fault
    /\ hook' = [hook EXCEPT ![h] = FreeHook]
    /\ UNCHANGED <<synced, hooks, events, record, work, approval, cron, replied,
                   attempts>>

\* XADD fails, an earlier handler of the event or the query for the shop's
\* settings fails, or the consumer that has read the event dies before it.
LoseEvent(r) ==
    /\ events[r] > 0
    /\ Fault
    /\ events' = [events EXCEPT ![r] = @ - 1]
    /\ UNCHANGED <<intake, record, work, approval, cron, replied, attempts>>

\* The merchant answers on Judge.me itself.
AnswerOnPlatform(r) ==
    /\ r \notin replied
    /\ replied' = replied \union {r}
    /\ UNCHANGED <<intake, events, record, work, approval, cron, attempts, faults>>

-----------------------------------------------------------------------------
(* handleReviewSynced.                                                      *)

Engaged(w, pcs, r) == work[w].pc \in pcs /\ work[w].r = r

Taken(r) == \E w \in Worker : Engaged(w, {"post", "wait", "sent", "failed"}, r)

TakeEvent(w, r) ==
    /\ work[w].pc = "idle"
    /\ events[r] > 0
    /\ events' = [events EXCEPT ![r] = @ - 1]
    /\ work' = [work EXCEPT ![w] = [pc |-> "check", r |-> r, tries |-> 0]]
    /\ UNCHANGED <<intake, record, approval, cron, replied, attempts, faults>>

\* Seeded bug: asks whether the review is known, not whether it has a reply.
CheckRecordOfReview(w) ==
    /\ work[w].pc = "check"
    /\ work' = [work EXCEPT ![w] = IF work[w].r \in synced
                                   THEN FreeWorker ELSE [@ EXCEPT !.pc = "create"]]
    /\ UNCHANGED <<intake, events, record, approval, cron, replied, attempts, faults>>

CheckRecord(w) ==
    /\ work[w].pc = "check"
    /\ work' = [work EXCEPT ![w] = IF status[work[w].r] # "absent"
                                   THEN FreeWorker ELSE [@ EXCEPT !.pc = "create"]]
    /\ UNCHANGED <<intake, events, record, approval, cron, replied, attempts, faults>>

\* A query that fails counts as no row.
CheckRecordFails(w) ==
    /\ work[w].pc = "check"
    /\ Fault
    /\ work' = [work EXCEPT ![w].pc = "create"]
    /\ UNCHANGED <<intake, events, record, approval, cron, replied, attempts>>

\* Seeded bug: the index of the rows is not unique.
CreateAnother(w) ==
    LET r == work[w].r
    IN  /\ work[w].pc = "create"
        /\ status' = [status EXCEPT ![r] = "pending"]
        /\ \E m \in Mode :
              /\ mode' = [mode EXCEPT ![r] = m]
              /\ work' = [work EXCEPT ![w] = IF m = "auto"
                             THEN [@ EXCEPT !.pc = "claim"] ELSE FreeWorker]
        /\ UNCHANGED <<intake, events, decided, approval, cron, replied, attempts, faults>>

\* A second row of a review violates the unique index and ends the handler.
CreateRecord(w) ==
    LET r == work[w].r
    IN  /\ work[w].pc = "create"
        /\ \/ /\ status[r] # "absent"
              /\ work' = [work EXCEPT ![w] = FreeWorker]
              /\ UNCHANGED record
           \/ /\ status[r] = "absent"
              /\ status' = [status EXCEPT ![r] = "pending"]
              /\ \E m \in Mode :
                    /\ mode' = [mode EXCEPT ![r] = m]
                    /\ work' = [work EXCEPT ![w] = IF m = "auto"
                                   THEN [@ EXCEPT !.pc = "claim"] ELSE FreeWorker]
              /\ UNCHANGED decided
        /\ UNCHANGED <<intake, events, approval, cron, replied, attempts, faults>>

CreateRecordFails(w) ==
    /\ work[w].pc = "create"
    /\ Fault
    /\ work' = [work EXCEPT ![w] = FreeWorker]
    /\ UNCHANGED <<intake, events, record, approval, cron, replied, attempts>>

\* The shop has no active Judge.me setting, so there is no adapter.
NoAdapter(w) ==
    /\ work[w].pc = "claim"
    /\ work' = [work EXCEPT ![w] = FreeWorker]
    /\ UNCHANGED <<intake, events, record, approval, cron, replied, attempts, faults>>

\* Seeded bug: the update to "processing" does not ask for "pending".
ClaimAny(w) ==
    /\ work[w].pc = "claim"
    /\ status' = [status EXCEPT ![work[w].r] = "processing"]
    /\ work' = [work EXCEPT ![w].pc = "post"]
    /\ UNCHANGED <<intake, events, mode, decided, approval, cron, replied,
                   attempts, faults>>

\* UPDATE ... SET status = 'processing' WHERE id = ? AND status = 'pending'.
Claim(w) ==
    LET r == work[w].r
    IN  /\ work[w].pc = "claim"
        /\ IF status[r] = "pending"
           THEN /\ status' = [status EXCEPT ![r] = "processing"]
                /\ work' = [work EXCEPT ![w].pc = "post"]
           ELSE /\ work' = [work EXCEPT ![w] = FreeWorker]
                /\ UNCHANGED status
        /\ UNCHANGED <<intake, events, mode, decided, approval, cron, replied,
                       attempts, faults>>

-----------------------------------------------------------------------------
(* The attempts of postReplyWithRetry.  Judge.me takes one reply for a      *)
(* review and answers 422 to a second one.                                  *)

\* The attempt leaves work[w] at next and platform at what Judge.me did.
Attempt(w, next, countsAsFailed) ==
    /\ work[w].pc = "post"
    /\ work' = [work EXCEPT ![w] =
          [pc |-> next, r |-> work[w].r,
           tries |-> work[w].tries + (IF countsAsFailed THEN 1 ELSE 0)]]
    /\ attempts' = [attempts EXCEPT ![work[w].r] = @ + 1]
    /\ UNCHANGED <<intake, events, record, approval, cron, faults>>

PostAccepted(w) ==
    /\ Attempt(w, "sent", FALSE)
    /\ work[w].r \notin replied
    /\ replied' = replied \union {work[w].r}

PostAlreadyReplied(w) ==
    /\ Attempt(w, "sent", TRUE)
    /\ work[w].r \in replied
    /\ UNCHANGED replied

PostUnauthorized(w) == Attempt(w, "failed", TRUE) /\ UNCHANGED replied

\* Any other error, with the reply stored or not.
PostFails(w) ==
    /\ Attempt(w, "wait", TRUE)
    /\ replied' \in {replied, replied \union {work[w].r}}

BackOff(w) ==
    /\ work[w].pc = "wait"
    /\ work' = [work EXCEPT ![w].pc = IF work[w].tries < MaxAttempts
                                      THEN "post" ELSE "failed"]
    /\ UNCHANGED <<intake, events, record, approval, cron, replied, attempts, faults>>

\* The final update, by primary key alone; its error is only logged.
Settle(w) ==
    /\ work[w].pc \in {"sent", "failed"}
    /\ status' = [status EXCEPT ![work[w].r] = work[w].pc]
    /\ work' = [work EXCEPT ![w] = FreeWorker]
    /\ UNCHANGED <<intake, events, mode, decided, approval, cron, replied,
                   attempts, faults>>

SettleFails(w) ==
    /\ work[w].pc \in {"sent", "failed"}
    /\ Fault
    /\ work' = [work EXCEPT ![w] = FreeWorker]
    /\ UNCHANGED <<intake, events, record, approval, cron, replied, attempts>>

\* The engine stops or crashes in the handler; nothing takes the row up again.
Die(w) ==
    /\ work[w].pc # "idle"
    /\ Fault
    /\ work' = [work EXCEPT ![w] = FreeWorker]
    /\ UNCHANGED <<intake, events, record, approval, cron, replied, attempts>>

-----------------------------------------------------------------------------
(* The dashboard.  No handler looks at the status it overwrites.            *)

Decide(r, s) ==
    /\ status' = [status EXCEPT ![r] = s]
    /\ decided' = IF s = "pending" THEN decided \ {r}
                  ELSE IF Taken(r) THEN decided ELSE decided \union {r}

\* "sent" is stored first and the reply is posted afterwards.
Approve(q, r) ==
    /\ approval[q] = None
    /\ status[r] # "absent"
    /\ Decide(r, "sent")
    /\ approval' = [approval EXCEPT ![q] = r]
    /\ UNCHANGED <<intake, events, mode, work, cron, replied, attempts, faults>>

\* PostReply of the approval succeeds, or fails and the request answers 500.
PostApproved(q) ==
    LET r == approval[q]
    IN  /\ r # None
        /\ replied' \in {replied, replied \union {r}}
        /\ approval' = [approval EXCEPT ![q] = None]
        /\ UNCHANGED <<intake, events, record, work, cron, attempts, faults>>

Reject(r) ==
    /\ status[r] # "absent"
    /\ Decide(r, "rejected")
    /\ UNCHANGED <<intake, events, mode, work, approval, cron, replied, attempts, faults>>

Edit(r, s) ==
    /\ status[r] # "absent"
    /\ Decide(r, s)
    /\ UNCHANGED <<intake, events, mode, work, approval, cron, replied, attempts, faults>>

\* A row drafted on request is always manual.
Generate(r) ==
    /\ status[r] = "absent"
    /\ status' = [status EXCEPT ![r] = "pending"]
    /\ UNCHANGED <<intake, events, mode, decided, work, approval, cron, replied,
                   attempts, faults>>

-----------------------------------------------------------------------------
(* ProcessAutoReply of the cron: the rows it loads are set to "sent" one by *)
(* one, by primary key alone, and nothing is posted.                        *)

\* Seeded bug: the query asks for the other send mode.
LoadManual ==
    /\ cron = {}
    /\ cron' = {r \in Review : status[r] = "pending" /\ mode[r] = "manual"}
    /\ cron' # {}
    /\ UNCHANGED <<intake, events, record, work, approval, replied, attempts, faults>>

LoadPending ==
    /\ cron = {}
    /\ cron' = {r \in Review : status[r] = "pending" /\ mode[r] = "auto"}
    /\ cron' # {}
    /\ UNCHANGED <<intake, events, record, work, approval, replied, attempts, faults>>

MarkSent(r) ==
    /\ r \in cron
    /\ cron' = cron \ {r}
    /\ Decide(r, "sent")
    /\ UNCHANGED <<intake, events, mode, work, approval, replied, attempts, faults>>

MarkSentFails(r) ==
    /\ r \in cron
    /\ Fault
    /\ cron' = cron \ {r}
    /\ UNCHANGED <<intake, events, record, work, approval, replied, attempts>>

-----------------------------------------------------------------------------

Intake ==
    \/ \E r \in Review : SyncRow(r) \/ LoseEvent(r) \/ AnswerOnPlatform(r)
    \/ \E h \in Hook, r \in Review : ReviewCreated(h, r) \/ ReviewUpdated(h, r)
    \/ \E h \in Hook : InsertReview(h) \/ InsertReviewFails(h)

Post(w) ==
    \/ PostAccepted(w) \/ PostAlreadyReplied(w)
    \/ PostUnauthorized(w) \/ PostFails(w)

Handle(w) ==
    \/ CheckRecord(w) \/ CreateRecord(w) \/ NoAdapter(w) \/ Claim(w)
    \/ Post(w) \/ BackOff(w) \/ Settle(w)

Consume ==
    \E w \in Worker :
        \/ \E r \in Review : TakeEvent(w, r)
        \/ Handle(w)
        \/ CheckRecordFails(w) \/ CreateRecordFails(w) \/ SettleFails(w) \/ Die(w)

Dashboard ==
    \/ \E q \in Request, r \in Review : Approve(q, r)
    \/ \E q \in Request : PostApproved(q)
    \/ \E r \in Review : Reject(r) \/ Generate(r)
    \/ \E r \in Review, s \in EditStatus : Edit(r, s)

Cron == LoadPending \/ \E r \in Review : MarkSent(r) \/ MarkSentFails(r)

Next == Intake \/ Consume \/ Dashboard \/ Cron

Spec == Init /\ [][Next]_vars

(***************************************************************************)
(* Requests and handlers that are running go on; a waiting event is taken  *)
(* by an engine that is free, whichever it is; the scheduler outside the   *)
(* repository calls the cron endpoint again and again.  Webhooks, the      *)
(* merchant and faults are owed nothing.                                   *)
(***************************************************************************)
Fairness ==
    /\ \A h \in Hook : WF_vars(InsertReview(h))
    /\ \A r \in Review : SF_vars(\E w \in Worker : TakeEvent(w, r))
    /\ \A w \in Worker : WF_vars(Handle(w))
    /\ \A q \in Request : WF_vars(PostApproved(q))
    /\ WF_vars(LoadPending)
    /\ \A r \in Review : WF_vars(MarkSent(r))

FairSpec == Spec /\ Fairness

-----------------------------------------------------------------------------
(* Properties.                                                              *)

\* However many events and engines a review has, one handler at a time posts
\* its reply: the unique index lets one create the row and only the creator
\* goes on to post.
OnePoster ==
    \A v, w \in Worker :
        /\ work[v].pc \in {"post", "wait", "sent", "failed"}
        /\ Engaged(w, {"post", "wait", "sent", "failed"}, work[v].r)
        => v = w

\* The consumers make at most MaxAttempts posts for a review in all, over
\* duplicate events, restarts and edits of the row (service loop and index).
AttemptsBounded == \A r \in Review : attempts[r] <= MaxAttempts

\* A row that the merchant or the cron gave a final status before a consumer
\* took it is not posted by a consumer: the conditional update to
\* "processing" sees the decision.
DecidedIsNotPosted == \A r \in Review : r \in decided => ~Taken(r)

\* A pending reply of the mode "auto" is settled, whatever happened to the
\* engine that drafted it (the cron endpoint finishes it).
PendingAutoIsSettled ==
    \A r \in Review :
        status[r] = "pending" /\ mode[r] = "auto" ~> status[r] # "pending"

\* Without faults every published review.synced event of a review leads to a
\* reply row for it.
EventIsRecorded ==
    \A r \in Review : events[r] > 0 ~> status[r] # "absent" \/ faults > 0

\* model/models.go says of the status "sent": successfully posted.  The one
\* exception granted here is an approval that has its post still to make.
SentWasPosted ==
    \A r \in Review :
        status[r] = "sent" /\ (\A q \in Request : approval[q] # r) => r \in replied
=============================================================================
