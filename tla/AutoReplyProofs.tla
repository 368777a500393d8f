-------------------------- MODULE AutoReplyProofs --------------------------
(***************************************************************************)
(* One consumer posts the reply of a review, with bounded attempts and     *)
(* never after a decision, for any number of reviews, engines, webhooks    *)
(* and faults.                                                             *)
(*                                                                         *)
(* The engine that creates a review's row owns the review until its        *)
(* handler ends.  The unique index makes ownership exclusive, and since a  *)
(* row never disappears it is not handed on: that is why attempts can be   *)
(* counted per review and not only per engine.                             *)
(*                                                                         *)
(* At the end, the other thing a shop shows in public: the theorem of      *)
(* Visibility, that no copy outlives a deletion it did not race.           *)
(***************************************************************************)
EXTENDS AutoReply, Visibility, FiniteSetTheorems, TLAPS

Task == [pc : {"idle", "check", "create", "claim", "post", "wait", "sent",
               "failed"},
         r : Review \union {None}, tries : 0 .. MaxAttempts]

Owning == {"claim", "post", "wait", "sent", "failed"}

Owns(w, r) == Engaged(w, Owning, r)

(* A handler that is running has a review, and has made no attempt before  *)
(* its claim; nor is a webhook without a review.                           *)
Begun ==
    \A w \in Worker :
        /\ work[w].pc # "idle" => work[w].r \in Review
        /\ work[w].pc \in {"check", "create", "claim"} => work[w].tries = 0

Received == \A h \in Hook : hook[h].pc = "insert" => hook[h].r \in Review

OneOwner ==
    \A r \in Review, v, w \in Worker : Owns(v, r) /\ Owns(w, r) => v = w

OwnedHasRow ==
    \A r \in Review, w \in Worker : Owns(w, r) => status[r] # "absent"

(* The owner's own count is the review's, up to the attempt that ends it.  *)
Counted(w, r) ==
    /\ work[w].pc \in {"claim", "post", "wait"} => attempts[r] = work[w].tries
    /\ work[w].pc = "post" => work[w].tries < MaxAttempts

AttemptsCounted ==
    \A r \in Review :
        /\ attempts[r] <= MaxAttempts
        /\ status[r] = "absent" => attempts[r] = 0
        /\ \A w \in Worker : Owns(w, r) => Counted(w, r)

DecidedStays ==
    \A r \in decided :
        /\ status[r] \notin {"absent", "pending"}
        /\ ~Taken(r)

IInv == /\ TypeOK
        /\ Received
        /\ Begun
        /\ OneOwner
        /\ OwnedHasRow
        /\ AttemptsCounted
        /\ DecidedStays

(* Nothing has happened yet.                                               *)
LEMMA InitInv == Init => IInv
<1> SUFFICES ASSUME Init PROVE IInv
    OBVIOUS
<1> USE BoundsAssumption, ModeAssumption
    DEF Init, FreeHook, FreeWorker
<1>1. TypeOK
  BY DEF TypeOK, Status
<1>2. Received /\ Begun /\ OneOwner /\ OwnedHasRow /\ DecidedStays
  BY DEF Received, Begun, OneOwner, OwnedHasRow, DecidedStays, Owns, Engaged, Owning
<1>3. AttemptsCounted
  BY DEF AttemptsCounted, Owns, Engaged, Owning
<1> QED BY <1>1, <1>2, <1>3 DEF IInv

-----------------------------------------------------------------------------
(* Frames: what a step that leaves the engines, or the rows, alone keeps.  *)

(* The parts of the invariant that speak of the engines and the rows.      *)
Ownership == /\ Begun
             /\ OneOwner
             /\ OwnedHasRow
             /\ AttemptsCounted
             /\ DecidedStays

LEMMA Untouched ==
  ASSUME Ownership, UNCHANGED <<record, work, attempts>>
  PROVE  Ownership'
  BY DEF Ownership, Begun, OneOwner, OwnedHasRow, AttemptsCounted, Counted,
         DecidedStays, Owns, Owning, Engaged, Taken, record

(* Writing a status other than "absent" outside the consumer.              *)
LEMMA DecideKeeps ==
  ASSUME TypeOK, Ownership, NEW r \in Review, NEW s \in Status \ {"absent"},
         Decide(r, s), UNCHANGED <<mode, work, attempts>>
  PROVE  Ownership'
<1>1. \A q \in Review : status'[q] = IF q = r THEN s ELSE status[q]
  BY DEF Decide, TypeOK
<1>2. (Begun /\ OneOwner)'
  BY DEF Ownership, Begun, OneOwner, Owns, Engaged, Owning
<1>3. OwnedHasRow' /\ AttemptsCounted'
  BY <1>1 DEF Ownership, OwnedHasRow, AttemptsCounted, Counted, Owns, Engaged,
              Owning, Status
<1>4. DecidedStays'
  <2> SUFFICES ASSUME NEW q \in decided'
               PROVE  status'[q] \notin {"absent", "pending"} /\ ~Taken(q)'
      BY DEF DecidedStays
  <2>1. Taken(q)' <=> Taken(q)
    BY DEF Taken, Engaged
  <2>2. CASE q = r
    BY <1>1, <2>1, <2>2 DEF Decide, Ownership, DecidedStays, TypeOK
  <2>3. CASE q # r
    BY <1>1, <2>1, <2>3 DEF Decide, Ownership, DecidedStays, TypeOK
  <2> QED BY <2>2, <2>3
<1> QED BY <1>2, <1>3, <1>4 DEF Ownership

(* An engine that ends its handler, or has not come to its row yet.        *)
LEMMA ReleaseKeeps ==
  ASSUME TypeOK, Ownership, NEW w \in Worker, NEW e \in Task,
         e.pc \in {"idle", "check", "create"}, e.tries = 0,
         e.pc # "idle" => e.r \in Review,
         work' = [work EXCEPT ![w] = e], UNCHANGED <<record, attempts>>
  PROVE  Ownership'
<1>1. \A v \in Worker : work'[v] = IF v = w THEN e ELSE work[v]
  BY DEF TypeOK
<1>2. \A v \in Worker : \A r : Owns(v, r)' => v # w /\ Owns(v, r)
  BY <1>1 DEF Owns, Engaged, Owning
<1>3. Begun'
  BY <1>1 DEF Ownership, Begun
<1>4. OneOwner' /\ OwnedHasRow'
  BY <1>2 DEF Ownership, OneOwner, OwnedHasRow, record
<1>5. AttemptsCounted'
  BY <1>1, <1>2 DEF Ownership, AttemptsCounted, Counted, record
<1>6. DecidedStays'
  <2>1. \A r : Taken(r)' => Taken(r)
    BY <1>1 DEF Taken, Engaged
  <2> QED BY <2>1 DEF Ownership, DecidedStays, record
<1> QED BY <1>3, <1>4, <1>5, <1>6 DEF Ownership

(* An owner that goes on with its review: it owns what it owned, and only  *)
(* its own attempts move.                                                  *)
LEMMA OwnerGoesOn ==
  ASSUME TypeOK, Ownership, NEW w \in Worker, NEW r \in Review, Owns(w, r),
         NEW e \in Task, e.pc \in Owning \ {"claim"}, e.r = r,
         work' = [work EXCEPT ![w] = e],
         \A q \in Review \ {r} : attempts'[q] = attempts[q],
         attempts'[r] \in Nat, attempts'[r] <= MaxAttempts,
         e.pc \in {"post", "wait"} => attempts'[r] = e.tries,
         e.pc = "post" => e.tries < MaxAttempts,
         \A q \in Review \ {r} : status'[q] = status[q],
         status'[r] # "absent", r \notin decided, UNCHANGED decided
  PROVE  Ownership'
<1>1. \A v \in Worker : work'[v] = IF v = w THEN e ELSE work[v]
  BY DEF TypeOK
<1>2. \A v \in Worker : \A q : Owns(v, q)' <=> Owns(v, q)
  BY <1>1 DEF Owns, Engaged, Owning
<1>3. Begun'
  BY <1>1 DEF Ownership, Begun, Owning
<1>4. OneOwner' /\ OwnedHasRow'
  BY <1>2 DEF Ownership, OneOwner, OwnedHasRow
<1>5. AttemptsCounted'
  <2> SUFFICES ASSUME NEW q \in Review
               PROVE  /\ attempts'[q] <= MaxAttempts
                      /\ status'[q] = "absent" => attempts'[q] = 0
                      /\ \A v \in Worker : Owns(v, q)' => Counted(v, q)'
      BY DEF AttemptsCounted
  <2>1. CASE q # r
    <3>1. \A v \in Worker : Owns(v, q) => v # w
      BY <2>1 DEF Owns, Engaged
    <3> QED BY <1>1, <1>2, <2>1, <3>1 DEF Ownership, AttemptsCounted, Counted
  <2>2. CASE q = r
    <3>1. \A v \in Worker : Owns(v, q) => v = w
      BY <2>2 DEF Ownership, OneOwner
    <3> QED BY <1>1, <1>2, <2>2, <3>1 DEF Counted, Owning
  <2> QED BY <2>1, <2>2
<1>6. DecidedStays'
  <2>1. \A q : q # r => (Taken(q)' => Taken(q))
    BY <1>1 DEF Taken, Engaged
  <2>2. decided \subseteq Review
    BY DEF TypeOK
  <2> QED BY <2>1, <2>2 DEF Ownership, DecidedStays
<1> QED BY <1>3, <1>4, <1>5, <1>6 DEF Ownership

-----------------------------------------------------------------------------
(* Types.                                                                  *)

(* One engine's new task, with everything else of the type in place.       *)
LEMMA TaskType ==
  ASSUME TypeOK, NEW w \in Worker, NEW e \in Task, work' = [work EXCEPT ![w] = e]
  PROVE  work' \in [Worker -> Task]
  BY DEF TypeOK, Task

(* The tasks a handler goes through.                                       *)
LEMMA TaskMoves ==
  ASSUME TypeOK, NEW w \in Worker
  PROVE  /\ FreeWorker \in Task
         /\ \A pc \in {"create", "claim", "post", "wait", "sent", "failed"} :
               /\ [work[w] EXCEPT !.pc = pc] \in Task
               /\ [work[w] EXCEPT !.pc = pc].pc = pc
               /\ [work[w] EXCEPT !.pc = pc].r = work[w].r
               /\ [work[w] EXCEPT !.pc = pc].tries = work[w].tries
  BY BoundsAssumption DEF TypeOK, Task, FreeWorker

LEMMA IntakeType == TypeOK /\ Received /\ Intake => TypeOK' /\ Received'
<1> SUFFICES ASSUME TypeOK, Received, Intake PROVE TypeOK' /\ Received'
    OBVIOUS
<1> USE BoundsAssumption DEF TypeOK, Received, record, intake, Fault
<1>1. ASSUME NEW r \in Review, SyncRow(r) PROVE TypeOK' /\ Received'
  BY <1>1 DEF SyncRow
<1>2. ASSUME NEW r \in Review, LoseEvent(r) PROVE TypeOK' /\ Received'
  <2>1. events' \in [Review -> Nat]
    BY <1>2 DEF LoseEvent
  <2> QED BY <1>2, <2>1 DEF LoseEvent
<1>3. ASSUME NEW r \in Review, AnswerOnPlatform(r) PROVE TypeOK' /\ Received'
  BY <1>3 DEF AnswerOnPlatform
<1>4. ASSUME NEW h \in Hook, NEW r \in Review,
             ReviewCreated(h, r) \/ ReviewUpdated(h, r)
      PROVE  TypeOK' /\ Received'
  <2>1. hooks' \in [Review -> 0 .. MaxHooks]
    BY <1>4 DEF ReviewCreated, ReviewUpdated, Receive
  <2>2. events' \in [Review -> Nat]
    BY <1>4 DEF ReviewCreated, ReviewUpdated, PublishReviewSynced
  <2>3. /\ hook' \in [Hook -> [pc : {"idle", "insert"},
                               r : Review \union {None}, answered : BOOLEAN]]
        /\ Received'
    <3> DEFINE e == [pc |-> "insert", r |-> r, answered |-> r \in replied]
    <3>1. hook' = hook \/ hook' = [hook EXCEPT ![h] = e]
      BY <1>4 DEF ReviewCreated, ReviewUpdated, ProcessNewReview
    <3>2. CASE hook' = hook
      BY <3>2
    <3>3. CASE hook' = [hook EXCEPT ![h] = e]
      BY <3>3
    <3> QED BY <3>1, <3>2, <3>3
  <2>4. faults' \in 0 .. MaxFaults
    BY <1>4 DEF ReviewCreated, ReviewUpdated, ProcessNewReview
  <2> QED BY <1>4, <2>1, <2>2, <2>3, <2>4 DEF ReviewCreated, ReviewUpdated
<1>5. ASSUME NEW h \in Hook, InsertReview(h) PROVE TypeOK' /\ Received'
  <2>1. PICK r \in Review : r = hook[h].r
    BY <1>5 DEF InsertReview
  <2>2. events' \in [Review -> Nat]
    BY <1>5, <2>1 DEF InsertReview, PublishReviewSynced
  <2> QED BY <1>5, <2>1, <2>2 DEF InsertReview, FreeHook
<1>6. ASSUME NEW h \in Hook, InsertReviewFails(h) PROVE TypeOK' /\ Received'
  BY <1>6 DEF InsertReviewFails, FreeHook
<1> QED BY <1>1, <1>2, <1>3, <1>4, <1>5, <1>6 DEF Intake

(* The steps of the consumer only need the types of what they change.      *)
LEMMA ConsumeType ==
  ASSUME TypeOK, Begun, AttemptsCounted, Consume
  PROVE  TypeOK'
<1> USE BoundsAssumption, ModeAssumption
<1>1. PICK w \in Worker : \/ \E r \in Review : TakeEvent(w, r)
                          \/ Handle(w)
                          \/ CheckRecordFails(w) \/ CreateRecordFails(w)
                          \/ SettleFails(w) \/ Die(w)
  BY DEF Consume
<1>2. ASSUME NEW e \in Task, work' = [work EXCEPT ![w] = e],
             status' \in [Review -> Status],
             mode' \in [Review -> {"auto", "manual"}],
             events' \in [Review -> Nat],
             attempts' \in [Review -> Nat], replied' \subseteq Review,
             UNCHANGED <<intake, decided, approval, cron>>,
             faults' = faults \/ Fault
      PROVE  TypeOK'
  <2>1. work' \in [Worker -> Task]
    BY <1>2, TaskType
  <2>2. faults' \in 0 .. MaxFaults
    BY <1>2 DEF TypeOK, Fault
  <2> QED BY <1>2, <2>1, <2>2 DEF TypeOK, intake, Task
<1>3. ASSUME NEW e \in Task, work' = [work EXCEPT ![w] = e],
             UNCHANGED <<intake, events, record, approval, cron, replied, attempts>>,
             faults' = faults \/ Fault
      PROVE  TypeOK'
  BY <1>2, <1>3 DEF TypeOK, record
<1>4. CASE \E r \in Review : TakeEvent(w, r)
  <2>1. PICK r \in Review : TakeEvent(w, r)
    BY <1>4
  <2> DEFINE e == [pc |-> "check", r |-> r, tries |-> 0]
  <2>2. e \in Task
    BY DEF Task
  <2>3. work' = [work EXCEPT ![w] = e]
    BY <2>1 DEF TakeEvent
  <2>4. events' \in [Review -> Nat]
    BY <2>1 DEF TakeEvent, TypeOK
  <2> HIDE DEF e
  <2> QED BY <1>2, <2>1, <2>2, <2>3, <2>4 DEF TakeEvent, TypeOK, record
<1>5. CASE \/ CheckRecord(w) \/ CheckRecordFails(w) \/ CreateRecordFails(w)
           \/ NoAdapter(w) \/ BackOff(w) \/ SettleFails(w) \/ Die(w)
  <2>1. PICK e \in Task : work' = [work EXCEPT ![w] = e]
    BY <1>5, TaskMoves
       DEF CheckRecord, CheckRecordFails, CreateRecordFails, NoAdapter, BackOff,
           SettleFails, Die
  <2> QED BY <1>3, <1>5, <2>1
          DEF CheckRecord, CheckRecordFails, CreateRecordFails, NoAdapter,
              BackOff, SettleFails, Die
<1>6. CASE CreateRecord(w)
  <2>1. PICK e \in Task : work' = [work EXCEPT ![w] = e]
    BY <1>6, TaskMoves DEF CreateRecord
  <2>2. status' \in [Review -> Status]
    BY <1>6 DEF CreateRecord, TypeOK, record, Status
  <2>3. mode' \in [Review -> {"auto", "manual"}]
    BY <1>6 DEF CreateRecord, TypeOK, record
  <2> QED BY <1>2, <1>6, <2>1, <2>2, <2>3 DEF CreateRecord, TypeOK, record
<1>7. CASE Claim(w) \/ Settle(w)
  <2>1. PICK e \in Task : work' = [work EXCEPT ![w] = e]
    BY <1>7, TaskMoves DEF Claim, Settle
  <2>2. status' \in [Review -> Status]
    <3>1. status \in [Review -> Status] /\ {"processing", "sent", "failed"} \subseteq Status
      BY DEF TypeOK, Status
    <3>2. CASE Claim(w)
      BY <3>1, <3>2 DEF Claim
    <3>3. CASE Settle(w)
      BY <3>1, <3>3 DEF Settle
    <3> QED BY <1>7, <3>2, <3>3
  <2>3. work' \in [Worker -> Task]
    <3>1. work \in [Worker -> Task]
      BY DEF TypeOK, Task
    <3> QED BY <2>1, <3>1
  <2>4. UNCHANGED <<intake, events, mode, decided, approval, cron, replied, attempts>>
    BY <1>7 DEF Claim, Settle
  <2>5. faults' = faults
    BY <1>7 DEF Claim, Settle
  <2> QED BY <2>2, <2>3, <2>4, <2>5 DEF TypeOK, Task, intake
<1>8. CASE Post(w)
  <2>1. work[w].pc = "post" /\ work[w].r \in Review /\ work[w].tries < MaxAttempts
    BY <1>8 DEF Post, PostAccepted, PostAlreadyReplied, PostUnauthorized,
                PostFails, Attempt, Begun, AttemptsCounted, Counted, Owns, Owning,
                Engaged
  <2>2. PICK r \in Review : r = work[w].r
    BY <2>1
  <2>3. ASSUME NEW next \in {"sent", "failed", "wait"}, NEW counts \in BOOLEAN,
               Attempt(w, next, counts), replied' \subseteq Review
        PROVE  TypeOK'
    <3> DEFINE e == [pc |-> next, r |-> work[w].r,
                     tries |-> work[w].tries + (IF counts THEN 1 ELSE 0)]
    <3>1. e \in Task
      BY <2>1 DEF TypeOK, Task
    <3>2. work' = [work EXCEPT ![w] = e]
      BY <2>3 DEF Attempt
    <3>3. attempts' \in [Review -> Nat]
      BY <2>2, <2>3 DEF Attempt, TypeOK
    <3> HIDE DEF e
    <3> QED BY <1>2, <2>3, <3>1, <3>2, <3>3 DEF Attempt, TypeOK, record
  <2>4. replied' \subseteq Review
    <3>1. replied \subseteq Review /\ replied \union {work[w].r} \subseteq Review
      BY <2>1 DEF TypeOK
    <3> QED BY <1>8, <3>1
            DEF Post, PostAccepted, PostAlreadyReplied, PostUnauthorized, PostFails
  <2> QED BY <1>8, <2>3, <2>4
          DEF Post, PostAccepted, PostAlreadyReplied, PostUnauthorized, PostFails
<1> QED BY <1>1, <1>4, <1>5, <1>6, <1>7, <1>8 DEF Handle

LEMMA DashboardType == TypeOK /\ (Dashboard \/ Cron) => TypeOK'
<1> SUFFICES ASSUME TypeOK, Dashboard \/ Cron PROVE TypeOK'
    OBVIOUS
<1>1. ASSUME NEW r \in Review, NEW s \in Status, Decide(r, s)
      PROVE  status' \in [Review -> Status] /\ decided' \subseteq Review
  BY <1>1 DEF Decide, TypeOK
<1> USE BoundsAssumption, EditAssumption DEF record, intake
<1>2. ASSUME NEW q \in Request, NEW r \in Review, Approve(q, r) PROVE TypeOK'
  BY <1>1, <1>2 DEF Approve, TypeOK, Status
<1>3. ASSUME NEW q \in Request, PostApproved(q) PROVE TypeOK'
  BY <1>3 DEF PostApproved, TypeOK
<1>4. ASSUME NEW r \in Review, Reject(r) PROVE TypeOK'
  BY <1>1, <1>4 DEF Reject, TypeOK, Status
<1>5. ASSUME NEW r \in Review, Generate(r) PROVE TypeOK'
  BY <1>5 DEF Generate, TypeOK, Status
<1>6. ASSUME NEW r \in Review, NEW s \in EditStatus, Edit(r, s) PROVE TypeOK'
  <2>1. s \in Status
    OBVIOUS
  <2> QED BY <1>1, <1>6, <2>1 DEF Edit, TypeOK
<1>7. CASE LoadPending
  BY <1>7 DEF LoadPending, TypeOK
<1>8. ASSUME NEW r \in Review, MarkSent(r) PROVE TypeOK'
  BY <1>1, <1>8 DEF MarkSent, TypeOK, Status
<1>9. ASSUME NEW r \in Review, MarkSentFails(r) PROVE TypeOK'
  BY <1>9 DEF MarkSentFails, TypeOK, Fault
<1> QED BY <1>2, <1>3, <1>4, <1>5, <1>6, <1>7, <1>8, <1>9 DEF Dashboard, Cron

-----------------------------------------------------------------------------
(* Ownership through the consumer's steps.                                 *)

(* The creator of a row becomes the owner of a review nobody owned; the    *)
(* unique index turns every other creator away.                            *)
LEMMA CreateKeeps ==
  ASSUME TypeOK, Ownership, NEW w \in Worker, CreateRecord(w)
  PROVE  Ownership'
<1>1. PICK r \in Review : r = work[w].r
  BY DEF CreateRecord, Ownership, Begun
<1>2. FreeWorker \in Task /\ FreeWorker.pc = "idle" /\ FreeWorker.tries = 0
  BY TaskMoves DEF FreeWorker
<1>3. CASE status[r] # "absent"
  BY <1>1, <1>2, <1>3, ReleaseKeeps DEF CreateRecord
<1>4. CASE status[r] = "absent"
  <2>1. /\ \A q \in Review : status'[q] = IF q = r THEN "pending" ELSE status[q]
        /\ decided' = decided
    BY <1>1, <1>4 DEF CreateRecord, TypeOK
  <2>2. \A v \in Worker : ~Owns(v, r)
    BY <1>4 DEF Ownership, OwnedHasRow
  <2>3. attempts[r] = 0 /\ work[w].tries = 0
    BY <1>1, <1>4 DEF Ownership, AttemptsCounted, Begun, CreateRecord
  <2>4. PICK e \in Task : /\ work' = [work EXCEPT ![w] = e]
                          /\ \/ e = FreeWorker
                             \/ e.pc = "claim" /\ e.r = r /\ e.tries = 0
    <3>1. \/ work' = [work EXCEPT ![w] = FreeWorker]
          \/ work' = [work EXCEPT ![w] = [work[w] EXCEPT !.pc = "claim"]]
      BY <1>1, <1>4 DEF CreateRecord
    <3> DEFINE c == [work[w] EXCEPT !.pc = "claim"]
    <3>2. c \in Task /\ c.pc = "claim" /\ c.r = r /\ c.tries = 0
      BY <1>1, <2>3, TaskMoves
    <3> HIDE DEF c
    <3>3. CASE work' = [work EXCEPT ![w] = c]
      BY <3>2, <3>3
    <3>4. CASE work' = [work EXCEPT ![w] = FreeWorker]
      BY <1>2, <3>4
    <3>5. work' = [work EXCEPT ![w] = FreeWorker] \/ work' = [work EXCEPT ![w] = c]
      BY <3>1 DEF c
    <3> QED BY <3>3, <3>4, <3>5
  <2>5. \A v \in Worker : work'[v] = IF v = w THEN e ELSE work[v]
    BY <2>4 DEF TypeOK
  <2>6. \A v \in Worker : \A q : Owns(v, q)' =>
            \/ v # w /\ Owns(v, q)
            \/ v = w /\ q = r /\ work'[w].pc = "claim" /\ work'[w].tries = 0
    BY <1>2, <2>4, <2>5 DEF Owns, Engaged, Owning
  <2>7. Begun'
    BY <1>2, <2>4, <2>5 DEF Ownership, Begun
  <2>8. OneOwner'
    BY <2>2, <2>6 DEF Ownership, OneOwner
  <2>9. OwnedHasRow'
    BY <2>1, <2>6 DEF Ownership, OwnedHasRow
  <2>10. AttemptsCounted'
    <3> SUFFICES ASSUME NEW q \in Review
                 PROVE  /\ attempts'[q] <= MaxAttempts
                        /\ status'[q] = "absent" => attempts'[q] = 0
                        /\ \A v \in Worker : Owns(v, q)' => Counted(v, q)'
        BY DEF AttemptsCounted
    <3>1. attempts' = attempts
      BY DEF CreateRecord
    <3>2. ASSUME NEW v \in Worker, Owns(v, q)' PROVE Counted(v, q)'
      BY <2>3, <2>5, <2>6, <3>1, <3>2 DEF Ownership, AttemptsCounted, Counted
    <3> QED BY <2>1, <3>1, <3>2 DEF Ownership, AttemptsCounted
  <2>11. DecidedStays'
    <3>1. \A q : Taken(q)' => Taken(q)
      BY <1>2, <2>4, <2>5 DEF Taken, Engaged
    <3> QED BY <1>4, <2>1, <3>1 DEF Ownership, DecidedStays, TypeOK
  <2> QED BY <2>7, <2>8, <2>9, <2>10, <2>11 DEF Ownership
<1> QED BY <1>3, <1>4

(* A claim succeeds on a pending row only, which nobody has decided.       *)
LEMMA ClaimKeeps ==
  ASSUME TypeOK, Ownership, NEW w \in Worker, Claim(w)
  PROVE  Ownership'
<1>1. PICK r \in Review : r = work[w].r
  BY DEF Claim, Ownership, Begun
<1>2. FreeWorker \in Task /\ FreeWorker.pc = "idle" /\ FreeWorker.tries = 0
  BY TaskMoves DEF FreeWorker
<1>3. CASE status[r] # "pending"
  BY <1>1, <1>2, <1>3, ReleaseKeeps DEF Claim, record
<1>4. CASE status[r] = "pending"
  <2>1. PICK e \in Task : /\ work' = [work EXCEPT ![w] = e]
                          /\ e.pc = "post" /\ e.r = r /\ e.tries = work[w].tries
    BY <1>1, <1>4, TaskMoves DEF Claim
  <2>2. Owns(w, r) /\ attempts[r] = 0 /\ work[w].tries = 0
    BY <1>1 DEF Claim, Owns, Engaged, Owning, Ownership, Begun, AttemptsCounted,
                Counted
  <2>3. \A q \in Review : status'[q] = IF q = r THEN "processing" ELSE status[q]
    BY <1>1, <1>4 DEF Claim, TypeOK
  <2>4. r \notin decided
    BY <1>4 DEF Ownership, DecidedStays
  <2>5. attempts' = attempts /\ decided' = decided
    BY DEF Claim
  <2>6. e.pc \in Owning \ {"claim"}
    BY <2>1 DEF Owning
  <2>7. e.tries = 0 /\ 0 < MaxAttempts /\ 0 <= MaxAttempts
    BY <2>1, <2>2, BoundsAssumption
  <2>8. /\ \A q \in Review \ {r} : attempts'[q] = attempts[q]
        /\ \A q \in Review \ {r} : status'[q] = status[q]
        /\ status'[r] # "absent"
    BY <2>3, <2>5
  <2>9. /\ attempts'[r] \in Nat /\ attempts'[r] <= MaxAttempts
        /\ e.pc \in {"post", "wait"} => attempts'[r] = e.tries
        /\ e.pc = "post" => e.tries < MaxAttempts
    BY <2>2, <2>5, <2>7
  <2> QED BY <2>1, <2>2, <2>4, <2>5, <2>6, <2>8, <2>9, OwnerGoesOn
<1> QED BY <1>3, <1>4

(* An attempt and the pause after it.                                      *)
LEMMA AttemptKeeps ==
  ASSUME TypeOK, Ownership, NEW w \in Worker, NEW next \in {"sent", "failed", "wait"},
         NEW counts \in BOOLEAN, Attempt(w, next, counts), next = "wait" => counts
  PROVE  Ownership'
<1> DEFINE e == [pc |-> next, r |-> work[w].r,
                 tries |-> work[w].tries + (IF counts THEN 1 ELSE 0)]
<1>1. PICK r \in Review : r = work[w].r
  BY DEF Attempt, Ownership, Begun
<1>2. Owns(w, r) /\ Taken(r)
  BY <1>1 DEF Attempt, Owns, Engaged, Owning, Taken
<1>3. attempts[r] = work[w].tries /\ work[w].tries < MaxAttempts
  BY <1>2 DEF Attempt, Ownership, AttemptsCounted, Counted
<1>4. work[w].tries \in Nat /\ status[r] # "absent" /\ r \notin decided
  BY <1>2 DEF TypeOK, Ownership, OwnedHasRow, DecidedStays
<1>5. e \in Task
  BY <1>1, <1>3, <1>4, BoundsAssumption DEF Task
<1>6. work' = [work EXCEPT ![w] = e] /\ UNCHANGED record
  BY DEF Attempt
<1>7. /\ attempts'[r] = attempts[r] + 1
      /\ \A q \in Review \ {r} : attempts'[q] = attempts[q]
  BY <1>1 DEF Attempt, TypeOK
<1>8. /\ e.pc \in Owning \ {"claim"} /\ e.r = r /\ e.pc # "post"
      /\ e.pc = "wait" => e.tries = work[w].tries + 1
  BY <1>1 DEF Owning
<1> HIDE DEF e
<1>9. /\ attempts'[r] \in Nat /\ attempts'[r] <= MaxAttempts
      /\ e.pc \in {"post", "wait"} => attempts'[r] = e.tries
  BY <1>3, <1>4, <1>7, <1>8, BoundsAssumption
<1> QED BY <1>2, <1>4, <1>5, <1>6, <1>7, <1>8, <1>9, OwnerGoesOn DEF record

LEMMA BackOffKeeps ==
  ASSUME TypeOK, Ownership, NEW w \in Worker, BackOff(w)
  PROVE  Ownership'
<1>1. PICK r \in Review : r = work[w].r
  BY DEF BackOff, Ownership, Begun
<1>2. PICK e \in Task : /\ work' = [work EXCEPT ![w] = e]
                        /\ e.pc \in {"post", "failed"}
                        /\ e.pc = "post" => work[w].tries < MaxAttempts
                        /\ e.r = r /\ e.tries = work[w].tries
  BY <1>1, TaskMoves DEF BackOff
<1>3. Owns(w, r) /\ Taken(r)
  BY <1>1 DEF BackOff, Owns, Engaged, Owning, Taken
<1>4. attempts[r] = work[w].tries /\ attempts[r] <= MaxAttempts
  BY <1>3 DEF BackOff, Ownership, AttemptsCounted, Counted
<1>5. attempts[r] \in Nat /\ status[r] # "absent" /\ r \notin decided
  BY <1>3 DEF TypeOK, Ownership, OwnedHasRow, DecidedStays
<1>6. UNCHANGED <<status, decided, attempts>> /\ e.pc \in Owning \ {"claim"}
  BY <1>2 DEF BackOff, record, Owning
<1> QED BY <1>2, <1>3, <1>4, <1>5, <1>6, OwnerGoesOn

(* The final update ends the ownership; the row stays.                     *)
LEMMA SettleKeeps ==
  ASSUME TypeOK, Ownership, NEW w \in Worker, Settle(w)
  PROVE  Ownership'
<1>1. PICK r \in Review : r = work[w].r
  BY DEF Settle, Ownership, Begun
<1>2. \A q \in Review : status'[q] = IF q = r THEN work[w].pc ELSE status[q]
  BY <1>1 DEF Settle, TypeOK
<1>3. Owns(w, r) /\ Taken(r) /\ work[w].pc \notin {"absent", "pending"}
  BY <1>1 DEF Settle, Owns, Engaged, Owning, Taken
<1>4. \A v \in Worker : work'[v] = IF v = w THEN FreeWorker ELSE work[v]
  BY DEF Settle, TypeOK
<1>5. \A v \in Worker : \A q : Owns(v, q)' => v # w /\ Owns(v, q)
  BY <1>4 DEF Owns, Engaged, Owning, FreeWorker
<1>6. attempts' = attempts /\ decided' = decided
  BY DEF Settle
<1>7. Begun'
  BY <1>4 DEF Ownership, Begun, FreeWorker
<1>8. OneOwner' /\ OwnedHasRow'
  BY <1>2, <1>3, <1>5 DEF Ownership, OneOwner, OwnedHasRow
<1>9. AttemptsCounted'
  BY <1>2, <1>3, <1>4, <1>5, <1>6 DEF Ownership, AttemptsCounted, Counted
<1>10. DecidedStays'
  <2>1. \A q : Taken(q)' => Taken(q)
    BY <1>4 DEF Taken, Engaged, FreeWorker
  <2> QED BY <1>2, <1>3, <1>6, <2>1 DEF Ownership, DecidedStays, TypeOK
<1> QED BY <1>7, <1>8, <1>9, <1>10 DEF Ownership

-----------------------------------------------------------------------------
(* The invariant is inductive.                                             *)

LEMMA ReceivedStays ==
  ASSUME Received, Consume \/ Dashboard \/ Cron
  PROVE  Received'
<1>1. CASE Consume
  BY <1>1 DEF Consume, Handle, Post, TakeEvent, CheckRecord, CheckRecordFails,
         CreateRecord, CreateRecordFails, NoAdapter, Claim, PostAccepted,
         PostAlreadyReplied, PostUnauthorized, PostFails, Attempt, BackOff,
         Settle, SettleFails, Die, Received, intake
<1>2. CASE Dashboard \/ Cron
  BY <1>2 DEF Dashboard, Cron, Approve, PostApproved, Reject, Generate, Edit,
         LoadPending, MarkSent, MarkSentFails, Received, intake
<1> QED BY <1>1, <1>2

(* The engines change ownership as the lemmas above say.                   *)
LEMMA ConsumeKeeps ==
  ASSUME TypeOK, Ownership, Consume
  PROVE  Ownership'
<1>1. PICK w \in Worker : \/ \E r \in Review : TakeEvent(w, r)
                          \/ Handle(w)
                          \/ CheckRecordFails(w) \/ CreateRecordFails(w)
                          \/ SettleFails(w) \/ Die(w)
  BY DEF Consume
<1>2. FreeWorker \in Task /\ FreeWorker.pc = "idle" /\ FreeWorker.tries = 0
  BY TaskMoves DEF FreeWorker
<1>3. ASSUME work' = [work EXCEPT ![w] = FreeWorker], UNCHANGED <<record, attempts>>
      PROVE  Ownership'
  BY <1>2, <1>3, ReleaseKeeps
<1>4. CASE \E r \in Review : TakeEvent(w, r)
  <2>1. PICK r \in Review : TakeEvent(w, r)
    BY <1>4
  <2> DEFINE e == [pc |-> "check", r |-> r, tries |-> 0]
  <2>2. e \in Task /\ e.pc = "check" /\ e.r \in Review /\ e.tries = 0
    BY BoundsAssumption DEF Task
  <2>3. work' = [work EXCEPT ![w] = e] /\ UNCHANGED <<record, attempts>>
    BY <2>1 DEF TakeEvent
  <2> HIDE DEF e
  <2> QED BY <2>2, <2>3, ReleaseKeeps
<1>5. CASE CheckRecord(w) \/ CheckRecordFails(w)
  <2> DEFINE e == [work[w] EXCEPT !.pc = "create"]
  <2>1. e \in Task /\ e.pc = "create" /\ e.r \in Review /\ e.tries = 0
    BY <1>5, TaskMoves DEF CheckRecord, CheckRecordFails, Ownership, Begun
  <2>2. /\ \/ work' = [work EXCEPT ![w] = FreeWorker]
           \/ work' = [work EXCEPT ![w] = e]
        /\ UNCHANGED <<record, attempts>>
    BY <1>5 DEF CheckRecord, CheckRecordFails
  <2> HIDE DEF e
  <2> QED BY <1>3, <2>1, <2>2, ReleaseKeeps
<1>6. CASE NoAdapter(w) \/ CreateRecordFails(w) \/ SettleFails(w) \/ Die(w)
  BY <1>3, <1>6 DEF NoAdapter, CreateRecordFails, SettleFails, Die
<1>7. CASE CreateRecord(w) \/ Claim(w) \/ BackOff(w) \/ Settle(w)
  BY <1>7, CreateKeeps, ClaimKeeps, BackOffKeeps, SettleKeeps
<1>8. CASE Post(w)
  BY <1>8, AttemptKeeps
     DEF Post, PostAccepted, PostAlreadyReplied, PostUnauthorized, PostFails
<1> QED BY <1>1, <1>4, <1>5, <1>6, <1>7, <1>8 DEF Handle

(* A row drafted on request is new, so nobody owns or has decided it.      *)
LEMMA GenerateKeeps ==
  ASSUME TypeOK, Ownership, NEW r \in Review, Generate(r)
  PROVE  Ownership'
<1>1. \A q \in Review : status'[q] = IF q = r THEN "pending" ELSE status[q]
  BY DEF Generate, TypeOK
<1>2. UNCHANGED <<decided, work, attempts>> /\ r \notin decided
  BY DEF Generate, Ownership, DecidedStays
<1>3. (Begun /\ OneOwner)'
  BY <1>2 DEF Ownership, Begun, OneOwner, Owns, Engaged
<1>4. OwnedHasRow' /\ AttemptsCounted'
  BY <1>1, <1>2 DEF Ownership, OwnedHasRow, AttemptsCounted, Counted, Owns, Engaged
<1>5. DecidedStays'
  BY <1>1, <1>2 DEF Ownership, DecidedStays, Taken, Engaged, TypeOK
<1> QED BY <1>3, <1>4, <1>5 DEF Ownership

LEMMA DashboardKeeps ==
  ASSUME TypeOK, Ownership, Dashboard \/ Cron
  PROVE  Ownership'
<1>1. ASSUME NEW r \in Review, NEW s \in Status \ {"absent"}, Decide(r, s),
             UNCHANGED <<mode, work, attempts>>
      PROVE  Ownership'
  BY <1>1, DecideKeeps
<1>2. ASSUME NEW q \in Request, NEW r \in Review, Approve(q, r) PROVE Ownership'
  BY <1>1, <1>2 DEF Approve, Status
<1>3. ASSUME NEW r \in Review, Reject(r) PROVE Ownership'
  BY <1>1, <1>3 DEF Reject, Status
<1>4. ASSUME NEW r \in Review, NEW s \in EditStatus, Edit(r, s) PROVE Ownership'
  BY <1>1, <1>4, EditAssumption DEF Edit
<1>5. ASSUME NEW r \in Review, MarkSent(r) PROVE Ownership'
  BY <1>1, <1>5 DEF MarkSent, Status
<1>6. ASSUME NEW q \in Request, PostApproved(q) PROVE Ownership'
  BY <1>6, Untouched DEF PostApproved
<1>7. CASE LoadPending
  BY <1>7, Untouched DEF LoadPending
<1>8. ASSUME NEW r \in Review, MarkSentFails(r) PROVE Ownership'
  BY <1>8, Untouched DEF MarkSentFails
<1> QED BY <1>2, <1>3, <1>4, <1>5, <1>6, <1>7, <1>8, GenerateKeeps
        DEF Dashboard, Cron

LEMMA IntakeKeeps ==
  ASSUME Ownership, Intake
  PROVE  Ownership'
<1>1. UNCHANGED <<record, work, attempts>>
  BY DEF Intake, SyncRow, LoseEvent, AnswerOnPlatform, ReviewCreated,
         ReviewUpdated, InsertReview, InsertReviewFails, intake
<1> QED BY <1>1, Untouched

LEMMA StepInv == IInv /\ [Next]_vars => IInv'
<1> SUFFICES ASSUME IInv, [Next]_vars PROVE IInv'
    OBVIOUS
<1>1. TypeOK /\ Received /\ Ownership
  BY DEF IInv, Ownership
<1>2. CASE Intake
  BY <1>1, <1>2, IntakeType, IntakeKeeps DEF IInv, Ownership
<1>3. CASE Consume
  BY <1>1, <1>3, ConsumeType, ReceivedStays, ConsumeKeeps DEF IInv, Ownership
<1>4. CASE Dashboard \/ Cron
  BY <1>1, <1>4, DashboardType, ReceivedStays, DashboardKeeps DEF IInv, Ownership
<1>5. CASE UNCHANGED vars
  <2>1. Ownership'
    BY <1>1, <1>5, Untouched DEF vars
  <2>2. TypeOK' /\ Received'
    BY <1>1, <1>5 DEF TypeOK, Received, vars, intake, record
  <2> QED BY <2>1, <2>2 DEF IInv, Ownership
<1> QED BY <1>2, <1>3, <1>4, <1>5 DEF Next

LEMMA Invariance == Spec => []IInv
  BY InitInv, StepInv, PTL DEF Spec

-----------------------------------------------------------------------------
(* What the invariant promises.                                            *)

(* Every variable keeps its type.                                          *)
THEOREM TypeCorrect == Spec => []TypeOK
<1>1. IInv => TypeOK
  BY DEF IInv
<1> QED BY <1>1, Invariance, PTL

(* At any time at most one handler is posting the reply of a review        *)
(* (the unique index of reply_records, createReplyRecord).                 *)
THEOREM OnlyOnePoster == Spec => []OnePoster
<1>1. IInv => OnePoster
  <2> SUFFICES ASSUME IInv, NEW v \in Worker, NEW w \in Worker,
                      work[v].pc \in {"post", "wait", "sent", "failed"},
                      Engaged(w, {"post", "wait", "sent", "failed"}, work[v].r)
               PROVE  v = w
      BY DEF OnePoster
  <2>1. PICK r \in Review : r = work[v].r
    BY DEF IInv, Begun
  <2>2. Owns(v, r) /\ Owns(w, r)
    BY <2>1 DEF Owns, Owning, Engaged
  <2> QED BY <2>2 DEF IInv, OneOwner
<1> QED BY <1>1, Invariance, PTL

(* The consumers post at most MaxAttempts times for a review, over all     *)
(* events, engines and deaths (postReplyWithRetry).                        *)
THEOREM AttemptsAreBounded == Spec => []AttemptsBounded
<1>1. IInv => AttemptsBounded
  BY DEF IInv, AttemptsCounted, AttemptsBounded
<1> QED BY <1>1, Invariance, PTL

(* No consumer posts a reply that was decided before it was taken (the     *)
(* conditional update to "processing").                                    *)
THEOREM DecidedNotPosted == Spec => []DecidedIsNotPosted
<1>1. IInv => DecidedIsNotPosted
  BY DEF IInv, DecidedStays, DecidedIsNotPosted
<1> QED BY <1>1, Invariance, PTL

(***************************************************************************)
(* What AI search engines are shown: requests that look up, compute, store *)
(* and delete the same keys.                                               *)
(***************************************************************************)
Requests == Guarded \cup Open
SlotStates == {"idle", "lookup", "query", "fill", "act", "store", "drop"}

\* The value v of key k is as new as the last end of each request that deletes k.
NewEnough(k, v, sh) == \A o \in Requests : k \in Drops(o) =>
                          \A p \in Products : v.versions[p] >= sh[o][p]

\* A stored copy, when the requests have ended as in sh, the plan allows writes or not,
\* and has done so last at the time paid.
EntryOk(k, e, sh, allows, now, paid) ==
    /\ e.until \in Nat /\ e.until <= now + Ttl[k[1]]
    /\ e # Gone =>
          /\ ~e.raced => NewEnough(k, e.val, sh)
          /\ k[1] = "ai" /\ ~e.batch => e.val.of = k[2]
          /\ k = K("plan") /\ e.val.ok /\ ~e.raced => allows \/ paid + Ttl["plan"] >= e.until

\* What is about to be stored: the copy of a computation, and the results of a batch.
FillOk(k, v, raced, sh, allows) ==
    /\ ~raced => NewEnough(k, v, sh)
    /\ k[1] = "ai" => v.of = k[2]
    /\ k = K("plan") /\ v.ok /\ ~raced => allows
ProposalOk(v) == ~(v.size > 1) => \A i \in DOMAIN v.results :
                     i = 1 /\ v.first \in Nat /\ v.results[i].of = v.first
SlotOk(x, sh, allows) ==
    /\ x.pc \in SlotStates
    /\ x.pc # "idle" =>
          /\ x = [pc |-> x.pc, op |-> x.op, key |-> x.key, val |-> x.val, raced |-> x.raced]
          /\ x.op \in {"read"} \cup Requests /\ x.key \in CacheKeys
          /\ x.op = "read" => x.pc \in {"lookup", "query", "fill"}
    /\ x.pc = "fill" => FillOk(x.key, x.val, x.raced, sh, allows)
    /\ x.pc = "store" /\ x.op \in {"optimize", "describe"} => ProposalOk(x.val)

WorldInv ==
    /\ time \in 0..MaxTime /\ worldChanges \in 0..MaxWorldChanges
    /\ planAllows \in BOOLEAN /\ lastPaid \in 0..time
    /\ version \in [Products -> Nat] /\ \A p \in Products : version[p] <= worldChanges
    /\ shown \in [Requests -> [Products -> Nat]]
    /\ \A o \in Requests : \A p \in Products : shown[o][p] <= version[p]
CacheInv == /\ cache = [k \in CacheKeys |-> cache[k]]
            /\ \A k \in CacheKeys : EntryOk(k, cache[k], shown, planAllows, time, lastPaid)
SlotInv == /\ slot = [s \in RequestSlots |-> slot[s]]
           /\ \A s \in RequestSlots : SlotOk(slot[s], shown, planAllows)
VisibilityInv == WorldInv /\ CacheInv /\ SlotInv

LEMMA KeysOf ==
    ASSUME NEW k \in CacheKeys
    PROVE  /\ k[1] \in CacheKinds /\ (k[1] = "plan" => k = K("plan"))
           /\ k[1] = "ai" => k[2] \in Products
<1>1. CASE k \in {"schema", "ai"} \X Products BY <1>1 DEF CacheKinds, K
<1>2. CASE k \in {K("feed"), K("llms"), K("txt"), K("full"), K("score"), K("plan")}
  BY <1>2 DEF CacheKinds, K
<1> QED BY <1>1, <1>2 DEF CacheKeys

LEMMA DropsOf ==
    ASSUME NEW o, NEW k \in Drops(o)
    PROVE  /\ k \in {K("feed"), K("llms"), K("score")}
           /\ k[1] \in {"feed", "llms", "score"} /\ k # K("plan") /\ k # K("txt") /\ k # K("full")
<1>1. k \in {K("feed"), K("llms"), K("score")} BY DEF Drops
<1> QED BY <1>1 DEF K

LEMMA TtlTyped ==
    ASSUME VisibilityConstants, NEW k \in CacheKeys
    PROVE  Ttl[k[1]] \in Nat /\ Ttl["plan"] \in Nat
<1>1. k[1] \in CacheKinds /\ "plan" \in CacheKinds BY KeysOf DEF CacheKinds
<1> QED BY <1>1 DEF VisibilityConstants

LEMMA IdleSlotOk == ASSUME NEW sh, NEW allows PROVE SlotOk(IdleSlot, sh, allows)
BY DEF SlotOk, IdleSlot, SlotStates

LEMMA VisibilityInitSatisfies ==
    ASSUME VisibilityConstants, VisibilityInit
    PROVE  VisibilityInv
<1>1. WorldInv BY DEF VisibilityConstants, VisibilityInit, WorldInv, Requests
<1>2. CacheInv
  <2>1. \A k \in CacheKeys : EntryOk(k, Gone, shown, planAllows, time, lastPaid)
    <3> SUFFICES ASSUME NEW k \in CacheKeys
                 PROVE  EntryOk(k, Gone, shown, planAllows, time, lastPaid) OBVIOUS
    <3>1. time = 0 /\ Gone.until = 0 /\ Ttl[k[1]] \in Nat BY TtlTyped DEF VisibilityInit, Gone
    <3> QED BY <3>1 DEF EntryOk
  <2>2. cache = [k \in CacheKeys |-> Gone] BY DEF VisibilityInit
  <2> QED BY <2>1, <2>2 DEF CacheInv
<1>3. SlotInv
  <2>1. slot = [s \in RequestSlots |-> IdleSlot] BY DEF VisibilityInit
  <2> QED BY <2>1, IdleSlotOk DEF SlotInv
<1> QED BY <1>1, <1>2, <1>3 DEF VisibilityInv

(***************************************************************************)
(* Steps of one request that change neither copies nor the world           *)
(***************************************************************************)
LEMMA OtherPlace ==
    ASSUME NEW x, x = [pc |-> x.pc, op |-> x.op, key |-> x.key, val |-> x.val, raced |-> x.raced],
           NEW pc, NEW v
    PROVE  [x EXCEPT !.pc = pc, !.val = v]
               = [pc |-> pc, op |-> x.op, key |-> x.key, val |-> v, raced |-> x.raced]
<1> DEFINE z == [x EXCEPT !.pc = pc]
<1>1. z = [pc |-> pc, op |-> x.op, key |-> x.key, val |-> x.val, raced |-> x.raced] OBVIOUS
<1>2. [x EXCEPT !.pc = pc, !.val = v] = [z EXCEPT !.val = v] OBVIOUS
<1> HIDE DEF z
<1>3. [z EXCEPT !.val = v] = [pc |-> pc, op |-> x.op, key |-> x.key, val |-> v, raced |-> x.raced]
  BY <1>1
<1> QED BY <1>2, <1>3

\* The request s goes on and has y; the others stay.
SlotMoves(s, y) == /\ slot' = [t \in RequestSlots |-> slot'[t]] /\ slot'[s] = y
                   /\ \A t \in RequestSlots \ {s} : slot'[t] = slot[t]

LEMMA MovesOfSlot ==
    ASSUME SlotInv, NEW s \in RequestSlots, NEW y, slot' = [slot EXCEPT ![s] = y]
    PROVE  SlotMoves(s, y)
BY DEF SlotMoves, SlotInv

LEMMA SlotsKept ==
    ASSUME SlotInv, NEW s \in RequestSlots, NEW y, SlotMoves(s, y),
           SlotOk(y, shown, planAllows), UNCHANGED <<shown, planAllows>>
    PROVE  SlotInv'
<1>1. ASSUME NEW t \in RequestSlots PROVE SlotOk(slot'[t], shown, planAllows)
  BY <1>1 DEF SlotMoves, SlotInv
<1> QED BY <1>1 DEF SlotMoves, SlotInv

Same == UNCHANGED <<version, planAllows, shown, lastPaid, time, worldChanges>>

LEMMA WorldKept == ASSUME WorldInv, Same PROVE WorldInv'
BY DEF WorldInv, Same

LEMMA CacheKept == ASSUME CacheInv, Same, UNCHANGED cache PROVE CacheInv'
BY DEF CacheInv, Same

LEMMA RequestGoesOn ==
    ASSUME VisibilityInv, NEW s \in RequestSlots, NEW y, SlotMoves(s, y),
           SlotOk(y, shown, planAllows), Same, UNCHANGED cache
    PROVE  VisibilityInv'
<1>1. UNCHANGED <<shown, planAllows>> BY DEF Same
<1> QED BY <1>1, WorldKept, CacheKept, SlotsKept DEF VisibilityInv

LEMMA BeginRequestKeeps ==
    ASSUME VisibilityInv, NEW s \in RequestSlots, NEW op \in {"read"} \cup Requests,
           NEW key \in CacheKeys, NEW pc \in {"lookup", "act"}, op = "read" => pc = "lookup",
           BeginRequest(s, op, key, pc)
    PROVE  VisibilityInv'
<1> DEFINE y == [pc |-> pc, op |-> op, key |-> key, val |-> <<>>, raced |-> FALSE]
<1>1. slot' = [slot EXCEPT ![s] = y] BY DEF BeginRequest
<1>2. Same /\ UNCHANGED cache BY DEF BeginRequest, Same
<1>3. SlotOk(y, shown, planAllows) BY DEF SlotOk, SlotStates
<1> HIDE DEF y
<1>4. SlotMoves(s, y) BY <1>1, MovesOfSlot DEF VisibilityInv
<1> QED BY <1>2, <1>3, <1>4, RequestGoesOn

LEMMA AskKeeps ==
    ASSUME VisibilityInv, NEW s \in RequestSlots,
           \/ \E k \in Reads : Ask(s, k)
           \/ \E p \in Products : GetSchema(s, p) \/ ProductAdvice(s, p)
           \/ \E o \in Guarded : Write(s, o)
           \/ \E o \in Open : WriteOpen(s, o)
    PROVE  VisibilityInv'
<1>1. CASE \E k \in Reads : Ask(s, k)
  <2>1. PICK k \in Reads : BeginRequest(s, "read", K(k), "lookup") BY <1>1 DEF Ask
  <2>2. K(k) \in CacheKeys BY DEF Reads, CacheKeys
  <2> QED BY <2>1, <2>2, BeginRequestKeeps
<1>2. CASE \E p \in Products : GetSchema(s, p) \/ ProductAdvice(s, p)
  <2>1. PICK p \in Products, kind \in {"schema", "ai"} :
            BeginRequest(s, "read", <<kind, p>>, "lookup")
    BY <1>2 DEF GetSchema, ProductAdvice
  <2>2. <<kind, p>> \in CacheKeys BY DEF CacheKeys
  <2> QED BY <2>1, <2>2, BeginRequestKeeps
<1>3. CASE \E o \in Guarded : Write(s, o)
  <2>1. PICK o \in Guarded : BeginRequest(s, o, K("plan"), "lookup") BY <1>3 DEF Write
  <2>2. K("plan") \in CacheKeys /\ o \in Requests BY DEF CacheKeys, Requests
  <2> QED BY <2>1, <2>2, BeginRequestKeeps
<1>4. CASE \E o \in Open : WriteOpen(s, o)
  <2>1. PICK o \in Open : BeginRequest(s, o, K("plan"), "act") BY <1>4 DEF WriteOpen
  <2>2. K("plan") \in CacheKeys /\ o \in Requests /\ o # "read" BY DEF CacheKeys, Requests, Open
  <2> QED BY <2>1, <2>2, BeginRequestKeeps
<1> QED BY <1>1, <1>2, <1>3, <1>4

LEMMA LookupKeeps ==
    ASSUME VisibilityInv, NEW s \in RequestSlots, Lookup(s)
    PROVE  VisibilityInv'
<1> DEFINE x == slot[s]
           k == x.key
           y == IF ~Live(k) THEN [x EXCEPT !.pc = "query"]
                ELSE IF x.op = "read" THEN IdleSlot ELSE Allowed(s, cache[k].val.ok)
<1>1. slot' = [slot EXCEPT ![s] = y] BY DEF Lookup
<1>2. Same /\ UNCHANGED cache BY DEF Lookup, counters, Same
<1>3. SlotOk(x, shown, planAllows) /\ x.pc = "lookup" BY DEF VisibilityInv, SlotInv, Lookup
<1>4. x = [pc |-> x.pc, op |-> x.op, key |-> x.key, val |-> x.val, raced |-> x.raced]
      /\ x.op \in {"read"} \cup Requests /\ x.key \in CacheKeys
  BY <1>3 DEF SlotOk
<1>5. SlotOk(y, shown, planAllows)
  <2>1. CASE ~Live(k)
    <3>1. y = [pc |-> "query", op |-> x.op, key |-> x.key, val |-> x.val, raced |-> x.raced]
      BY <2>1, <1>4
    <3> HIDE DEF x, k, y
    <3> QED BY <3>1, <1>4 DEF SlotOk, SlotStates
  <2>2. CASE Live(k) /\ x.op = "read" BY <2>2, IdleSlotOk
  <2>3. CASE Live(k) /\ x.op # "read"
    <3>1. PICK pc \in {"act", "idle"} : y = [x EXCEPT !.pc = pc] BY <2>3 DEF Allowed
    <3>2. y = [pc |-> pc, op |-> x.op, key |-> x.key, val |-> x.val, raced |-> x.raced]
      BY <3>1, <1>4
    <3> HIDE DEF x, k, y
    <3> QED BY <3>2, <2>3, <1>4 DEF SlotOk, SlotStates
  <2> QED BY <2>1, <2>2, <2>3
<1> HIDE DEF x, k, y
<1>6. SlotMoves(s, y) BY <1>1, MovesOfSlot DEF VisibilityInv
<1> QED BY <1>2, <1>5, <1>6, RequestGoesOn

\* What is computed now is as new as the last end of every request.
LEMMA CurrentFits ==
    ASSUME WorldInv, NEW k \in CacheKeys, NEW raced
    PROVE  FillOk(k, Current(k), raced, shown, planAllows)
<1>1. NewEnough(k, Current(k), shown)
  <2> SUFFICES ASSUME NEW o \in Requests, k \in Drops(o), NEW p \in Products
               PROVE  Current(k).versions[p] >= shown[o][p]
    BY DEF NewEnough
  <2>1. k[1] \in {"feed", "llms", "score"} BY DropsOf
  <2>2. Current(k).versions = version BY <2>1 DEF Current, Scored, Schemas
  <2>3. shown[o][p] \in Nat /\ version[p] \in Nat /\ shown[o][p] <= version[p] BY DEF WorldInv
  <2> QED BY <2>2, <2>3
<1>2. k[1] = "ai" => Current(k).of = k[2] BY DEF Current, Optimized
<1>3. k = K("plan") => Current(k).ok = planAllows BY DEF Current, K
<1> QED BY <1>1, <1>2, <1>3 DEF FillOk

LEMMA QueryKeeps ==
    ASSUME VisibilityInv, NEW s \in RequestSlots, Query(s)
    PROVE  VisibilityInv'
<1> DEFINE x == slot[s]
<1>1. Same /\ UNCHANGED cache BY DEF Query, Same
<1>2. SlotOk(x, shown, planAllows) /\ x.pc = "query" BY DEF VisibilityInv, SlotInv, Query
<1>3. x = [pc |-> x.pc, op |-> x.op, key |-> x.key, val |-> x.val, raced |-> x.raced]
      /\ x.op \in {"read"} \cup Requests /\ x.key \in CacheKeys
  BY <1>2 DEF SlotOk
<1>4. CASE slot' = [slot EXCEPT ![s].pc = "fill", ![s].val = Current(slot[s].key)]
  <2> DEFINE y == [pc |-> "fill", op |-> x.op, key |-> x.key, val |-> Current(x.key),
                   raced |-> x.raced]
  <2>1. s \in DOMAIN slot BY DEF VisibilityInv, SlotInv
  <2>2. slot' = [slot EXCEPT ![s] = [x EXCEPT !.pc = "fill", !.val = Current(x.key)]]
    BY <1>4, <2>1
  <2>3. [x EXCEPT !.pc = "fill", !.val = Current(x.key)] = y BY <1>3, OtherPlace
  <2>4. slot' = [slot EXCEPT ![s] = y] BY <2>2, <2>3
  <2>5. FillOk(x.key, Current(x.key), x.raced, shown, planAllows)
    BY <1>3, CurrentFits DEF VisibilityInv
  <2> HIDE DEF x
  <2>6. SlotOk(y, shown, planAllows) BY <1>3, <2>5 DEF SlotOk, SlotStates
  <2> HIDE DEF y
  <2>7. SlotMoves(s, y) BY <2>4, MovesOfSlot DEF VisibilityInv
  <2> QED BY <1>1, <2>6, <2>7, RequestGoesOn
<1>5. CASE slot' = [slot EXCEPT ![s] = IdleSlot]
  <2>1. SlotMoves(s, IdleSlot) BY <1>5, MovesOfSlot DEF VisibilityInv
  <2> QED BY <1>1, <2>1, IdleSlotOk, RequestGoesOn
<1> QED BY <1>4, <1>5 DEF Query

(***************************************************************************)
(* Batches                                                                 *)
(***************************************************************************)
\* The results of one product are its own.
LEMMA ProposalFits ==
    ASSUME VisibilityConstants, NEW S \in SUBSET Products, NEW q,
           q \in Seq(S) , Len(q) <= Cardinality(S)
    PROVE  ProposalOk([first |-> CHOOSE p \in S : \A r \in S : p <= r, size |-> Cardinality(S),
                       results |-> [i \in DOMAIN q |-> Optimized(q[i])]])
<1> DEFINE first == CHOOSE p \in S : \A r \in S : p <= r
           results == [i \in DOMAIN q |-> Optimized(q[i])]
           v == [first |-> first, size |-> Cardinality(S), results |-> results]
<1>1. IsFiniteSet(S) /\ Cardinality(S) \in Nat
  BY FS_Subset, FS_CardinalityType DEF VisibilityConstants
<1> SUFFICES ASSUME ~(Cardinality(S) > 1), NEW i \in DOMAIN q
             PROVE  i = 1 /\ first \in Nat /\ results[i].of = first
  BY DEF ProposalOk
<1>2. i \in 1..Len(q) /\ Len(q) \in Nat OBVIOUS
<1>3. Cardinality(S) = 1 /\ i = 1 BY <1>1, <1>2
<1>4. PICK p : S = {p} BY <1>1, <1>3, FS_Singleton
<1>5. p \in Nat BY <1>4 DEF VisibilityConstants
<1>6. first = p BY <1>4, <1>5
<1>7. q[i] = p BY <1>2, <1>4
<1>8. results[i].of = q[i] BY DEF Optimized
<1> QED BY <1>3, <1>5, <1>6, <1>7, <1>8

LEMMA ProposedKeeps ==
    ASSUME VisibilityConstants, VisibilityInv, NEW s \in RequestSlots, slot[s].pc = "act",
           NEW S \in SUBSET Products, NEW q \in Seq(S), Len(q) <= Cardinality(S),
           slot' = Proposed(s, S, q), Same, UNCHANGED cache
    PROVE  VisibilityInv'
<1> DEFINE x == slot[s]
           v == [first |-> CHOOSE p \in S : \A r \in S : p <= r, size |-> Cardinality(S),
                 results |-> [i \in DOMAIN q |-> Optimized(q[i])]]
           y == [pc |-> "store", op |-> x.op, key |-> x.key, val |-> v, raced |-> x.raced]
<1>1. ProposalOk(v) BY ProposalFits
<1>2. s \in DOMAIN slot /\ SlotOk(x, shown, planAllows) BY DEF VisibilityInv, SlotInv
<1>3. x = [pc |-> x.pc, op |-> x.op, key |-> x.key, val |-> x.val, raced |-> x.raced]
      /\ x.op \in Requests /\ x.key \in CacheKeys
  BY <1>2 DEF SlotOk
<1>4. slot' = [slot EXCEPT ![s].pc = "store", ![s].val = v] BY DEF Proposed
<1> HIDE DEF v
<1>5. slot' = [slot EXCEPT ![s] = [x EXCEPT !.pc = "store", !.val = v]] BY <1>2, <1>4
<1>6. [x EXCEPT !.pc = "store", !.val = v] = y BY <1>3, OtherPlace
<1>7. slot' = [slot EXCEPT ![s] = y] BY <1>5, <1>6
<1> HIDE DEF x
<1>8. "read" \notin Requests BY DEF Requests, Guarded, Open
<1>9. SlotOk(y, shown, planAllows) BY <1>1, <1>3, <1>8 DEF SlotOk, SlotStates
<1> HIDE DEF y
<1>10. SlotMoves(s, y) BY <1>7, MovesOfSlot DEF VisibilityInv
<1> QED BY <1>9, <1>10, RequestGoesOn

LEMMA BatchKeeps ==
    ASSUME VisibilityConstants, VisibilityInv, NEW s \in RequestSlots, Batch(s)
    PROVE  VisibilityInv'
<1>1. slot[s].pc = "act" /\ Same /\ UNCHANGED cache BY DEF Batch, counters, Same
<1>2. PICK S \in Selected : \E q \in EndOrders(S) : slot' = Proposed(s, S, q) BY DEF Batch
<1>3. PICK q \in EndOrders(S) : slot' = Proposed(s, S, q) BY <1>2
<1>4. S \in SUBSET Products BY DEF Selected
<1>5. IsFiniteSet(S) /\ Cardinality(S) \in Nat
  BY <1>4, FS_Subset, FS_CardinalityType DEF VisibilityConstants
<1>6. PICK n \in 0..Cardinality(S) : q \in [1..n -> S] BY DEF EndOrders
<1>7. q \in Seq(S) /\ Len(q) = n BY <1>5, <1>6
<1>8. Len(q) <= Cardinality(S) BY <1>5, <1>6, <1>7
<1> QED BY <1>1, <1>3, <1>4, <1>7, <1>8, ProposedKeeps

LEMMA DescribeKeeps ==
    ASSUME VisibilityConstants, VisibilityInv, NEW s \in RequestSlots, NEW p \in Products,
           Describe(s, p)
    PROVE  VisibilityInv'
<1>1. slot[s].pc = "act" /\ Same /\ UNCHANGED cache BY DEF Describe, Same
<1>2. CASE slot' = Proposed(s, {p}, <<p>>)
  <2>1. Cardinality({p}) = 1 BY FS_Singleton
  <2>2. <<p>> \in Seq({p}) /\ Len(<<p>>) <= Cardinality({p}) BY <2>1
  <2>3. {p} \in SUBSET Products OBVIOUS
  <2> QED BY <1>1, <1>2, <2>2, <2>3, ProposedKeeps
<1>3. CASE slot' = [slot EXCEPT ![s] = IdleSlot]
  <2>1. SlotMoves(s, IdleSlot) BY <1>3, MovesOfSlot DEF VisibilityInv
  <2> QED BY <1>1, <2>1, IdleSlotOk, RequestGoesOn
<1> QED BY <1>2, <1>3 DEF Describe

\* A request goes on to a place where nothing is said of its value.
At(s, pc, v) == [pc |-> pc, op |-> slot[s].op, key |-> slot[s].key, val |-> v,
                 raced |-> slot[s].raced]

LEMMA AtMoves ==
    ASSUME VisibilityInv, NEW s \in RequestSlots, slot[s].pc # "idle", NEW pc, NEW v,
           \/ slot' = [slot EXCEPT ![s].pc = pc, ![s].val = v]
           \/ slot' = [slot EXCEPT ![s].pc = pc] /\ v = slot[s].val
    PROVE  SlotMoves(s, At(s, pc, v))
<1> DEFINE x == slot[s]
<1>1. s \in DOMAIN slot /\ SlotOk(x, shown, planAllows) BY DEF VisibilityInv, SlotInv
<1>2. x = [pc |-> x.pc, op |-> x.op, key |-> x.key, val |-> x.val, raced |-> x.raced]
  BY <1>1 DEF SlotOk
<1>3. [x EXCEPT !.pc = pc, !.val = v] = At(s, pc, v) BY <1>2, OtherPlace DEF At
<1>4. v = x.val => [x EXCEPT !.pc = pc] = At(s, pc, v) BY <1>2 DEF At
<1>5. slot' = [slot EXCEPT ![s] = At(s, pc, v)] BY <1>1, <1>3, <1>4
<1> QED BY <1>5, MovesOfSlot DEF VisibilityInv

LEMMA AtPlain ==
    ASSUME VisibilityInv, NEW s \in RequestSlots, slot[s].pc # "idle", slot[s].op \in Requests,
           NEW pc \in SlotStates, pc # "fill", NEW v,
           pc = "store" => slot[s].op \notin {"optimize", "describe"}
    PROVE  SlotOk(At(s, pc, v), shown, planAllows)
<1>1. SlotOk(slot[s], shown, planAllows) BY DEF VisibilityInv, SlotInv
<1>2. slot[s].key \in CacheKeys BY <1>1 DEF SlotOk
<1>3. "read" \notin Requests BY DEF Requests, Guarded, Open
<1> QED BY <1>2, <1>3 DEF SlotOk, At

\* A request that does not read has passed the verdict on the plan.
LEMMA ActsForARequest ==
    ASSUME VisibilityInv, NEW s \in RequestSlots, slot[s].pc \in {"act", "store", "drop"}
    PROVE  slot[s].op \in Requests
<1>1. SlotOk(slot[s], shown, planAllows) BY DEF VisibilityInv, SlotInv
<1> QED BY <1>1 DEF SlotOk

LEMMA GenerateFilesKeeps ==
    ASSUME VisibilityInv, NEW s \in RequestSlots, GenerateFiles(s)
    PROVE  VisibilityInv'
<1>1. slot[s].pc = "act" /\ slot[s].op \in {"deploy", "refresh", "generate"}
  BY DEF GenerateFiles
<1>2. Same /\ UNCHANGED cache BY DEF GenerateFiles, Same
<1>3. CASE slot' = [slot EXCEPT ![s].pc = "store", ![s].val = [versions |-> version]]
  <2>1. SlotMoves(s, At(s, "store", [versions |-> version])) BY <1>1, <1>3, AtMoves
  <2>2. slot[s].op \in Requests BY <1>1, ActsForARequest
  <2>3. SlotOk(At(s, "store", [versions |-> version]), shown, planAllows)
    BY <1>1, <2>2, AtPlain DEF SlotStates
  <2> QED BY <1>2, <2>1, <2>3, RequestGoesOn
<1>4. CASE slot' = [slot EXCEPT ![s] = IdleSlot]
  <2>1. SlotMoves(s, IdleSlot) BY <1>4, MovesOfSlot DEF VisibilityInv
  <2> QED BY <1>2, <2>1, IdleSlotOk, RequestGoesOn
<1> QED BY <1>3, <1>4 DEF GenerateFiles

LEMMA NothingFirstKeeps ==
    ASSUME VisibilityInv, NEW s \in RequestSlots, NothingFirst(s)
    PROVE  VisibilityInv'
<1>1. slot[s].pc = "act" /\ slot' = [slot EXCEPT ![s].pc = "drop"] BY DEF NothingFirst
<1>2. Same /\ UNCHANGED cache BY DEF NothingFirst, counters, Same
<1>3. SlotMoves(s, At(s, "drop", slot[s].val)) BY <1>1, AtMoves
<1>4. SlotOk(At(s, "drop", slot[s].val), shown, planAllows)
  BY <1>1, ActsForARequest, AtPlain DEF SlotStates
<1> QED BY <1>2, <1>3, <1>4, RequestGoesOn

(***************************************************************************)
(* Steps that store                                                        *)
(***************************************************************************)
\* The copy under key k, and a function on all keys.
Stored(v, raced, batch, k) ==
    [val |-> v, until |-> time + Ttl[k[1]], raced |-> raced, batch |-> batch]

Whole(c) == c = [k \in CacheKeys |-> c[k]]

LEMMA StoredOk ==
    ASSUME VisibilityConstants, WorldInv, NEW k \in CacheKeys, NEW v, NEW raced, NEW batch,
           ~raced => NewEnough(k, v, shown),
           k[1] = "ai" /\ ~batch => v.of = k[2],
           k = K("plan") /\ v.ok /\ ~raced => planAllows
    PROVE  EntryOk(k, Stored(v, raced, batch, k), shown, planAllows, time, lastPaid)
<1> DEFINE e == Stored(v, raced, batch, k)
<1>1. e.until = time + Ttl[k[1]] /\ e.val = v /\ e.raced = raced /\ e.batch = batch BY DEF Stored
<1>2. e.until \in Nat /\ e.until <= time + Ttl[k[1]] BY <1>1, TtlTyped DEF WorldInv
<1> HIDE DEF e
<1>3. ~e.raced => NewEnough(k, e.val, shown) BY <1>1
<1>4. k[1] = "ai" /\ ~e.batch => e.val.of = k[2] BY <1>1
<1>5. k = K("plan") /\ e.val.ok /\ ~e.raced => planAllows BY <1>1
<1>6. EntryOk(k, e, shown, planAllows, time, lastPaid) BY <1>2, <1>3, <1>4, <1>5 DEF EntryOk
<1> QED BY <1>6 DEF e

\* Copies that no request deletes and that are no verdict on the plan.
LEMMA PlainStored ==
    ASSUME VisibilityConstants, WorldInv, NEW k \in CacheKeys, NEW v, NEW batch,
           k[1] \notin {"feed", "llms", "score", "plan"}, k[1] = "ai" /\ ~batch => v.of = k[2]
    PROVE  EntryOk(k, Stored(v, FALSE, batch, k), shown, planAllows, time, lastPaid)
<1>1. NewEnough(k, v, shown) BY DropsOf DEF NewEnough
<1>2. k # K("plan") BY DEF K
<1> QED BY <1>1, <1>2, StoredOk

LEMMA EntriesKept ==
    ASSUME Same, Whole(cache'),
           \A k \in CacheKeys : EntryOk(k, cache'[k], shown, planAllows, time, lastPaid)
    PROVE  CacheInv'
BY DEF Same, CacheInv, Whole

LEMMA RequestStores ==
    ASSUME VisibilityInv, CacheInv', Same, NEW s \in RequestSlots, NEW y, SlotMoves(s, y),
           SlotOk(y, shown, planAllows)
    PROVE  VisibilityInv'
<1>1. UNCHANGED <<shown, planAllows>> BY DEF Same
<1> QED BY <1>1, WorldKept, SlotsKept DEF VisibilityInv

LEMMA FillKeeps ==
    ASSUME VisibilityConstants, VisibilityInv, NEW s \in RequestSlots, Fill(s)
    PROVE  VisibilityInv'
<1> DEFINE x == slot[s]
<1>1. Same /\ x.pc = "fill" BY DEF Fill, Same
<1>2. SlotOk(x, shown, planAllows) BY DEF VisibilityInv, SlotInv
<1>3. x.op \in {"read"} \cup Requests /\ x.key \in CacheKeys
      /\ FillOk(x.key, x.val, x.raced, shown, planAllows)
  BY <1>1, <1>2 DEF SlotOk
<1>4. CacheInv'
  <2>1. CASE UNCHANGED cache BY <1>1, <2>1, CacheKept DEF VisibilityInv
  <2>2. CASE cache' = Put(cache, x.key, x.val, x.raced, FALSE)
    <3> HIDE DEF x
    <3>0. Whole(cache) BY DEF VisibilityInv, CacheInv, Whole
    <3>1. /\ Whole(cache') /\ cache'[x.key] = Stored(x.val, x.raced, FALSE, x.key)
          /\ \A k \in CacheKeys \ {x.key} : cache'[k] = cache[k]
      BY <1>3, <2>2, <3>0 DEF Put, Stored, Whole
    <3>2. EntryOk(x.key, Stored(x.val, x.raced, FALSE, x.key), shown, planAllows, time, lastPaid)
      BY <1>3, StoredOk DEF VisibilityInv, FillOk
    <3>3. \A k \in CacheKeys \ {x.key} : EntryOk(k, cache'[k], shown, planAllows, time, lastPaid)
      BY <3>1 DEF VisibilityInv, CacheInv
    <3>4. \A k \in CacheKeys : EntryOk(k, cache'[k], shown, planAllows, time, lastPaid)
      BY <3>1, <3>2, <3>3
    <3> QED BY <1>1, <3>1, <3>4, EntriesKept
  <2> QED BY <2>1, <2>2 DEF Fill
<1>5. CASE x.op = "read"
  <2>1. slot' = [slot EXCEPT ![s] = IdleSlot] BY <1>5 DEF Fill
  <2>2. SlotMoves(s, IdleSlot) BY <2>1, MovesOfSlot DEF VisibilityInv
  <2> QED BY <1>1, <1>4, <2>2, IdleSlotOk, RequestStores
<1>6. CASE x.op # "read"
  <2>1. slot' = [slot EXCEPT ![s] = Allowed(s, x.val.ok)] BY <1>6 DEF Fill
  <2>2. PICK pc \in {"act", "idle"} : Allowed(s, x.val.ok) = [x EXCEPT !.pc = pc] BY DEF Allowed
  <2>3. slot' = [slot EXCEPT ![s].pc = pc] BY <2>1, <2>2
  <2>4. SlotMoves(s, At(s, pc, x.val)) BY <1>1, <2>3, AtMoves
  <2>5. SlotOk(At(s, pc, x.val), shown, planAllows)
    BY <1>1, <1>3, <1>6, AtPlain DEF SlotStates
  <2> QED BY <1>1, <1>4, <2>4, <2>5, RequestStores
<1> QED BY <1>5, <1>6

LEMMA StoreBatchKeeps ==
    ASSUME VisibilityConstants, VisibilityInv, NEW s \in RequestSlots, StoreBatch(s)
    PROVE  VisibilityInv'
<1> DEFINE v == slot[s].val
           at(p) == p - v.first + 1
           Hit(k) == k[1] = "ai" /\ at(k[2]) \in DOMAIN v.results
           more == v.size > 1
<1>1. Same /\ slot[s].pc = "store" /\ slot[s].op \in {"optimize", "describe"}
  BY DEF StoreBatch, counters, Same
<1>2. SlotOk(slot[s], shown, planAllows) BY DEF VisibilityInv, SlotInv
<1>3. ProposalOk(v) BY <1>1, <1>2 DEF SlotOk
<1>4. cache' = [k \in CacheKeys |->
                   IF Hit(k) THEN Put(cache, k, v.results[at(k[2])], FALSE, more)[k] ELSE cache[k]]
  BY DEF StoreBatch
<1>5. CacheInv'
  <2> HIDE DEF v
  <2>1. ASSUME NEW k \in CacheKeys, Hit(k)
        PROVE  EntryOk(k, cache'[k], shown, planAllows, time, lastPaid)
    <3> DEFINE r == v.results[at(k[2])]
    <3>1. cache'[k] = Put(cache, k, r, FALSE, more)[k] BY <1>4, <2>1
    <3>2. Put(cache, k, r, FALSE, more)[k] = Stored(r, FALSE, more, k)
      <4> HIDE DEF r, more
      <4>1. Whole(cache) BY DEF VisibilityInv, CacheInv, Whole
      <4> QED BY <4>1 DEF Put, Stored, Whole
    <3>3. ~more => r.of = k[2]
      <4>1. SUFFICES ASSUME ~more PROVE r.of = k[2] OBVIOUS
      <4>2. at(k[2]) = 1 /\ v.first \in Nat /\ r.of = v.first BY <1>3, <2>1, <4>1 DEF ProposalOk
      <4>3. k[2] \in Nat BY <2>1, KeysOf DEF VisibilityConstants
      <4> QED BY <4>2, <4>3
    <3>4. k[1] \notin {"feed", "llms", "score", "plan"} BY <2>1
    <3> HIDE DEF r, more
    <3>5. EntryOk(k, Stored(r, FALSE, more, k), shown, planAllows, time, lastPaid)
      BY <3>3, <3>4, PlainStored DEF VisibilityInv
    <3> QED BY <3>1, <3>2, <3>5
  <2>2. ASSUME NEW k \in CacheKeys, ~Hit(k)
        PROVE  EntryOk(k, cache'[k], shown, planAllows, time, lastPaid)
    BY <1>4, <2>2 DEF VisibilityInv, CacheInv
  <2>3. Whole(cache') BY <1>4 DEF Whole
  <2> HIDE DEF Hit
  <2> QED BY <1>1, <2>1, <2>2, <2>3, EntriesKept
<1>6. SlotMoves(s, At(s, "drop", v))
  <2>1. slot' = [slot EXCEPT ![s].pc = "drop"] BY DEF StoreBatch
  <2> QED BY <1>1, <2>1, AtMoves
<1>7. SlotOk(At(s, "drop", v), shown, planAllows) BY <1>1, ActsForARequest, AtPlain DEF SlotStates
<1> QED BY <1>1, <1>5, <1>6, <1>7, RequestStores

LEMMA DeployKeeps ==
    ASSUME VisibilityConstants, VisibilityInv, NEW s \in RequestSlots, Deploy(s)
    PROVE  VisibilityInv'
<1> DEFINE v == slot[s].val
           c == Put(cache, K("txt"), v, FALSE, FALSE)
           txt == K("txt")
           full == K("full")
<1>1. Same /\ slot[s].pc = "store" BY DEF Deploy, counters, Same
<1>2. cache' = Put(c, full, v, FALSE, FALSE) BY DEF Deploy
<1>3. txt \in CacheKeys /\ full \in CacheKeys /\ txt[1] = "txt" /\ full[1] = "full"
  BY DEF CacheKeys, K
<1>4. CacheInv'
  <2> HIDE DEF v, txt, full
  <2>0. Whole(cache) /\ c = Put(cache, txt, v, FALSE, FALSE)
    BY DEF VisibilityInv, CacheInv, Whole, txt
  <2> HIDE DEF c
  <2>1. /\ Whole(c) /\ c[txt] = Stored(v, FALSE, FALSE, txt)
        /\ \A k \in CacheKeys \ {txt} : c[k] = cache[k]
    BY <1>3, <2>0 DEF Put, Stored, Whole
  <2>2. /\ Whole(cache') /\ cache'[full] = Stored(v, FALSE, FALSE, full)
        /\ \A k \in CacheKeys \ {full} : cache'[k] = c[k]
    BY <1>2, <1>3, <2>1 DEF Put, Stored, Whole
  <2>3. EntryOk(txt, Stored(v, FALSE, FALSE, txt), shown, planAllows, time, lastPaid)
        /\ EntryOk(full, Stored(v, FALSE, FALSE, full), shown, planAllows, time, lastPaid)
    BY <1>3, PlainStored DEF VisibilityInv
  <2>4. ASSUME NEW k \in CacheKeys PROVE EntryOk(k, cache'[k], shown, planAllows, time, lastPaid)
    <3>1. CASE k = full BY <3>1, <2>2, <2>3
    <3>2. CASE k # full /\ k = txt BY <3>2, <2>1, <2>2, <2>3
    <3>3. CASE k # full /\ k # txt BY <3>3, <2>1, <2>2 DEF VisibilityInv, CacheInv
    <3> QED BY <3>1, <3>2, <3>3
  <2> QED BY <1>1, <2>2, <2>4, EntriesKept
<1>5. SlotMoves(s, At(s, "drop", v))
  <2>1. slot' = [slot EXCEPT ![s].pc = "drop"] BY DEF Deploy
  <2> QED BY <1>1, <2>1, AtMoves
<1>6. SlotOk(At(s, "drop", v), shown, planAllows) BY <1>1, ActsForARequest, AtPlain DEF SlotStates
<1> QED BY <1>1, <1>4, <1>5, <1>6, RequestStores

(***************************************************************************)
(* Deletions, and what the world does                                      *)
(***************************************************************************)
\* What is deleted by the request that ends now, or is marked, need not be new.
LEMMA NewEnoughAfter ==
    ASSUME NEW k, NEW v, NewEnough(k, v, shown), NEW op \in Requests, k \notin Drops(op),
           shown \in [Requests -> [Products -> Nat]], shown' = [shown EXCEPT ![op] = version]
    PROVE  NewEnough(k, v, shown')
<1> SUFFICES ASSUME NEW o \in Requests, k \in Drops(o), NEW p \in Products
             PROVE  v.versions[p] >= shown'[o][p]
  BY DEF NewEnough
<1>1. o # op /\ shown'[o] = shown[o] OBVIOUS
<1> QED BY <1>1 DEF NewEnough

LEMMA DropCopiesKeeps ==
    ASSUME VisibilityConstants, VisibilityInv, NEW s \in RequestSlots, DropCopies(s)
    PROVE  VisibilityInv'
<1> DEFINE op == slot[s].op
           Copied(t) == slot[t].pc = "fill" /\ slot[t].key \in {K("feed"), K("llms"), K("score")}
<1>1. op \in Requests BY ActsForARequest DEF DropCopies
<1>2. UNCHANGED <<version, planAllows, lastPaid, time, worldChanges>>
      /\ shown' = [shown EXCEPT ![op] = version]
  BY DEF DropCopies, counters
<1>3. cache' = [k \in CacheKeys |-> IF k \in Drops(op) THEN Gone ELSE cache[k]]
  BY DEF DropCopies
<1>4. slot' = [t \in RequestSlots |-> IF t = s THEN IdleSlot
               ELSE IF Copied(t) THEN [slot[t] EXCEPT !.raced = TRUE] ELSE slot[t]]
  BY DEF DropCopies
<1>5. WorldInv'
  <2>1. shown' \in [Requests -> [Products -> Nat]]
    BY <1>1, <1>2 DEF VisibilityInv, WorldInv
  <2>2. ASSUME NEW o \in Requests, NEW p \in Products PROVE shown'[o][p] <= version'[p]
    <3>1. version[p] \in Nat BY DEF VisibilityInv, WorldInv
    <3> QED BY <1>1, <1>2, <3>1 DEF VisibilityInv, WorldInv
  <2> QED BY <1>2, <2>1, <2>2 DEF VisibilityInv, WorldInv
<1> HIDE DEF op
<1>6. CacheInv'
  <2>1. ASSUME NEW k \in CacheKeys
        PROVE  EntryOk(k, cache'[k], shown', planAllows, time, lastPaid)
    <3>1. EntryOk(k, cache[k], shown, planAllows, time, lastPaid) BY DEF VisibilityInv, CacheInv
    <3>2. CASE k \in Drops(op)
      <4>1. cache'[k] = Gone BY <1>3, <3>2
      <4>2. Gone.until = 0 /\ Ttl[k[1]] \in Nat /\ time \in Nat
        BY TtlTyped DEF Gone, VisibilityInv, WorldInv
      <4> QED BY <4>1, <4>2 DEF EntryOk
    <3>3. CASE k \notin Drops(op)
      <4>1. cache'[k] = cache[k] BY <1>3, <3>3
      <4>2. shown \in [Requests -> [Products -> Nat]] BY DEF VisibilityInv, WorldInv
      <4>3. NewEnough(k, cache[k].val, shown) => NewEnough(k, cache[k].val, shown')
        BY <1>1, <1>2, <3>3, <4>2, NewEnoughAfter
      <4> QED BY <3>1, <4>1, <4>3 DEF EntryOk
    <3> QED BY <3>2, <3>3
  <2>2. cache' = [k \in CacheKeys |-> cache'[k]] BY <1>3
  <2> QED BY <1>2, <2>1, <2>2 DEF CacheInv
<1>7. SlotInv'
  <2>1. ASSUME NEW t \in RequestSlots PROVE SlotOk(slot'[t], shown', planAllows)
    <3> DEFINE x == slot[t]
    <3>1. SlotOk(x, shown, planAllows) BY DEF VisibilityInv, SlotInv
    <3>2. CASE t = s
      <4>1. slot'[t] = IdleSlot BY <1>4, <3>2
      <4> QED BY <4>1, IdleSlotOk
    <3>3. CASE t # s /\ Copied(t)
      <4>1. x = [pc |-> x.pc, op |-> x.op, key |-> x.key, val |-> x.val, raced |-> x.raced]
        BY <3>1, <3>3 DEF SlotOk
      <4> DEFINE y == [pc |-> "fill", op |-> x.op, key |-> x.key, val |-> x.val, raced |-> TRUE]
      <4>2. slot'[t] = y BY <1>4, <3>3, <4>1
      <4>3. FillOk(x.key, x.val, TRUE, shown', planAllows) BY <3>1, <3>3 DEF SlotOk, FillOk
      <4>4. /\ x.op \in {"read"} \cup Requests /\ x.key \in CacheKeys
        BY <3>1, <3>3 DEF SlotOk
      <4> HIDE DEF x
      <4>5. SlotOk(y, shown', planAllows) BY <4>3, <4>4 DEF SlotOk, SlotStates
      <4> QED BY <4>2, <4>5
    <3>4. CASE t # s /\ ~Copied(t)
      <4>1. slot'[t] = x BY <1>4, <3>4
      <4>2. x.pc = "fill" => FillOk(x.key, x.val, x.raced, shown', planAllows)
        <5> SUFFICES ASSUME x.pc = "fill"
                     PROVE  FillOk(x.key, x.val, x.raced, shown', planAllows) OBVIOUS
        <5>1. x.key \notin {K("feed"), K("llms"), K("score")} BY <3>4
        <5>2. NewEnough(x.key, x.val, shown') BY <5>1, DropsOf DEF NewEnough
        <5>3. FillOk(x.key, x.val, x.raced, shown, planAllows) BY <3>1 DEF SlotOk
        <5> QED BY <5>2, <5>3 DEF FillOk
      <4> HIDE DEF x
      <4>3. SlotOk(x, shown', planAllows) BY <3>1, <4>2 DEF SlotOk
      <4> QED BY <4>1, <4>3
    <3> QED BY <3>2, <3>3, <3>4
  <2>2. slot' = [t \in RequestSlots |-> slot'[t]] BY <1>4
  <2> QED BY <1>2, <2>1, <2>2 DEF SlotInv
<1> QED BY <1>5, <1>6, <1>7 DEF VisibilityInv

LEMMA ProductWebhookKeeps ==
    ASSUME VisibilityConstants, VisibilityInv, NEW p \in Products, ProductWebhook(p)
    PROVE  VisibilityInv'
<1>1. UNCHANGED <<planAllows, cache, slot, shown, lastPaid, time>> BY DEF ProductWebhook
<1>2. WorldInv'
  <2>1. version' = [version EXCEPT ![p] = version[p] + 1] /\ worldChanges' = worldChanges + 1
        /\ worldChanges < MaxWorldChanges
    BY DEF ProductWebhook
  <2>2. version' \in [Products -> Nat] /\ worldChanges' \in 0..MaxWorldChanges
    BY <2>1 DEF VisibilityInv, WorldInv, VisibilityConstants
  <2>3. ASSUME NEW q \in Products
        PROVE  /\ version'[q] <= worldChanges' /\ version[q] <= version'[q]
               /\ version[q] \in Nat /\ version'[q] \in Nat
    BY <2>1 DEF VisibilityInv, WorldInv
  <2>4. ASSUME NEW o \in Requests, NEW q \in Products PROVE shown[o][q] <= version'[q]
    <3>1. shown[o][q] \in Nat /\ shown[o][q] <= version[q] BY DEF VisibilityInv, WorldInv
    <3> QED BY <2>3, <3>1
  <2> QED BY <1>1, <2>2, <2>3, <2>4 DEF VisibilityInv, WorldInv
<1>3. CacheInv' BY <1>1 DEF VisibilityInv, CacheInv
<1>4. SlotInv' BY <1>1 DEF VisibilityInv, SlotInv
<1> QED BY <1>2, <1>3, <1>4 DEF VisibilityInv

\* A verdict that has just ceased to hold is remembered for no longer than its lifetime.
LEMMA PlanChangeKeeps ==
    ASSUME VisibilityConstants, VisibilityInv, PlanChange
    PROVE  VisibilityInv'
<1> DEFINE Asked(t) == slot[t].pc = "fill" /\ slot[t].key = K("plan")
<1>1. UNCHANGED <<version, cache, shown, time>> /\ planAllows' = ~planAllows
      /\ lastPaid' = (IF planAllows THEN time ELSE lastPaid)
  BY DEF PlanChange
<1>2. slot' = [t \in RequestSlots |->
                  IF Asked(t) THEN [slot[t] EXCEPT !.raced = TRUE] ELSE slot[t]]
  BY DEF PlanChange
<1>3. WorldInv'
  <2>1. worldChanges < MaxWorldChanges /\ worldChanges' = worldChanges + 1 BY DEF PlanChange
  <2>2. worldChanges' \in 0..MaxWorldChanges /\ worldChanges <= worldChanges'
    BY <2>1 DEF VisibilityInv, WorldInv, VisibilityConstants
  <2>3. lastPaid' \in 0..time' BY <1>1 DEF VisibilityInv, WorldInv
  <2>4. \A p \in Products : version'[p] <= worldChanges'
    BY <1>1, <2>1 DEF VisibilityInv, WorldInv
  <2>5. planAllows' \in BOOLEAN BY <1>1
  <2> QED BY <1>1, <2>2, <2>3, <2>4, <2>5 DEF VisibilityInv, WorldInv
<1>4. CacheInv'
  <2>1. ASSUME NEW k \in CacheKeys
        PROVE  EntryOk(k, cache[k], shown, planAllows', time, lastPaid')
    <3>1. EntryOk(k, cache[k], shown, planAllows, time, lastPaid) BY DEF VisibilityInv, CacheInv
    <3>2. k = K("plan") => planAllows' \/ lastPaid' + Ttl["plan"] >= cache[k].until
      <4> SUFFICES ASSUME k = K("plan"), ~planAllows'
                   PROVE  lastPaid' + Ttl["plan"] >= cache[k].until OBVIOUS
      <4>1. planAllows BY <1>1
      <4>2. lastPaid' = time BY <1>1, <4>1
      <4>3. k[1] = "plan" BY DEF K
      <4>4. cache[k].until \in Nat /\ cache[k].until <= time + Ttl["plan"]
        BY <3>1, <4>3 DEF EntryOk
      <4>5. time \in Nat /\ Ttl["plan"] \in Nat BY TtlTyped DEF VisibilityInv, WorldInv
      <4> QED BY <4>2, <4>4, <4>5
    <3> QED BY <3>1, <3>2 DEF EntryOk
  <2> QED BY <1>1, <2>1 DEF VisibilityInv, CacheInv
<1>5. SlotInv'
  <2>1. ASSUME NEW t \in RequestSlots PROVE SlotOk(slot'[t], shown, planAllows')
    <3> DEFINE x == slot[t]
    <3>1. SlotOk(x, shown, planAllows) BY DEF VisibilityInv, SlotInv
    <3>2. CASE Asked(t)
      <4>1. x = [pc |-> x.pc, op |-> x.op, key |-> x.key, val |-> x.val, raced |-> x.raced]
        BY <3>1, <3>2 DEF SlotOk
      <4> DEFINE y == [pc |-> "fill", op |-> x.op, key |-> x.key, val |-> x.val, raced |-> TRUE]
      <4>2. slot'[t] = y BY <1>2, <3>2, <4>1
      <4>3. FillOk(x.key, x.val, TRUE, shown, planAllows') BY <3>1, <3>2 DEF SlotOk, FillOk
      <4>4. x.op \in {"read"} \cup Requests /\ x.key \in CacheKeys BY <3>1, <3>2 DEF SlotOk
      <4> HIDE DEF x
      <4>5. SlotOk(y, shown, planAllows') BY <4>3, <4>4 DEF SlotOk, SlotStates
      <4> QED BY <4>2, <4>5
    <3>3. CASE ~Asked(t)
      <4>1. slot'[t] = x BY <1>2, <3>3
      <4>2. x.pc = "fill" => FillOk(x.key, x.val, x.raced, shown, planAllows')
        BY <3>1, <3>3 DEF SlotOk, FillOk
      <4> HIDE DEF x
      <4>3. SlotOk(x, shown, planAllows') BY <3>1, <4>2 DEF SlotOk
      <4> QED BY <4>1, <4>3
    <3> QED BY <3>2, <3>3
  <2>2. slot' = [t \in RequestSlots |-> slot'[t]] BY <1>2
  <2> QED BY <1>1, <2>1, <2>2 DEF SlotInv
<1> QED BY <1>3, <1>4, <1>5 DEF VisibilityInv

LEMMA VisibilityTickKeeps ==
    ASSUME VisibilityConstants, VisibilityInv, Tick
    PROVE  VisibilityInv'
<1>1. UNCHANGED <<version, planAllows, slot, shown, lastPaid, worldChanges>>
      /\ time' = time + 1 /\ time < MaxTime
  BY DEF Tick
<1>2. cache' = [k \in CacheKeys |-> IF cache[k].until <= time + 1 THEN Gone ELSE cache[k]]
  BY DEF Tick
<1>3. WorldInv' BY <1>1 DEF VisibilityInv, WorldInv, VisibilityConstants
<1>4. CacheInv'
  <2>1. ASSUME NEW k \in CacheKeys
        PROVE  EntryOk(k, cache'[k], shown, planAllows, time', lastPaid)
    <3>1. EntryOk(k, cache[k], shown, planAllows, time, lastPaid) BY DEF VisibilityInv, CacheInv
    <3>2. Ttl[k[1]] \in Nat /\ time \in Nat /\ time' = time + 1
      BY <1>1, TtlTyped DEF VisibilityInv, WorldInv
    <3>3. CASE cache'[k] = Gone
      <4>1. Gone.until = 0 BY DEF Gone
      <4> QED BY <3>2, <3>3, <4>1 DEF EntryOk
    <3>4. CASE cache'[k] = cache[k]
      <4>1. cache[k].until \in Nat /\ cache[k].until <= time' + Ttl[k[1]]
        BY <3>1, <3>2 DEF EntryOk
      <4> QED BY <3>1, <3>4, <4>1 DEF EntryOk
    <3> QED BY <1>2, <3>3, <3>4
  <2>2. cache' = [k \in CacheKeys |-> cache'[k]] BY <1>2
  <2> QED BY <1>1, <2>1, <2>2 DEF CacheInv
<1>5. SlotInv' BY <1>1 DEF VisibilityInv, SlotInv
<1> QED BY <1>3, <1>4, <1>5 DEF VisibilityInv

LEMMA VisibilityKept ==
    ASSUME VisibilityConstants, VisibilityInv, [VisibilityNext]_visibilityVars
    PROVE  VisibilityInv'
<1>1. CASE UNCHANGED visibilityVars
  BY <1>1 DEF visibilityVars, VisibilityInv, WorldInv, CacheInv, SlotInv
<1>2. CASE \E p \in Products : ProductWebhook(p) BY <1>2, ProductWebhookKeeps
<1>3. CASE PlanChange BY <1>3, PlanChangeKeeps
<1>4. CASE Tick BY <1>4, VisibilityTickKeeps
<1>5. ASSUME NEW s \in RequestSlots,
             \/ \E k \in Reads \cap mix.kinds : Ask(s, k)
             \/ \E p \in Products : GetSchema(s, p) \/ ProductAdvice(s, p)
             \/ \E o \in Guarded \cap mix.kinds : Write(s, o)
             \/ \E o \in Open \cap mix.kinds : WriteOpen(s, o)
      PROVE  VisibilityInv'
  <2>1. \/ \E k \in Reads : Ask(s, k)
        \/ \E p \in Products : GetSchema(s, p) \/ ProductAdvice(s, p)
        \/ \E o \in Guarded : Write(s, o)
        \/ \E o \in Open : WriteOpen(s, o)
    BY <1>5
  <2> QED BY <2>1, AskKeeps
<1>6. ASSUME NEW s \in RequestSlots, Lookup(s) \/ Query(s) \/ Fill(s)
      PROVE  VisibilityInv'
  BY <1>6, LookupKeeps, QueryKeeps, FillKeeps
<1>7. ASSUME NEW s \in RequestSlots,
             \/ Batch(s) \/ StoreBatch(s) \/ \E p \in Products : Describe(s, p)
             \/ GenerateFiles(s) \/ Deploy(s) \/ NothingFirst(s) \/ DropCopies(s)
      PROVE  VisibilityInv'
  <2>1. CASE Batch(s) \/ StoreBatch(s) BY <2>1, BatchKeeps, StoreBatchKeeps
  <2>2. CASE \E p \in Products : Describe(s, p) BY <2>2, DescribeKeeps
  <2>3. CASE GenerateFiles(s) \/ Deploy(s) \/ NothingFirst(s) \/ DropCopies(s)
    BY <2>3, GenerateFilesKeeps, DeployKeeps, NothingFirstKeeps, DropCopiesKeeps
  <2> QED BY <1>7, <2>1, <2>2, <2>3
<1> QED BY <1>1, <1>2, <1>3, <1>4, <1>5, <1>6, <1>7 DEF VisibilityNext

LEMMA VisibilityImplies ==
    ASSUME VisibilityConstants, VisibilityInv
    PROVE  VisibilityTypeOK /\ VisibilitySound
<1>1. VisibilityTypeOK
  <2>1. ASSUME NEW k \in CacheKeys PROVE cache[k].until <= MaxTime + Ttl[k[1]]
    <3>1. EntryOk(k, cache[k], shown, planAllows, time, lastPaid) BY DEF VisibilityInv, CacheInv
    <3>2. Ttl[k[1]] \in Nat /\ time \in Nat /\ MaxTime \in Nat /\ time <= MaxTime
      BY TtlTyped DEF VisibilityInv, WorldInv, VisibilityConstants
    <3>3. cache[k].until \in Nat /\ cache[k].until <= time + Ttl[k[1]] BY <3>1 DEF EntryOk
    <3> QED BY <3>2, <3>3
  <2>2. \A s \in RequestSlots :
            slot[s].pc \in {"idle", "lookup", "query", "fill", "act", "store", "drop"}
    BY DEF VisibilityInv, SlotInv, SlotOk, SlotStates
  <2>3. version \in [Products -> 0..MaxWorldChanges]
    <3>1. ASSUME NEW p \in Products PROVE version[p] \in 0..MaxWorldChanges
      BY DEF VisibilityInv, WorldInv, VisibilityConstants
    <3>2. version \in [Products -> Nat] BY DEF VisibilityInv, WorldInv
    <3> QED BY <3>1, <3>2
  <2>4. lastPaid <= time BY DEF VisibilityInv, WorldInv
  <2> QED BY <2>1, <2>2, <2>3, <2>4 DEF VisibilityTypeOK
<1>2. ASSUME NEW k \in CacheKeys, NEW o \in Requests, k \in Drops(o) PROVE NotOlder(k, o)
  BY <1>2 DEF VisibilityInv, CacheInv, EntryOk, NewEnough, NotOlder, Live
<1>3. Invalidated
  <2>1. K("feed") \in CacheKeys /\ K("llms") \in CacheKeys /\ K("score") \in CacheKeys
    BY DEF CacheKeys
  <2>2. \A o \in {"optimize", "describe", "clear", "regenerate"} :
            o \in Requests /\ K("feed") \in Drops(o)
    BY DEF Drops, Requests, Guarded, Open
  <2>3. "regenerate" \in Requests /\ K("llms") \in Drops("regenerate")
    BY DEF Drops, Requests, Open
  <2>4. \A o \in {"optimize", "describe", "clear", "scan", "deploy", "refresh"} :
            o \in Requests /\ K("score") \in Drops(o)
    BY DEF Drops, Requests, Guarded, Open
  <2> QED BY <1>2, <2>1, <2>2, <2>3, <2>4 DEF Invalidated
<1>4. AdviceKept
  <2> SUFFICES ASSUME NEW p \in Products, Live(<<"ai", p>>), ~cache[<<"ai", p>>].batch
               PROVE  cache[<<"ai", p>>].val.of = p
    BY DEF AdviceKept
  <2>1. <<"ai", p>> \in CacheKeys BY DEF CacheKeys
  <2>2. EntryOk(<<"ai", p>>, cache[<<"ai", p>>], shown, planAllows, time, lastPaid)
    BY <2>1 DEF VisibilityInv, CacheInv
  <2> QED BY <2>2 DEF EntryOk, Live
<1>5. PlanRemembered
  <2>1. K("plan") \in CacheKeys BY DEF CacheKeys
  <2>2. EntryOk(K("plan"), cache[K("plan")], shown, planAllows, time, lastPaid)
    BY <2>1 DEF VisibilityInv, CacheInv
  <2> QED BY <2>2 DEF EntryOk, Live, PlanRemembered
<1> QED BY <1>1, <1>3, <1>4, <1>5 DEF VisibilitySound

\* What is served after a request has deleted the copies is no older than that request's
\* end unless it was being computed, advice is for its product but after a batch, and a
\* plan is remembered for one lifetime, for any number of products, requests and lifetimes
\* (handler/visibility.go, handler/geo.go).
THEOREM VisibilityIsSound ==
    ASSUME VisibilityConstants
    PROVE  VisibilitySpec => [](VisibilityTypeOK /\ VisibilitySound)
<1>1. VisibilityInit => VisibilityInv BY VisibilityInitSatisfies
<1>2. VisibilityInv /\ [VisibilityNext]_visibilityVars => VisibilityInv' BY VisibilityKept
<1>3. VisibilityInv => VisibilityTypeOK /\ VisibilitySound BY VisibilityImplies
<1> QED BY <1>1, <1>2, <1>3, PTL DEF VisibilitySpec
=============================================================================
