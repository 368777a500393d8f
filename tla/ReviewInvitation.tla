-------------------------- MODULE ReviewInvitation --------------------------
(***************************************************************************)
(* Review invitations of one customer for one product: order webhooks      *)
(* (handler/webhook.go, handler/webhook_order.go), the bus consumer that   *)
(* stores an invitation and its delayed task and the task that mails it    *)
(* (service/review_inviter.go), the bus consumer that converts it when the *)
(* review arrives (service/review_invitation_attributor.go), the resend    *)
(* button (handler/review_invitations.go) and the shop's preference        *)
(* (handler/notifications.go).                                             *)
(*                                                                         *)
(* A row, its task, its mail and its mark are four writes to three         *)
(* systems.  Every webhook here is of a fulfilled order.                   *)
(***************************************************************************)
EXTENDS Integers, FiniteSets

CONSTANTS
    Webhook,        \* ids of the webhooks Shopify sends
    Order,          \* the customer's orders
    OrderOf,        \* OrderOf[d]: the order of webhook d
    Engine,         \* engines: each consumes order.fulfilled and review.synced
    Sender,         \* runs of ExecuteTask at the same time
    MaxRetries,     \* retries of a task (config MAX_RETRIES)
    MaxSends,       \* bound: deliveries of webhooks
    MaxInvitations, \* bound: rows stored
    MaxReviews,     \* bound: review.synced events of this customer and product
    MaxFaults       \* bound: failed writes and calls, lost events, deaths, timeouts

ASSUME WebhookAssumption == OrderOf \in [Webhook -> Order]
ASSUME SenderAssumption == IsFiniteSet(Sender)
ASSUME BoundsAssumption ==
    /\ MaxRetries \in Nat
    /\ MaxSends \in Nat
    /\ MaxInvitations \in Nat
    /\ MaxReviews \in Nat
    /\ MaxFaults \in Nat

Invitation == 1 .. MaxInvitations
None == 0

VARIABLES
    sends,      \* deliveries of webhooks so far
    seen,       \* webhook ids stored in Redis
    fulfilled,  \* fulfilled[o]: order.fulfilled events waiting for a consumer
    reviews,    \* review.synced events waiting for a consumer
    written,    \* review.synced events published so far
    status,     \* status[i]: of invitation i, or "none"
    order,      \* order[i]: the order of invitation i
    inviter,    \* inviter[e]: the row engine e has stored and not enqueued
    converter,  \* converter[e]: the row engine e has found and not converted
    task,       \* task[i]: "none" | "due" | "running"
    retries,    \* retries[i]: retries of the task so far
    sender,     \* sender[s]: where run s of ExecuteTask is
    mails,      \* history: mails[i], messages Resend took
    prefers,    \* history: the shop's wish, as it last saved it
    invites,    \* email_review_invites as it is stored
    orphans,    \* history: rows whose task was never enqueued
    faults      \* history: faults so far

webhooks == <<sends, seen>>
rows == <<status, order>>
bus == <<fulfilled, reviews, written>>
sending == <<task, retries, sender, mails>>
prefs == <<prefers, invites>>
vars == <<webhooks, bus, rows, inviter, converter, sending, prefs, orphans, faults>>

FreeSender == [pc |-> "idle", i |-> None, of |-> "task"]

TypeOK ==
    /\ sends \in 0 .. MaxSends
    /\ seen \subseteq Webhook
    /\ fulfilled \in [Order -> Nat]
    /\ reviews \in 0 .. MaxReviews
    /\ written \in 0 .. MaxReviews
    /\ status \in [Invitation -> {"none", "pending", "sent", "converted"}]
    /\ order \in [Invitation -> Order \union {None}]
    /\ inviter \in [Engine -> Invitation \union {None}]
    /\ converter \in [Engine -> Invitation \union {None}]
    /\ task \in [Invitation -> {"none", "due", "running"}]
    /\ retries \in [Invitation -> 0 .. MaxRetries]
    /\ sender \in [Sender -> [pc : {"idle", "mail", "mark"},
                              i : Invitation \union {None},
                              of : {"task", "resend", "late"}]]
    /\ mails \in [Invitation -> Nat]
    /\ prefers \in BOOLEAN
    /\ invites \in BOOLEAN
    /\ orphans \subseteq Invitation
    /\ faults \in 0 .. MaxFaults

Init ==
    /\ sends = 0
    /\ seen = {}
    /\ fulfilled = [o \in Order |-> 0]
    /\ reviews = 0
    /\ written = 0
    /\ status = [i \in Invitation |-> "none"]
    /\ order = [i \in Invitation |-> None]
    /\ inviter = [e \in Engine |-> None]
    /\ converter = [e \in Engine |-> None]
    /\ task = [i \in Invitation |-> "none"]
    /\ retries = [i \in Invitation |-> 0]
    /\ sender = [s \in Sender |-> FreeSender]
    /\ mails = [i \in Invitation |-> 0]
    /\ prefers = TRUE
    /\ invites = TRUE
    /\ orphans = {}
    /\ faults = 0

Fault == faults < MaxFaults /\ faults' = faults + 1

-----------------------------------------------------------------------------
(* Webhooks.  The id is stored before the work is done; whatever goes wrong *)
(* after that is answered with 200 or dropped when the webhook comes again. *)

Delivery == sends < MaxSends /\ sends' = sends + 1

Publish(d) == fulfilled' = [fulfilled EXCEPT ![OrderOf[d]] = @ + 1]

Handle(d) ==
    /\ Delivery
    /\ IF d \in seen
       THEN UNCHANGED <<seen, fulfilled>>
       ELSE seen' = seen \union {d} /\ Publish(d)
    /\ UNCHANGED <<reviews, written, rows, inviter, converter, sending, prefs,
                   orphans, faults>>

\* SETNX fails and the webhook is handled unchecked.
HandleUnchecked(d) ==
    /\ Delivery
    /\ Fault
    /\ Publish(d)
    /\ UNCHANGED <<seen, reviews, written, rows, inviter, converter, sending, prefs,
                   orphans>>

\* The upsert or XADD fails, or the process dies, after SETNX.
HandleFails(d) ==
    /\ Delivery
    /\ Fault
    /\ d \notin seen
    /\ seen' = seen \union {d}
    /\ UNCHANGED <<bus, rows, inviter, converter, sending, prefs, orphans>>

\* A webhook of Judge.me publishes the customer's review, once more when the
\* review is updated.
SyncReview ==
    /\ written < MaxReviews
    /\ written' = written + 1
    /\ reviews' = reviews + 1
    /\ UNCHANGED <<webhooks, fulfilled, rows, inviter, converter, sending, prefs,
                   orphans, faults>>

\* Assign takes a struct, whose zero fields GORM leaves out of the update and
\* fills from the column's default in the insert: FALSE is never written.
UpdatePrefs(wish) ==
    /\ prefers' = wish
    /\ invites' = (invites \/ wish)
    /\ UNCHANGED <<webhooks, bus, rows, inviter, converter, sending, orphans, faults>>

-----------------------------------------------------------------------------
(* The consumer of order.fulfilled.                                         *)

Stored == {i \in Invitation : status[i] # "none"}

TakeFulfilled(e, o) ==
    /\ inviter[e] = None
    /\ fulfilled[o] > 0
    /\ fulfilled' = [fulfilled EXCEPT ![o] = @ - 1]
    /\ UNCHANGED <<webhooks, reviews, written, converter, sending, prefs, orphans>>

\* The event is of no use when the shop has switched invitations off.
CreateInvitation(e, o) ==
    LET i == Cardinality(Stored) + 1
    IN  /\ TakeFulfilled(e, o)
        /\ IF invites
           THEN /\ i <= MaxInvitations
                /\ status' = [status EXCEPT ![i] = "pending"]
                /\ order' = [order EXCEPT ![i] = o]
                /\ inviter' = [inviter EXCEPT ![e] = i]
           ELSE UNCHANGED <<rows, inviter>>
        /\ UNCHANGED faults

\* The insert fails, or the event is lost with its reader.
CreateInvitationFails(e, o) ==
    /\ TakeFulfilled(e, o)
    /\ Fault
    /\ UNCHANGED <<rows, inviter>>

EnqueueAt(e) ==
    /\ inviter[e] # None
    /\ task' = [task EXCEPT ![inviter[e]] = "due"]
    /\ inviter' = [inviter EXCEPT ![e] = None]
    /\ UNCHANGED <<webhooks, bus, rows, converter, retries, sender, mails, prefs,
                   orphans, faults>>

\* Redis refuses the task or the engine dies: nothing looks for the row again.
EnqueueAtFails(e) ==
    /\ inviter[e] # None
    /\ Fault
    /\ orphans' = orphans \union {inviter[e]}
    /\ inviter' = [inviter EXCEPT ![e] = None]
    /\ UNCHANGED <<webhooks, bus, rows, converter, sending, prefs>>

-----------------------------------------------------------------------------
(* ExecuteTask.  A task of asynq runs on one worker at a time until it ends *)
(* or times out; a run that has timed out goes on, and its task may already *)
(* be running again.                                                        *)

\* Seeded bug: the query asks for the id alone.
ExecuteAny(s, i, of) ==
    /\ sender[s].pc = "idle"
    /\ IF invites
       THEN /\ sender' = [sender EXCEPT ![s] = [pc |-> "mail", i |-> i, of |-> of]]
            /\ task' = IF of = "task" THEN [task EXCEPT ![i] = "running"] ELSE task
       ELSE /\ task' = IF of = "task" THEN [task EXCEPT ![i] = "none"] ELSE task
            /\ UNCHANGED sender
    /\ UNCHANGED <<webhooks, bus, rows, inviter, converter, retries, mails, prefs,
                   orphans, faults>>

\* The row is read if it is pending, and then the preference.
Execute(s, i, of) ==
    /\ sender[s].pc = "idle"
    /\ IF status[i] = "pending" /\ invites
       THEN /\ sender' = [sender EXCEPT ![s] = [pc |-> "mail", i |-> i, of |-> of]]
            /\ task' = IF of = "task" THEN [task EXCEPT ![i] = "running"] ELSE task
       ELSE /\ task' = IF of = "task" THEN [task EXCEPT ![i] = "none"] ELSE task
            /\ UNCHANGED sender
    /\ UNCHANGED <<webhooks, bus, rows, inviter, converter, retries, mails, prefs,
                   orphans, faults>>

RunTask(s, i) == task[i] = "due" /\ Execute(s, i, "task")

\* Nothing is resent when the row says that it was sent.
Resend(s, i) == status[i] \in {"pending", "sent"} /\ Execute(s, i, "resend")

\* Seeded bug: a failed task is given up at once.
GiveUp(i) == task' = [task EXCEPT ![i] = "none"] /\ UNCHANGED retries

\* A task whose run failed is retried, or archived after its last retry.
Retry(i) ==
    IF retries[i] < MaxRetries
    THEN /\ task' = [task EXCEPT ![i] = "due"]
         /\ retries' = [retries EXCEPT ![i] = @ + 1]
    ELSE task' = [task EXCEPT ![i] = "none"] /\ UNCHANGED retries

\* The query fails.
RunTaskFails(i) ==
    /\ task[i] = "due"
    /\ Fault
    /\ Retry(i)
    /\ UNCHANGED <<webhooks, bus, rows, inviter, converter, sender, mails, prefs,
                   orphans>>

\* Run s returns; only the run asynq waits for decides about its task.
Succeed(s) ==
    /\ sender' = [sender EXCEPT ![s] = FreeSender]
    /\ task' = IF sender[s].of = "task"
               THEN [task EXCEPT ![sender[s].i] = "none"] ELSE task
    /\ UNCHANGED retries

Fail(s) ==
    /\ Fault
    /\ sender' = [sender EXCEPT ![s] = FreeSender]
    /\ IF sender[s].of = "task" THEN Retry(sender[s].i) ELSE UNCHANGED <<task, retries>>

SendToCustomer(s) ==
    /\ sender[s].pc = "mail"
    /\ mails' = [mails EXCEPT ![sender[s].i] = @ + 1]
    /\ sender' = [sender EXCEPT ![s].pc = "mark"]
    /\ UNCHANGED <<webhooks, bus, rows, inviter, converter, task, retries, prefs,
                   orphans, faults>>

\* Resend rejects the message, or takes it and the answer is lost.
SendToCustomerFails(s) ==
    /\ sender[s].pc = "mail"
    /\ Fail(s)
    /\ mails' \in {mails, [mails EXCEPT ![sender[s].i] = @ + 1]}
    /\ UNCHANGED <<webhooks, bus, rows, inviter, converter, prefs, orphans>>

\* The update to "sent", by primary key alone.
MarkSent(s) ==
    /\ sender[s].pc = "mark"
    /\ status' = [status EXCEPT ![sender[s].i] = "sent"]
    /\ Succeed(s)
    /\ UNCHANGED <<webhooks, bus, order, inviter, converter, mails, prefs, orphans,
                   faults>>

\* The update fails, or the process dies after the message.
MarkSentFails(s) ==
    /\ sender[s].pc = "mark"
    /\ Fail(s)
    /\ UNCHANGED <<webhooks, bus, rows, inviter, converter, mails, prefs, orphans>>

\* Nothing in a run looks at the task's deadline while a call hangs.
TimeOut(s) ==
    /\ sender[s].pc # "idle" /\ sender[s].of = "task"
    /\ Fault
    /\ sender' = [sender EXCEPT ![s].of = "late"]
    /\ Retry(sender[s].i)
    /\ UNCHANGED <<webhooks, bus, rows, inviter, converter, mails, prefs, orphans>>

-----------------------------------------------------------------------------
(* The consumer of review.synced: any open invitation of the customer for   *)
(* the product is taken, and the update asks for its id alone.              *)

Open == {i \in Invitation : status[i] \in {"pending", "sent"}}

TakeReview(e) ==
    /\ converter[e] = None
    /\ reviews > 0
    /\ reviews' = reviews - 1
    /\ UNCHANGED <<webhooks, fulfilled, written, rows, inviter, sending, prefs, orphans>>

FindInvitation(e) ==
    /\ TakeReview(e)
    /\ IF Open = {} THEN UNCHANGED converter
       ELSE \E i \in Open : converter' = [converter EXCEPT ![e] = i]
    /\ UNCHANGED faults

\* The query fails, or the event is lost with its reader.
FindInvitationFails(e) ==
    /\ TakeReview(e)
    /\ Fault
    /\ UNCHANGED converter

Convert(e) ==
    /\ converter[e] # None
    /\ status' = [status EXCEPT ![converter[e]] = "converted"]
    /\ converter' = [converter EXCEPT ![e] = None]
    /\ UNCHANGED <<webhooks, bus, order, inviter, sending, prefs, orphans, faults>>

ConvertFails(e) ==
    /\ converter[e] # None
    /\ Fault
    /\ converter' = [converter EXCEPT ![e] = None]
    /\ UNCHANGED <<webhooks, bus, rows, inviter, sending, prefs, orphans>>

-----------------------------------------------------------------------------

Environment ==
    \/ \E d \in Webhook : Handle(d) \/ HandleUnchecked(d) \/ HandleFails(d)
    \/ SyncReview
    \/ \E wish \in BOOLEAN : UpdatePrefs(wish)

Invite ==
    \/ \E e \in Engine, o \in Order :
          CreateInvitation(e, o) \/ CreateInvitationFails(e, o)
    \/ \E e \in Engine : EnqueueAt(e) \/ EnqueueAtFails(e)

Send ==
    \/ \E s \in Sender, i \in Invitation : RunTask(s, i) \/ Resend(s, i)
    \/ \E i \in Invitation : RunTaskFails(i)
    \/ \E s \in Sender :
          \/ SendToCustomer(s) \/ SendToCustomerFails(s)
          \/ MarkSent(s) \/ MarkSentFails(s) \/ TimeOut(s)

Attribute ==
    \E e \in Engine :
        FindInvitation(e) \/ FindInvitationFails(e) \/ Convert(e) \/ ConvertFails(e)

Next == Environment \/ Invite \/ Send \/ Attribute

Spec == Init /\ [][Next]_vars

(***************************************************************************)
(* A handler that has begun goes on, and asynq starts a due task although  *)
(* other runs come and go.  Webhooks, reviews, the merchant and faults are *)
(* owed nothing.                                                           *)
(***************************************************************************)
Fairness ==
    /\ \A e \in Engine : WF_vars(EnqueueAt(e)) /\ WF_vars(Convert(e))
    /\ \A i \in Invitation : SF_vars(\E s \in Sender : RunTask(s, i))
    /\ \A s \in Sender : WF_vars(SendToCustomer(s)) /\ WF_vars(MarkSent(s))

FairSpec == Spec /\ Fairness

-----------------------------------------------------------------------------
(* Properties.                                                              *)

\* A webhook that is delivered again invites nobody again: an order has at
\* most one invitation for each of its webhooks, and one more only where Redis
\* could not tell that the webhook was known (Handle and HandleEvent).
InvitationsBounded ==
    \A o \in Order :
        Cardinality({i \in Stored : order[i] = o}) + fulfilled[o]
            <= Cardinality({d \in seen : OrderOf[d] = o}) + faults

\* Runs that overlap mail an invitation twice, since the mail comes before
\* the mark; but a run that begins after a mark sends nothing, so there are no
\* more messages than runs at a time, and one for each fault (ExecuteTask).
MailsBounded ==
    \A i \in Invitation : mails[i] <= Cardinality(Sender) + faults

Sending(i) == \E s \in Sender : sender[s].pc # "idle" /\ sender[s].i = i

\* A conversion is final from the moment no run that has read the row as
\* pending is left: nothing mails it or turns it back to "sent" after that
\* (ExecuteTask asks for "pending", HandleReviewSynced for an open row).
ConvertedStays ==
    \A i \in Invitation : status[i] = "converted" /\ ~Sending(i)
                         => status'[i] = "converted" /\ ~Sending(i)'

\* No step invites an order or mails a customer more often than the webhooks,
\* the runs at a time and the faults account for, or undoes a conversion.
InvitationsSafe ==
    [][(TypeOK /\ InvitationsBounded /\ MailsBounded)' /\ ConvertedStays]_vars

\* Retries absorb failures: an invitation that is pending is mailed or
\* converted, unless its task was never enqueued or as many steps went wrong
\* as end the retries of a task.
PendingIsSettled ==
    \A i \in Invitation :
        status[i] = "pending" ~> \/ status[i] # "pending"
                                 \/ i \in orphans
                                 \/ faults > MaxRetries

\* review_inviter.go:156 has preferences that the shop may have disabled: no
\* invitation is stored for a shop that has saved that it wants none.
OptOutIsHonoured ==
    [][\A i \in Invitation : status[i] = "none" /\ status'[i] = "pending"
                             => prefers]_vars
=============================================================================
