---------------------------- MODULE CartRecovery ----------------------------
(***************************************************************************)
(* Abandoned-cart recovery of one shop: the executor that mails discount   *)
(* codes (handler/cart_recovery_exec.go), the checkout webhooks that feed  *)
(* it (handler/webhook_checkout.go) and the attribution of orders that use *)
(* the codes (handler/cart_recovery_attributor.go).                        *)
(*                                                                         *)
(* Every engine enqueues a scan every five minutes and a task server runs  *)
(* ten tasks at a time, so scans overlap; they share nothing but the       *)
(* database, read and written one statement at a time.                     *)
(***************************************************************************)
EXTENDS Integers, FiniteSets

CONSTANTS
    Worker,     \* task workers that may run a scan at the same time
    Campaign,   \* the shop's campaigns
    Discounted, \* those with discount_percent > 0
    Addressed,  \* do the shop's domain and token reach the discount client
    ScanLimit,  \* LIMIT of the query for due checkouts
    Checkout,   \* checkout tokens, all with a customer_email
    Order,      \* orders placed in the shop
    MaxFaults   \* bound: deaths of a worker and rejected database writes

\* What the module asks of its constants; the instances assume it.
CartConstants == /\ Discounted \subseteq Campaign /\ Addressed \in BOOLEAN
                 /\ ScanLimit \in Nat \ {0} /\ MaxFaults \in Nat
                 /\ IsFiniteSet(Worker)

VARIABLES
    active,   \* campaigns with is_active and schedule_enabled
    status,   \* status[c]: of the synced_checkouts row, or "absent"
    older,    \* <<d, c>>: d's row was updated before c's (updated_at)
    due,      \* due[c]: campaigns whose delay has passed since updated_at
    rows,     \* rows[c][k]: statuses of the cart_recovery_sends rows
    codes,    \* codes[c][k]: cart_recovery_codes rows, numbered
    used,     \* codes with is_used
    scan,     \* scan[w]: where worker w is in its scan
    order,    \* order[o]: the attribution goroutine of order o
    emails,   \* history: emails[c][k], messages Resend accepted
    mailed,   \* history: codes that were in an accepted message
    credited, \* history: <<o, code>> published as an order_recovered event
    faults    \* history: deaths and rejected writes so far

tables == <<status, older, due, rows, codes, used>>
history == <<emails, mailed, credited, faults>>
cartVars == <<active, tables, scan, order, history>>

Status == {"absent", "open", "ordered", "abandoned", "recovered"}

\* The n-th code generated for a checkout by a campaign.
Code == Checkout \X Campaign \X (Nat \ {0})

Saved == {code \in Code : code[3] <= codes[code[1]][code[2]]}

None == "none"

(***************************************************************************)
(* A scan: the campaigns it has still to visit, the checkouts its last     *)
(* query returned, the campaign k and checkout c it is working on and the  *)
(* number n of the code it generated for them (0: none).                   *)
(***************************************************************************)
Idle == [pc |-> "idle", campaigns |-> {}, list |-> {},
         k |-> None, c |-> None, n |-> 0]

Step == {"idle", "scan", "list", "code", "email", "record", "mark"}

Scans == [pc : Step, campaigns : SUBSET Campaign, list : SUBSET Checkout,
          k : Campaign \union {None}, c : Checkout \union {None}, n : Nat]

Attributions == [pc : {"none", "used", "done"}, code : Code \union {<<>>}]

CartTypeOK ==
    /\ active \subseteq Campaign
    /\ status \in [Checkout -> Status]
    /\ older \subseteq Checkout \X Checkout
    /\ due \in [Checkout -> SUBSET Campaign]
    /\ rows \in [Checkout -> [Campaign -> SUBSET {"sent", "failed"}]]
    /\ codes \in [Checkout -> [Campaign -> Nat]]
    /\ used \subseteq Code
    /\ scan \in [Worker -> Scans]
    /\ order \in [Order -> Attributions]
    /\ emails \in [Checkout -> [Campaign -> Nat]]
    /\ mailed \subseteq Code
    /\ credited \subseteq Order \X Code
    /\ faults \in 0 .. MaxFaults

CartInit ==
    /\ active = Campaign
    /\ status = [c \in Checkout |-> "absent"]
    /\ older = {}
    /\ due = [c \in Checkout |-> {}]
    /\ rows = [c \in Checkout |-> [k \in Campaign |-> {}]]
    /\ codes = [c \in Checkout |-> [k \in Campaign |-> 0]]
    /\ used = {}
    /\ scan = [w \in Worker |-> Idle]
    /\ order = [o \in Order |-> [pc |-> "none", code |-> <<>>]]
    /\ emails = [c \in Checkout |-> [k \in Campaign |-> 0]]
    /\ mailed = {}
    /\ credited = {}
    /\ faults = 0

-----------------------------------------------------------------------------
(* Checkout webhooks and time.  The upsert refreshes updated_at and never   *)
(* touches the status of a row that exists.                                 *)

Upsert(c, topicStatus) ==
    /\ status' = [status EXCEPT ![c] = IF @ = "absent" THEN topicStatus ELSE @]
    /\ older' = {e \in older : e[1] # c} \union
                   {<<d, c>> : d \in {d \in Checkout \ {c} : status[d] # "absent"}}
    /\ due' = [due EXCEPT ![c] = {}]
    /\ UNCHANGED <<active, rows, codes, used, scan, order, history>>

CheckoutCreate(c) == Upsert(c, "open")
CheckoutUpdate(c) == Upsert(c, "ordered")

DelayPasses(c, k) ==
    /\ status[c] # "absent"
    /\ k \notin due[c]
    /\ due' = [due EXCEPT ![c] = @ \union {k}]
    /\ UNCHANGED <<active, status, older, rows, codes, used, scan, order, history>>

\* A merchant switches a campaign on or off, or deletes it.
SwitchCampaign(k) ==
    /\ active' = IF k \in active THEN active \ {k} ELSE active \union {k}
    /\ UNCHANGED <<tables, scan, order, history>>

-----------------------------------------------------------------------------
(* The executor.                                                            *)

StartScan(w) ==
    /\ scan[w].pc = "idle"
    /\ scan' = [scan EXCEPT ![w] = [Idle EXCEPT !.pc = "scan",
                                                !.campaigns = active]]
    /\ UNCHANGED <<active, tables, order, history>>

DueFor(k) == {c \in Checkout : status[c] = "open" /\ k \in due[c]}

\* The open checkouts due for campaign k that the query puts before c.
Ahead(c, k) == {d \in DueFor(k) : <<d, c>> \in older}

\* Seeded bug: the comparison with updated_at is the wrong way round.
EligibleTooEarly(k) ==
    {c \in Checkout : status[c] = "open" /\ k \notin due[c]}

\* Oldest first, ScanLimit of them.
Eligible(k) == {c \in DueFor(k) : Cardinality(Ahead(c, k)) < ScanLimit}

\* The next campaign of the snapshot and the checkouts due for it.
QueryCheckouts(w) ==
    /\ scan[w].pc = "scan"
    /\ \E k \in scan[w].campaigns :
          scan' = [scan EXCEPT ![w] =
                      [@ EXCEPT !.pc = "list", !.k = k, !.list = Eligible(k),
                                !.campaigns = scan[w].campaigns \ {k}]]
    /\ UNCHANGED <<active, tables, order, history>>

EndScan(w) ==
    /\ scan[w].pc = "scan"
    /\ scan[w].campaigns = {}
    /\ scan' = [scan EXCEPT ![w] = Idle]
    /\ UNCHANGED <<active, tables, order, history>>

EndList(w) ==
    /\ scan[w].pc = "list"
    /\ scan[w].list = {}
    /\ scan' = [scan EXCEPT ![w].pc = "scan"]
    /\ UNCHANGED <<active, tables, order, history>>

\* A send row of any status counts as "already sent".
SkipCheckout(w) ==
    /\ scan[w].pc = "list"
    /\ \E c \in scan[w].list :
          /\ rows[c][scan[w].k] # {}
          /\ scan' = [scan EXCEPT ![w].list = @ \ {c}]
    /\ UNCHANGED <<active, tables, order, history>>

TakeCheckout(w) ==
    /\ scan[w].pc = "list"
    /\ \E c \in scan[w].list :
          /\ rows[c][scan[w].k] = {}
          /\ scan' = [scan EXCEPT ![w] =
                         [@ EXCEPT !.list = scan[w].list \ {c}, !.c = c, !.n = 0,
                                   !.pc = IF scan[w].k \in Discounted
                                          THEN "code" ELSE "email"]]
    /\ UNCHANGED <<active, tables, order, history>>

\* Seeded bug: a code whose row could not be saved is mailed all the same.
MakeCodeUnsaved(w) ==
    LET s == scan[w] IN
    /\ Addressed
    /\ s.pc = "code"
    /\ scan' = [scan EXCEPT ![w] = [s EXCEPT !.pc = "email",
                                             !.n = codes[s.c][s.k] + 1]]
    /\ UNCHANGED <<active, tables, order, history>>

\* Price rule, discount code at Shopify, and the cart_recovery_codes row.  The
\* lookup selects shop_domain and access_token, and the client is then given
\* shop.Domain, which is empty, and no token: without either Shopify makes
\* nothing, so in the code as it is Addressed is FALSE.
MakeCode(w) ==
    LET s == scan[w] IN
    /\ Addressed
    /\ s.pc = "code"
    /\ codes' = [codes EXCEPT ![s.c][s.k] = @ + 1]
    /\ scan' = [scan EXCEPT ![w] = [s EXCEPT !.pc = "email",
                                             !.n = codes[s.c][s.k] + 1]]
    /\ UNCHANGED <<active, status, older, due, rows, used, order, history>>

\* Any of the three fails: on to the next checkout.
MakeCodeFails(w) ==
    /\ scan[w].pc = "code"
    /\ scan' = [scan EXCEPT ![w].pc = "list"]
    /\ UNCHANGED <<active, tables, order, history>>

Accepted(s) ==
    /\ emails' = [emails EXCEPT ![s.c][s.k] = @ + 1]
    /\ mailed' = mailed \union (IF s.n = 0 THEN {} ELSE {<<s.c, s.k, s.n>>})

\* Writes a send row; the error of the write is dropped.
WriteSend(s, rowStatus) ==
    \/ rows' = [rows EXCEPT ![s.c][s.k] = @ \union {rowStatus}] /\ UNCHANGED faults
    \/ faults < MaxFaults /\ faults' = faults + 1 /\ UNCHANGED rows

SendEmail(w) ==
    /\ scan[w].pc = "email"
    /\ Accepted(scan[w])
    /\ scan' = [scan EXCEPT ![w].pc = "record"]
    /\ UNCHANGED <<active, tables, order, credited, faults>>

\* An error from Resend, whether or not it accepted the message.
SendEmailFails(w) ==
    /\ scan[w].pc = "email"
    /\ Accepted(scan[w]) \/ UNCHANGED <<emails, mailed>>
    /\ WriteSend(scan[w], "failed")
    /\ scan' = [scan EXCEPT ![w].pc = "list"]
    /\ UNCHANGED <<active, status, older, due, codes, used, order, credited>>

RecordSend(w) ==
    /\ scan[w].pc = "record"
    /\ WriteSend(scan[w], "sent")
    /\ scan' = [scan EXCEPT ![w].pc = "mark"]
    /\ UNCHANGED <<active, status, older, due, codes, used, order,
                   emails, mailed, credited>>

MarkSent(w) ==
    /\ scan[w].pc = "mark"
    /\ status' = [status EXCEPT ![scan[w].c] = "sent"]
    /\ scan' = [scan EXCEPT ![w].pc = "list"]
    /\ UNCHANGED <<active, older, due, rows, codes, used, order, history>>

\* UPDATE ... WHERE status = 'open'; zero rows affected is only logged.
MarkAbandoned(w) ==
    LET c == scan[w].c IN
    /\ scan[w].pc = "mark"
    /\ status' = [status EXCEPT ![c] = IF @ = "open" THEN "abandoned" ELSE @]
    /\ scan' = [scan EXCEPT ![w].pc = "list"]
    /\ UNCHANGED <<active, older, due, rows, codes, used, order, history>>

\* The worker dies; the task server hands the task out again.
WorkerDies(w) ==
    /\ scan[w].pc # "idle"
    /\ faults < MaxFaults
    /\ faults' = faults + 1
    /\ scan' = [scan EXCEPT ![w] = Idle]
    /\ UNCHANGED <<active, tables, order, emails, mailed, credited>>

-----------------------------------------------------------------------------
(* The goroutine of an orders/create webhook.                               *)

\* The customer enters a code from an e-mail; it becomes used once.
UseCode(o, code) ==
    /\ order[o].pc = "none"
    /\ code \in mailed
    /\ IF code \in Saved /\ code \notin used
       THEN /\ used' = used \union {code}
            /\ order' = [order EXCEPT ![o] = [pc |-> "used", code |-> code]]
       ELSE /\ order' = [order EXCEPT ![o].pc = "done"]
            /\ UNCHANGED used
    /\ UNCHANGED <<active, status, older, due, rows, codes, scan, history>>

\* The checkout's status is overwritten whatever it was, then the event of
\* the code's campaign is published.
RecoverCheckout(o) ==
    /\ order[o].pc = "used"
    /\ status' = [status EXCEPT ![order[o].code[1]] = "recovered"]
    /\ credited' = credited \union {<<o, order[o].code>>}
    /\ order' = [order EXCEPT ![o].pc = "done"]
    /\ UNCHANGED <<active, older, due, rows, codes, used, scan, emails, mailed, faults>>

\* The process dies with the goroutine: nobody runs it again.
AttributionDies(o) ==
    /\ order[o].pc = "used"
    /\ faults < MaxFaults
    /\ faults' = faults + 1
    /\ order' = [order EXCEPT ![o].pc = "done"]
    /\ UNCHANGED <<active, tables, scan, emails, mailed, credited>>

-----------------------------------------------------------------------------
Scan(w) ==
    \/ StartScan(w) \/ QueryCheckouts(w) \/ EndScan(w) \/ EndList(w)
    \/ SkipCheckout(w) \/ TakeCheckout(w) \/ MakeCode(w) \/ MakeCodeFails(w)
    \/ SendEmail(w) \/ SendEmailFails(w) \/ RecordSend(w) \/ MarkAbandoned(w)

CartNext ==
    \/ \E c \in Checkout : CheckoutCreate(c) \/ CheckoutUpdate(c)
    \/ \E c \in Checkout, k \in Campaign : DelayPasses(c, k)
    \/ \E k \in Campaign : SwitchCampaign(k)
    \/ \E w \in Worker : Scan(w) \/ WorkerDies(w)
    \/ \E o \in Order :
          \/ \E code \in mailed : UseCode(o, code)
          \/ RecoverCheckout(o)
          \/ AttributionDies(o)

CartSpec == CartInit /\ [][CartNext]_cartVars

(* The ticker keeps enqueueing scans, workers run them, and making a code   *)
(* succeeds sooner or later.                                                *)
CartFairness ==
    \A w \in Worker : WF_cartVars(Scan(w)) /\ SF_cartVars(MakeCode(w))

CartFairSpec == CartSpec /\ CartFairness

-----------------------------------------------------------------------------
(* Overlapping scans may mail the same cart twice, and so may a scan whose  *)
(* send row was lost, but that is all: the send rows cap the messages of a  *)
(* campaign to one checkout at one per worker and fault                     *)
(* (cart_recovery_exec.go 70-80, 177-211).                                  *)
EmailsBounded ==
    \A c \in Checkout, k \in Campaign :
        emails[c][k] <= Cardinality(Worker) + faults

(* A code that reached a customer has its row, so that the order that uses  *)
(* it can be attributed: the row is saved before the message is sent        *)
(* (cart_recovery_exec.go 136-148, 177).                                    *)
MailedCodesAreSaved == mailed \subseteq Saved

(* One code earns credit for one order, however many order webhooks bring   *)
(* it at the same time: is_used is tested and set in one statement          *)
(* (cart_recovery_attributor.go 74-92).                                     *)
OneOrderPerCode ==
    \A e, f \in credited : e[2] = f[2] => e = f

(* A checkout counts as recovered only through a used code of its own.      *)
RecoveredByCode ==
    \A c \in Checkout : status[c] = "recovered" => \E code \in used : code[1] = c

CartInvariant ==
    EmailsBounded /\ MailedCodesAreSaved /\ OneOrderPerCode /\ RecoveredByCode

(* A scan that listed the checkout before the order arrived cannot take     *)
(* the recovery back (cart_recovery_exec.go 218-224).                       *)
RecoveredStays ==
    \A c \in Checkout : status[c] = "recovered" => status'[c] = "recovered"

(* What the recovery of carts promises, state by state and step by step     *)
(* (cart_recovery_exec.go 70-224, cart_recovery_attributor.go 74-92).       *)
CartSafe == [][CartInvariant' /\ RecoveredStays]_cartVars

Untried(c, k) ==
    /\ status[c] = "open" /\ k \in due[c] /\ k \in active
    /\ rows[c][k] = {} /\ emails[c][k] = 0

(* A checkout that stays open and due for a campaign that stays on is tried *)
(* sooner or later, unless older ones fill the query's limit for good (a   *)
(* failed send leaves its checkout open; cart_recovery_exec.go 55-91).      *)
EligibleIsTried ==
    \A c \in Checkout, k \in Campaign :
        ~ <>[](Untried(c, k) /\ Cardinality(Ahead(c, k)) < ScanLimit)

(* cart_recovery_exec.go:38-40 says that the executor "finds open checkouts *)
(* past their delay window, matches them to active campaigns, generates     *)
(* discount codes, renders and sends recovery emails": those of a campaign  *)
(* with a discount are tried sooner or later.                               *)
DiscountedIsTried ==
    \A c \in Checkout, k \in Discounted : ~ <>[]Untried(c, k)
=============================================================================
