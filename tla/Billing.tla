------------------------------- MODULE Billing -------------------------------
(***************************************************************************)
(* The plan of one shop (billing.go, billing/shopify.go, the webhook       *)
(* app_subscriptions/update) and its monthly usage: rows of token_usages   *)
(* and the counter in Redis, against which TokenTracker holds the plan's   *)
(* quota (token_tracker.go).                                               *)
(*                                                                         *)
(* The handlers send an empty access token, which Shopify refuses; in      *)
(* development they do not ask Shopify at all.                             *)
(***************************************************************************)
EXTENDS Integers, FiniteSets, Sequences, FiniteSetsExt

CONSTANTS Plans,     \* plans for sale
          Quota,     \* Quota[plan] per month, also of "free"
          Counts,    \* units a record may count
          Slots,     \* concurrent records: the pool of RecordAsync
          MaxSubscriptions, MaxRecords, MaxLosses  \* bounds

VARIABLES
    account,  \* of its row: [plan, status, sub]
    dev,      \* the server runs in development mode (fixed at start)
    subs,     \* subscriptions at Shopify, oldest first: their status
    notices,  \* app_subscriptions/update messages not yet delivered
    units,    \* units in token_usages this month, of successes and of failures
    counter,  \* the Redis counter of the month; NoKey when it does not exist
    rec,      \* rec[s]: the record in slot s, and how far it is
    records,  \* records begun
    slack,    \* units whose IncrBy failed
    reset,    \* units the counter forgot when Redis lost its key
    unmetered, \* units that RecordUsage stored
    keyLosses \* times Redis lost the key

accountVars == <<account, dev, subs, notices>>
usageVars == <<units, counter, rec, records, slack, reset, unmetered, keyLosses>>
billingVars == <<accountVars, usageVars>>

BillingConstants ==
    /\ IsFiniteSet(Slots)
    /\ Counts \subseteq Nat \ {0} /\ \E most \in Counts : \A n \in Counts : n <= most
    /\ \A p \in Plans \cup {"free"} : Quota[p] \in Nat
    /\ \E p \in Plans \cup {"free"} : \A q \in Plans \cup {"free"} : Quota[q] <= Quota[p]
    /\ MaxSubscriptions \in Nat /\ MaxRecords \in Nat

NoSub == 0
NoKey == -1
Free == [pc |-> "free"]

BillingInit ==
    /\ account = [plan |-> "free", status |-> "active", sub |-> NoSub]
    /\ dev \in BOOLEAN /\ subs = << >> /\ notices = {}
    /\ units = [success |-> 0, error |-> 0] /\ counter = NoKey
    /\ rec = [s \in Slots |-> Free] /\ records = 0 /\ slack = 0 /\ reset = 0
    /\ unmetered = 0 /\ keyLosses = 0

CreateSubscription == dev /\ Len(subs) < MaxSubscriptions /\ subs' = Append(subs, "mock")
\* An error of the call, with which it ends in production, is only logged.
CancelSubscription == UNCHANGED subs

Subscribe(p) ==
    /\ CreateSubscription
    /\ account' \in {[plan |-> p, status |-> "pending", sub |-> Len(subs')], account}
    /\ UNCHANGED <<dev, notices, usageVars>>
\* Seeded bug: a declined subscription loses its id and stays pending.
ConfirmKeepsStatus(accepted) ==
    /\ account' \in {IF accepted THEN [account EXCEPT !.status = "active"]
                  ELSE [account EXCEPT !.plan = "free", !.sub = NoSub], account}
    /\ CancelSubscription
    /\ UNCHANGED <<dev, notices, usageVars>>
\* Confirm trusts the caller's word, and looks at no subscription.
Confirm(accepted) ==
    /\ account' \in {IF accepted THEN [account EXCEPT !.status = "active"]
                  ELSE [plan |-> "free", status |-> "cancelled", sub |-> NoSub], account}
    /\ CancelSubscription
    /\ UNCHANGED <<dev, notices, usageVars>>
Cancel ==
    /\ CancelSubscription
    /\ account' \in {[plan |-> "free", status |-> "cancelled", sub |-> NoSub], account}
    /\ UNCHANGED <<dev, notices, usageVars>>
ChangePlan(p) ==
    /\ account' = [account EXCEPT !.plan = p]         \* at Shopify nothing changes
    /\ UNCHANGED <<dev, subs, notices, usageVars>>
\* An uninstallation leaves the plan and the subscription's id.
Uninstalled ==
    /\ account' = [account EXCEPT !.status = "cancelled"]
    /\ UNCHANGED <<dev, subs, notices, usageVars>>

\* Shopify: a subscription made elsewhere is accepted, cancelled, or falls due,
\* and each change is announced.
ShopifySubscription(status) ==
    /\ ~dev
    /\ \/ /\ Len(subs) < MaxSubscriptions /\ status = "active"
          /\ subs' = Append(subs, status)
          /\ notices' = notices \cup {[id |-> Len(subs'), status |-> status]}
       \/ \E n \in DOMAIN subs : /\ subs[n] = "active" /\ status # "active"
                                 /\ subs' = [subs EXCEPT ![n] = status]
                                 /\ notices' = notices \cup {[id |-> n, status |-> status]}
    /\ UNCHANGED <<account, dev, usageVars>>
\* handleAppSubscriptionUpdate, in whatever order the messages come.
SubscriptionUpdate(n) ==
    /\ notices' = notices \ {n}
    /\ account' \in {[account EXCEPT !.sub = n.id,
                               !.status = IF n.status = "frozen" THEN "past_due" ELSE n.status],
                  account}
    /\ UNCHANGED <<dev, subs, usageVars>>

(***************************************************************************)
(* Usage.                                                                  *)
(***************************************************************************)
Used == units.success + units.error

\* RecordUsage of the billing handler asks for no quota.
RecordUsage(s, n) ==
    /\ rec[s] = Free /\ records < MaxRecords /\ records' = records + 1
    /\ units' = [units EXCEPT !.success = @ + n]
    /\ rec' = [rec EXCEPT ![s] = [pc |-> "count", n |-> n, status |-> "success"]]
    /\ unmetered' = unmetered + n
    /\ UNCHANGED <<counter, slack, reset, keyLosses, accountVars>>

\* What GetMonthlyTotal shows: the counter, or without one the sum of the rows,
\* in which failed operations count as well.
Total == IF counter = NoKey THEN Used ELSE counter

\* Record reads plan and total and compares them with the quota; 0 is no limit.
\* RecordAsync has a slot for it, or drops it.
Begin(s, n, status, admitted) ==
    /\ rec[s] = Free /\ records < MaxRecords /\ admitted
    /\ rec' = [rec EXCEPT ![s] = [pc |-> "store", n |-> n, status |-> status]]
    /\ records' = records + 1
    /\ UNCHANGED <<units, counter, slack, reset, unmetered, keyLosses, accountVars>>
TrackerRecord(s, n, status) ==
    Begin(s, n, status, Quota[account.plan] > 0 => Total < Quota[account.plan])
StoreRow(s) ==
    /\ rec[s].pc = "store"
    /\ \/ /\ units' = [units EXCEPT ![rec[s].status] = @ + rec[s].n]
          /\ rec' = [rec EXCEPT ![s] = IF rec[s].status = "success"
                                       THEN [rec[s] EXCEPT !.pc = "count"] ELSE Free]
       \/ units' = units /\ rec' = [rec EXCEPT ![s] = Free]
    /\ UNCHANGED <<counter, records, slack, reset, unmetered, keyLosses, accountVars>>
\* IncrBy, whose error is not looked at.
Count(s) ==
    /\ rec[s].pc = "count"
    /\ \/ counter' = (IF counter = NoKey THEN rec[s].n ELSE counter + rec[s].n)
          /\ slack' = slack
       \/ counter' = counter /\ slack' = slack + rec[s].n
    /\ rec' = [rec EXCEPT ![s] = Free]
    /\ UNCHANGED <<units, records, reset, unmetered, keyLosses, accountVars>>

\* The key has no expiry; Redis evicts it or restarts without it.
RedisForgets ==
    /\ counter # NoKey /\ keyLosses < MaxLosses
    /\ counter' = NoKey /\ reset' = reset + counter /\ keyLosses' = keyLosses + 1
    /\ UNCHANGED <<units, rec, records, slack, unmetered, accountVars>>

BillingNext ==
    \/ \E p \in Plans : Subscribe(p) \/ ChangePlan(p)
    \/ \E accepted \in BOOLEAN : Confirm(accepted)
    \/ Cancel \/ Uninstalled
    \/ \E status \in {"active", "cancelled", "frozen"} : ShopifySubscription(status)
    \/ \E n \in notices : SubscriptionUpdate(n)
    \/ \E s \in Slots, n \in Counts :
          RecordUsage(s, n) \/ \E status \in {"success", "error"} : TrackerRecord(s, n, status)
    \/ \E s \in Slots : StoreRow(s) \/ Count(s)
    \/ RedisForgets

BillingSpec == BillingInit /\ [][BillingNext]_billingVars

BillingTypeOK ==
    /\ account.plan \in Plans \cup {"free"} /\ account.sub \in 0..MaxSubscriptions
    /\ account.status \in {"pending", "active", "cancelled", "past_due"}
    /\ dev \in BOOLEAN /\ Len(subs) <= MaxSubscriptions
    /\ \A s \in Slots : rec[s] = Free \/ rec[s].n \in Counts
    /\ {units.success, units.error, slack, reset, unmetered} \subseteq Nat
    /\ counter \in Nat \cup {NoKey} /\ records \in 0..MaxRecords

\* A shop that waits for a confirmation has a subscription to be confirmed.
PendingIsKnown == account.status = "pending" => account.sub # NoSub
\* Stored, and not yet in the counter.
Fit == Slots \X (1..Max(Counts))  \* all that can be under way at once
OnTheWay == {w \in Fit : rec[w[1]].pc = "count" /\ w[2] <= rec[w[1]].n}
Quotas == {Quota[p] : p \in Plans \cup {"free"}}
\* What the tracker let pass exceeds the largest quota the shop can have had by
\* no more than the records that were under way at once, what Redis did not
\* count or forgot, and what RecordUsage stored without asking.
QuotaBounded ==
    0 \notin Quotas =>
    units.success - unmetered <= Max(Quotas) - 1
                                 + Cardinality(Slots) * Max(Counts) + slack + reset
\* Whatever is lost, the counter, the units on their way to it and those it
\* missed are together the successes in the table: nothing is counted twice.
CounterAccounts ==
    units.success = (IF counter = NoKey THEN 0 ELSE counter) + slack + reset
                    + Cardinality(OnTheWay)
\* A change of the plan, a declined confirmation and a late message keep the shop's
\* subscription known, and concurrent records keep to the quota and the sum.
BillingSound == PendingIsKnown /\ QuotaBounded /\ CounterAccounts
=============================================================================
