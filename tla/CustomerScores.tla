--------------------------- MODULE CustomerScores ---------------------------
(***************************************************************************)
(* What one shop knows of its customers: the segments computed from the    *)
(* orders at each request (service/rfm.go), and the rows of                *)
(* customer_insights that refresh tasks compute from two queries           *)
(* (customer_intelligence.go), while orders arrive or change and           *)
(* customers/redact deletes a customer's data.                             *)
(*                                                                         *)
(* Money is a whole number; percentages are rounded down.                  *)
(***************************************************************************)
EXTENDS Naturals, Integers, Sequences, FiniteSets, FiniteSetsExt, SequencesExt

CONSTANTS Emails, Prices, Ages, \* of an order: how many days ago it was made
          Tasks,                \* refresh tasks that may run at once
          Histories,            \* what an earlier sync may have stored: sequences of orders
          MaxTime, Budgets  \* bounds; a budget is [orders, refreshes, redacts, edits, failures]

VARIABLES
    now,       \* in days
    orders,    \* synced_orders: [email, price, at], in the order of their arrival
    insights,  \* insights[e]: the row of customer_insights, or NoRow
    task,      \* task[t]: [pc, aggs, found, left, since, at]
    version, ended, clean, \* changes of orders; version when the last task to end began;
               \* no task has overlapped another, met a change or failed
    redact,    \* redact[e]: "no", "orders" or "done", as far as customers/redact has come
    known,     \* redacted customers whom a task had read, or whose row was not deleted
    spent,     \* what has been used of the budget
    budget     \* the bounds of this behaviour

scoreVars == <<now, orders, insights, task, version, ended, clean, redact, known,
               spent, budget>>

NoRow == [count |-> 0]
Idle == [pc |-> "idle"]

ScoreInit ==
    /\ now = 100 /\ orders \in Histories /\ insights = [e \in Emails |-> NoRow]
    /\ task = [t \in Tasks |-> Idle] /\ version = 0 /\ ended = -1 /\ clean = TRUE
    /\ redact = [e \in Emails |-> "no"] /\ known = {}
    /\ spent = [orders |-> 0, refreshes |-> 0, redacts |-> 0, edits |-> 0, failures |-> 0] /\ budget \in Budgets

Use(what) == spent[what] < budget[what] /\ spent' = [spent EXCEPT ![what] = @ + 1]
Running == {t \in Tasks : task[t].pc # "idle"}

--------------------------------------------------------------------------
(* Segments *)
Max0(x) == IF x > 0 THEN x ELSE 0
Least(x, y) == IF x < y THEN x ELSE y
OfEmail(e) == {i \in DOMAIN orders : orders[i].email = e}
Customers == {e \in Emails : OfEmail(e) # {}}
PriceOf(i) == orders[i].price
\* aggregateOrders: one row per customer
Agg(e) == [count |-> Cardinality(OfEmail(e)), spent |-> MapThenSumSet(PriceOf, OfEmail(e)),
           last |-> Max({orders[i].at : i \in OfEmail(e)})]
\* calcMonetaryTop10: what the last customer of the best ceil(n / 10) has spent
MonetaryTop10 ==
    LET n == (Cardinality(Customers) + 9) \div 10 IN
    IF Customers = {} THEN 0
    ELSE CHOOSE x \in {Agg(e).spent : e \in Customers} :
            /\ Cardinality({e \in Customers : Agg(e).spent >= x}) >= n
            /\ Cardinality({e \in Customers : Agg(e).spent > x}) < n
\* Seeded bug: the customers who bought often enough are not asked for their spending.
ClassifyOften(days, count, total, top) ==
    IF days <= 7 /\ count = 1 THEN "New" ELSE IF days < 30 /\ count >= 3 THEN "VIP"
    ELSE IF days < 30 THEN "Active" ELSE IF days < 90 THEN "Dormant" ELSE "Lost"
Classify(days, count, total, top) ==
    CASE days <= 7 /\ count = 1 -> "New"
      [] ~(days <= 7 /\ count = 1) /\ days < 30 /\ count >= 3 /\ total >= top /\ top > 0 -> "VIP"
      [] days < 30 /\ ~(days <= 7 /\ count = 1) /\ ~(count >= 3 /\ total >= top /\ top > 0) -> "Active"
      [] days >= 30 /\ days < 90 -> "Dormant"
      [] OTHER -> "Lost"
SegmentOf ==
    LET top == MonetaryTop10 IN
    [e \in Customers |-> LET agg == Agg(e)
                         IN Classify(now - agg.last, agg.count, agg.spent, top)]
GetSegmentCustomers(segment) == LET of == SegmentOf IN {e \in Customers : of[e] = segment}
Segments == {"New", "VIP", "Active", "Dormant", "Lost"}
ComputeSegments ==
    LET of == SegmentOf IN [s \in Segments |-> Cardinality({e \in Customers : of[e] = s})]

--------------------------------------------------------------------------
(* Lifetime value and risk of leaving *)
\* avgTopN: the sum of the oldest or the newest n orders, and how many these are
SumTop(found, n, earliest) ==
    LET m == Least(n, Len(found))
        part == IF earliest THEN SubSeq(found, 1, m) ELSE SubSeq(found, Len(found) - m + 1, Len(found))
    IN [sum |-> FoldSeq(LAMBDA o, acc : o.price + acc, 0, part), of |-> m]
AvgTopN(found, n, earliest) == LET s == SumTop(found, n, earliest)
                               IN IF s.of = 0 THEN 0 ELSE s.sum \div s.of
\* computeInsight: with fewer than three orders, a cautious guess; else the days since
\* the last order against the mean interval i.days / i.gaps, where the last order and
\* the interval come from the second query and everything else from the first.
ComputeInsight(agg, found, at) ==
    IF agg.count < 3
    THEN [count |-> agg.count, spent |-> agg.spent, ltv |-> agg.spent, active |-> 50, churn |-> 30,
          level |-> "low", confidence |-> "low",
          recent |-> AvgTopN(found, agg.count, FALSE), early |-> AvgTopN(found, agg.count, TRUE)]
    ELSE
    LET last == found[Len(found)].at
        days == last - found[1].at
        i == IF days > 0 THEN [days |-> days, gaps |-> agg.count - 1] ELSE [days |-> 30, gaps |-> 1]
        since == Max0(at - last)
        active == 100 - Least((100 * since * i.gaps) \div i.days, 100)
        recent == AvgTopN(found, 3, FALSE)
        early == AvgTopN(found, 3, TRUE)
        base == Least((50 * since * i.gaps) \div i.days, 100)
        decay == IF early > 0 THEN (100 * Max0(early - recent)) \div early ELSE 0
        churn == Least((base * Least(120, 100 + decay)) \div 100, 100)
    IN [count |-> agg.count, spent |-> agg.spent,
        ltv |-> agg.spent + (agg.spent * active * 1080 * i.gaps) \div (agg.count * 100 * i.days),
        active |-> active, churn |-> churn,
        level |-> IF churn <= 30 THEN "low" ELSE IF churn <= 60 THEN "medium" ELSE "high",
        confidence |-> "high", recent |-> recent, early |-> early]

--------------------------------------------------------------------------
(* Orders *)
Changed == version' = version + 1 /\ clean' = (clean /\ Running = {})
\* An order made up to now and synced now; or an order whose price has changed.
OrderSynced(e, p, age) ==
    /\ Use("orders") /\ Changed
    /\ orders' = Append(orders, [email |-> e, price |-> p, at |-> now - age])
    /\ UNCHANGED <<now, insights, task, ended, redact, known, budget>>
OrderEdited(i, p) ==
    /\ i \in DOMAIN orders /\ p # orders[i].price /\ Use("edits") /\ Changed
    /\ orders' = [orders EXCEPT ![i].price = p]
    /\ UNCHANGED <<now, insights, task, ended, redact, known, budget>>
DaysPass(d) ==
    /\ orders # <<>> /\ now + d <= MaxTime /\ now' = now + d
    /\ UNCHANGED <<orders, insights, task, version, ended, clean, redact, known, spent, budget>>
\* customers/redact: the orders are deleted first, the insight after several other
\* tables. A table that fails is skipped.
Reading(e) == \E t \in Running : e \in DOMAIN task[t].aggs
RedactOrders(e) ==
    /\ redact[e] = "no" /\ Use("redacts") /\ Changed
    /\ orders' = SelectSeq(orders, LAMBDA o : o.email # e)
    /\ redact' = [redact EXCEPT ![e] = "orders"]
    /\ known' = IF Reading(e) THEN known \cup {e} ELSE known
    /\ UNCHANGED <<now, insights, task, ended, budget>>
RedactInsight(e) ==
    /\ redact[e] = "orders" /\ redact' = [redact EXCEPT ![e] = "done"]
    /\ \/ insights' = [insights EXCEPT ![e] = NoRow] /\ UNCHANGED <<known, spent>>
       \/ Use("failures") /\ known' = known \cup {e} /\ UNCHANGED insights
    /\ UNCHANGED <<now, orders, task, version, ended, clean, budget>>

--------------------------------------------------------------------------
(* The refresh task *)
BeginRefresh(t) ==
    /\ task[t].pc = "idle" /\ Use("refreshes")
    /\ clean' = (clean /\ Running = {})
    /\ task' = [task EXCEPT ![t] = [pc |-> "orders", aggs |-> [e \in Customers |-> Agg(e)],
                                    since |-> version]]
    /\ UNCHANGED <<now, orders, insights, version, ended, redact, known, budget>>
\* fetchAllOrderRows: in order of time; the task fails if the query does.
FetchOrders(t) ==
    /\ task[t].pc = "orders"
    /\ \/ /\ task' = [task EXCEPT ![t] =
                [pc |-> "upsert", aggs |-> @.aggs, since |-> @.since,
                 found |-> SortSeq(orders, LAMBDA a, b : a.at < b.at)]]
          /\ UNCHANGED <<clean, spent>>
       \/ Use("failures") /\ task' = [task EXCEPT ![t] = Idle] /\ clean' = FALSE
    /\ UNCHANGED <<now, orders, insights, version, ended, redact, known, budget>>
\* computeInsight reads the first of three or more orders: with none left it panics,
\* and so ends the task for every customer it has not come to.
Panics(agg, found) == agg.count >= 3 /\ found = <<>>
Found(t, e) == SelectSeq(task[t].found, LAMBDA o : o.email = e)
UpsertInsight(t, e) ==
    LET rest == [f \in DOMAIN task[t].aggs \ {e} |-> task[t].aggs[f]]
        agg == task[t].aggs[e]
    IN
    /\ task[t].pc = "upsert" /\ e \in DOMAIN task[t].aggs
    /\ \/ /\ ~Panics(agg, Found(t, e))
          /\ insights' = [insights EXCEPT ![e] = ComputeInsight(agg, Found(t, e), now)]
          /\ task' = [task EXCEPT ![t].aggs = rest] /\ UNCHANGED <<clean, spent>>
       \/ /\ ~Panics(agg, Found(t, e)) /\ Use("failures")
          /\ task' = [task EXCEPT ![t].aggs = rest] /\ clean' = FALSE /\ UNCHANGED insights
       \/ /\ Panics(agg, Found(t, e)) /\ task' = [task EXCEPT ![t] = Idle]
          /\ clean' = FALSE /\ UNCHANGED <<insights, spent>>
    /\ UNCHANGED <<now, orders, version, ended, redact, known, budget>>
EndRefresh(t) ==
    /\ task[t].pc = "upsert" /\ DOMAIN task[t].aggs = {}
    /\ task' = [task EXCEPT ![t] = Idle] /\ ended' = task[t].since
    /\ UNCHANGED <<now, orders, insights, version, clean, redact, known, spent, budget>>

ScoreNext ==
    \/ \E e \in Emails : \/ \E p \in Prices, age \in Ages : OrderSynced(e, p, age)
                         \/ RedactOrders(e) \/ RedactInsight(e)
    \/ \E i \in DOMAIN orders, p \in Prices : OrderEdited(i, p)
    \/ \E d \in Ages \ {0} : DaysPass(d)
    \/ \E t \in Tasks : \/ BeginRefresh(t) \/ FetchOrders(t) \/ EndRefresh(t)
                        \/ \E e \in Emails : UpsertInsight(t, e)

Spec == ScoreInit /\ [][ScoreNext]_scoreVars

--------------------------------------------------------------------------
\* GetInsights: the page of the rows, best or most at risk first; GetStats.
Rows == {e \in Emails : insights[e] # NoRow}
GetInsights(risk, limit) ==
    LET rank(e) == IF risk THEN insights[e].churn ELSE insights[e].ltv
        all == SetToSortSeq(Rows, LAMBDA e, f : rank(e) > rank(f))
    IN SubSeq(all, 1, Least(limit, Len(all)))
LtvOf(e) == insights[e].ltv
GetStats == [total |-> Cardinality(Rows), ltv |-> MapThenSumSet(LtvOf, Rows),
             levels |-> [l \in {"low", "medium", "high"} |->
                            Cardinality({e \in Rows : insights[e].level = l})]]

TypeOK == /\ now <= MaxTime /\ orders \in Seq([email : Emails, price : Prices, at : Nat])
          /\ known \subseteq {e \in Emails : redact[e] # "no"}
          /\ \A what \in DOMAIN spent : spent[what] <= budget[what]

\* Every customer is in one segment, a VIP has spent as much as the best tenth, and a
\* customer outside every threshold of loyalty is in none of the campaigns for it.
SegmentsPartition ==
    /\ LET count == ComputeSegments
       IN MapThenSumSet(LAMBDA s : count[s], Segments) = Cardinality(Customers)
    /\ \A e \in GetSegmentCustomers("VIP") :
          /\ Cardinality({f \in Customers : Agg(f).spent > Agg(e).spent}) * 10 < Cardinality(Customers)
          /\ now - Agg(e).last < 30 /\ Agg(e).count >= 3
    /\ \A e \in GetSegmentCustomers("Dormant") : \A i \in OfEmail(e) : now - orders[i].at >= 30
\* A row never promises less than what the customer has spent, and does not call a
\* customer with enough orders both surely gone and no risk; the list shows the same
\* number of rows as the statistics.
RowsConsistent ==
    /\ \A e \in Rows : LET r == insights[e] IN
          /\ r.ltv >= r.spent /\ r.churn \in 0..100
          /\ r.confidence = "high" => /\ r.active = 0 => r.level # "low" /\ r.churn >= 50
                                      /\ r.active > 50 => r.level # "high"
    /\ GetStats.total = Len(GetInsights(TRUE, Cardinality(Emails)))
    /\ GetStats.levels["low"] + GetStats.levels["medium"] + GetStats.levels["high"] = GetStats.total
\* When nothing overlapped and nothing failed, the rows count and sum the orders there
\* were when the last task began; the newest orders agree with the total.
RowsCurrent == clean /\ Running = {} /\ ended = version =>
    \A e \in {f \in Customers : redact[f] = "no"} :
    /\ insights[e].count = Agg(e).count /\ insights[e].spent = Agg(e).spent
    /\ Agg(e).count <= 3 => insights[e].recent = insights[e].early
\* A customer whose data was deleted has no row without a new order, unless a task had
\* read the old orders before, or the row was not deleted. A task that was not met by
\* a deletion does not panic.
RedactionHolds ==
    /\ \A e \in Emails \ known : redact[e] = "done" /\ e \notin Customers => insights[e] = NoRow
    /\ \A t \in Running : task[t].pc = "upsert" => \A e \in DOMAIN task[t].aggs :
          Panics(task[t].aggs[e], Found(t, e)) => e \in known
ScoresSound == SegmentsPartition /\ RowsConsistent /\ RowsCurrent /\ RedactionHolds
=============================================================================
