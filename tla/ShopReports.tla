---------------------------- MODULE ShopReports ----------------------------
(***************************************************************************)
(* What the dashboard and the chats are told of a shop: stock forecasts,   *)
(* return anomalies and trend gaps (service/supply_insight.go), the        *)
(* snapshot's return rate (platform/insight/snapshot.go), the insight page *)
(* (handler/insights.go) and the dashboard (handler/analytics.go).  Rows   *)
(* are synced and grow older; every report is a function of them.          *)
(* Rates are in hundredths of a percent.                                   *)
(***************************************************************************)
EXTENDS Integers, FiniteSets, FiniteSetsExt

CONSTANTS Catalogs,    \* what a shop sells: sets of [id, title, type, stock, active]
          Orders,      \* orders: sets of lines [product, title, quantity]; product "" when
                       \* the line names none
          Returns,     \* returns kept by hand: sets of items [product, quantity]
          SyncedReturns, \* returns from Shopify: sets of lines [line, quantity]
          Related,     \* Related[t]: what is searched with type t: [query, status]
          Covers,      \* pairs <<title, query>> of which one contains the other
          TrendTypes,  \* types asked about (3 in the code)
          AnomalyOrders, \* units ordered before a product can be anomalous (5)
          MaxRows      \* bound: rows of a behaviour

VARIABLES products,  \* the synced products
          orders, returns, synced   \* rows of each kind, by age

reportVars == <<products, orders, returns, synced>>

\* The last 30 days, the 30 days before, and before that.
Ages == {"now", "before", "ever"}

SumOf(S, f(_)) == MapThenSumSet(f, S)
\* Rows of the ages A in a table, weighted by what one row counts for.
Total(table, A, weight(_)) ==
    SumOf(A \X (DOMAIN table["now"]), LAMBDA x : table[x[1]][x[2]] * weight(x[2]))
Quantity(lines, Which(_)) == SumOf({l \in lines : Which(l)}, LAMBDA l : l.quantity)
One(row) == 1
Any(x) == TRUE
\* n of d, in hundredths of a percent, rounded; 0 of nothing.
Percent(n, d) == IF d = 0 THEN 0 ELSE (20000 * n + d) \div (2 * d)

ReportInit ==
    /\ products \in Catalogs
    /\ orders = [a \in Ages |-> [o \in Orders |-> 0]]
    /\ returns = [a \in Ages |-> [r \in Returns |-> 0]]
    /\ synced = [a \in Ages |-> [r \in SyncedReturns |-> 0]]

Rows == Total(orders, Ages, One) + Total(returns, Ages, One) + Total(synced, Ages, One)
Add(table, row) == [table EXCEPT !["now"] = [@ EXCEPT ![row] = @ + 1]]
Older(table) == [a \in Ages |-> CASE a = "now" -> [r \in DOMAIN table[a] |-> 0]
                                  [] a = "before" -> table["now"]
                                  [] a = "ever" -> [r \in DOMAIN table[a] |->
                                                       table[a][r] + table["before"][r]]]
OrderSynced(o) == Rows < MaxRows /\ orders' = Add(orders, o) /\ UNCHANGED <<products, returns, synced>>
ReturnMade(r) == Rows < MaxRows /\ returns' = Add(returns, r) /\ UNCHANGED <<products, orders, synced>>
ReturnSynced(r) == Rows < MaxRows /\ synced' = Add(synced, r) /\ UNCHANGED <<products, orders, returns>>
MonthPasses == /\ orders' = Older(orders) /\ returns' = Older(returns) /\ synced' = Older(synced)
               /\ UNCHANGED products

--------------------------------------------------------------------------
(* ComputeStockPredictions                                                 *)
UnitsSold(A, Which(_)) == Total(orders, A, LAMBDA o : Quantity(o, Which))
SoldById(p) == UnitsSold({"now"}, LAMBDA l : l.product = p.id /\ l.product # "")
SoldByTitle(p) == UnitsSold({"now"}, LAMBDA l : l.title = p.title /\ l.title # "")
\* The title is the fallback for lines without a product.
\* Seeded bug: both counts are added up.
SoldBothWays(p) == SoldById(p) + SoldByTitle(p)
Sold(p) == IF SoldById(p) # 0 THEN SoldById(p) ELSE SoldByTitle(p)
\* Days until the stock is gone: 30 * stock / sold.
Status(p) == CASE p.stock = 0 -> "out_of_stock"
               [] p.stock # 0 /\ Sold(p) = 0 -> "healthy"
               [] p.stock # 0 /\ Sold(p) # 0 /\ p.stock > Sold(p) -> "healthy"
               [] p.stock # 0 /\ Sold(p) # 0 /\ p.stock <= Sold(p) ->
                     IF 30 * p.stock >= 7 * Sold(p) THEN "warning" ELSE "critical"
Restock(p) == IF Sold(p) = 0 \/ Sold(p) <= p.stock THEN 0 ELSE Sold(p) - p.stock
Forecast == {p \in products : p.active}
Urgency(p) == CASE Status(p) = "out_of_stock" -> 0 [] Status(p) = "critical" -> 1
                [] Status(p) = "warning" -> 2 [] Status(p) = "healthy" -> 3

\* The dashboard's own label.
StockLabel(p) == IF p.stock <= 0 THEN "out_of_stock" ELSE IF p.stock <= 5 THEN "low" ELSE "healthy"

--------------------------------------------------------------------------
(* ComputeReturnAnomalies, over all time.  Items kept by hand are counted by  *)
(* product; lines of a synced return by the line of the order they return.    *)
ItemsOf(k) == Total(returns, Ages, LAMBDA r : Quantity(r, LAMBDA i : i.product = k))
LinesOf(k) == Total(synced, Ages, LAMBDA r : Quantity(r, LAMBDA l : l.line = k))
Keys == {k \in {i.product : i \in UNION Returns} : ItemsOf(k) > 0}
        \cup {k \in {l.line : l \in UNION SyncedReturns} : LinesOf(k) > 0 /\ k # ""}
ReturnCount(k) == ItemsOf(k) + LinesOf(k)
\* A line without a product counts for the product with its title, if there is one.
ResolveProductIDByTitle(t) == {p.id : p \in {q \in products : q.title = t /\ t # ""}}
OrderCount(k) == UnitsSold(Ages, LAMBDA l : IF l.product # "" THEN l.product = k
                                            ELSE k \in ResolveProductIDByTitle(l.title))
StoreAvg == Percent(Total(returns, Ages, One) + Total(synced, Ages, One),
                    Total(orders, Ages, One))
IsAnomaly(k) == /\ Percent(ReturnCount(k), OrderCount(k)) > 2 * StoreAvg
                /\ StoreAvg > 0 /\ OrderCount(k) >= AnomalyOrders
Anomalies == IF Total(orders, Ages, One) = 0 THEN {} ELSE {k \in Keys : IsAnomaly(k)}

--------------------------------------------------------------------------
(* The return rate, as three pages have it.                                  *)
\* computeReturnMetrics: items of both kinds per order; an item kept by hand counts
\* as one whatever its quantity.
SnapshotRate(A) == Percent(Total(returns, A, Cardinality)
                           + Total(synced, A, LAMBDA r : Quantity(r, Any)), Total(orders, A, One))
\* InsightsHandler.Shop: returns kept by hand per order.
PageRate == Percent(Total(returns, {"now"}, One), Total(orders, {"now"}, One))
\* Dashboard: the snapshot's rate against the returns by hand of the period before.
PreviousRate == Percent(Total(returns, {"before"}, One), Total(orders, {"before"}, One))
RateChange == IF PreviousRate = 0 THEN 0
              ELSE ((SnapshotRate({"now"}) - PreviousRate) * 100) \div PreviousRate
TrendLabel == IF RateChange > 5 THEN "up" ELSE IF RateChange < -5 THEN "down" ELSE "flat"

--------------------------------------------------------------------------
(* ComputeTrendMatch: the types with most products, their related queries, of *)
(* which the first of a name counts, and the rising ones no active product    *)
(* covers.                                                                    *)
Types == LET named == {p.type : p \in products} \ {""} IN IF named = {} THEN {"fashion"} ELSE named
OfType(t) == Cardinality({p \in products : p.type = t})
TopTypes == {T \in SUBSET Types :
                /\ Cardinality(T) = IF Cardinality(Types) < TrendTypes THEN Cardinality(Types)
                                    ELSE TrendTypes
                /\ \A t \in T, u \in Types \ T : OfType(t) >= OfType(u)}
Keywords(T) == UNION {Related[t] : t \in T}
Covered(q) == \E p \in Forecast : p.title = "" \/ <<p.title, q>> \in Covers
Missing(K) == {k \in K : k.status \notin {"stable", "top"} /\ ~Covered(k.query)}

--------------------------------------------------------------------------
ReportNext == \/ \E o \in Orders : OrderSynced(o)
              \/ \E r \in Returns : ReturnMade(r)
              \/ \E r \in SyncedReturns : ReturnSynced(r)
              \/ MonthPasses

Spec == ReportInit /\ [][ReportNext]_reportVars

TypeOK == products \in Catalogs /\ Rows \in 0..MaxRows

\* Stock and the advised restock cover a month of sales, and of two products that
\* sell alike the one with less stock is never listed after the other (a product
\* sold below zero is taken for one that is not sold out: it is left out here). What
\* is forecast as sold out is shown as sold out.
ForecastSound ==
    /\ \A p \in Forecast : p.stock + Restock(p) >= Sold(p) \/ Sold(p) = 0
    /\ \A p, q \in {r \in Forecast : r.stock >= 0} :
           Sold(p) = Sold(q) /\ p.stock < q.stock => Urgency(p) <= Urgency(q)
    /\ \A p \in Forecast : Status(p) = "out_of_stock" => StockLabel(p) = "out_of_stock"
\* While every line carries the title of its product, and no two products share one,
\* no sale is credited to two products.
Titled == \A o \in Orders : \A l \in o, p \in products :
             l.product # "" => (l.product = p.id <=> l.title = p.title)
SalesCountedOnce ==
    Titled /\ (\A p, q \in products : p.title = q.title => p = q) =>
        SumOf(Forecast, Sold) <= UnitsSold({"now"}, Any)
\* Every unit returned is counted, once, for one product or one order line.
UnitsReturned == Total(returns, Ages, LAMBDA r : Quantity(r, Any))
                 + Total(synced, Ages, LAMBDA r : Quantity(r, LAMBDA l : l.line # ""))
ReturnsCountedOnce == SumOf(Keys, ReturnCount) = UnitsReturned
\* Where every return and every order is of one unit, the anomalous products are the
\* exception: they make up less than half of what was ordered.
Plain(table) == \A r \in DOMAIN table["now"] :
    (\E a \in Ages : table[a][r] > 0) => Cardinality(r) = 1 /\ \A i \in r : i.quantity = 1
AnomaliesAreExceptional ==
    Plain(orders) /\ Plain(returns) /\ Plain(synced) /\ Anomalies # {} =>
        2 * SumOf(Anomalies, OrderCount) < Total(orders, Ages, One)
\* Where in addition nothing came from Shopify the three pages tell one rate, and a
\* rate that has not changed is shown as flat.
RatesAgree ==
    Plain(returns) /\ Total(synced, Ages, One) = 0 =>
        /\ PageRate = SnapshotRate({"now"})
        /\ Total(orders, {"before", "ever"}, One) + Total(returns, {"before", "ever"}, One) = 0
              => StoreAvg = PageRate
        /\ SnapshotRate({"now"}) = SnapshotRate({"before"}) => TrendLabel = "flat"
\* A search is proposed to the shop only if no product it sells answers it.
GapsAreReal == \A T \in TopTypes : \A k \in Missing(Keywords(T)) :
    \A p \in products : p.active => <<p.title, k.query>> \notin Covers
ReportsSound == /\ ForecastSound /\ SalesCountedOnce /\ ReturnsCountedOnce
                /\ AnomaliesAreExceptional /\ RatesAgree /\ GapsAreReal
=============================================================================
