--------------------------- MODULE Recommendation ---------------------------
(***************************************************************************)
(* Product recommendations of one shop (recommendation_engine.go): tasks   *)
(* rebuild the rows of product_affinities from the orders of the last 90   *)
(* days (fbt) and 7 days (trending), while orders arrive, grow old and     *)
(* products change.  Tasks of one type may overlap.  Every read of the     *)
(* storefront is an operator on the rows.                                  *)
(***************************************************************************)
EXTENDS Naturals, Sequences, FiniteSets, FiniteSetsExt, SequencesExt

CONSTANTS Products,    \* ids, numbers above 0; a custom line item has product_id 0
          Baskets,     \* the line items an order may have, as sequences of ids
          Kind,        \* product_type of a product
          Builds,      \* concurrent tasks: records [id, strategy]
          Limit, TrendLimit, \* of the storefront's query and of BuildTrending's (20)
          MaxOrders, Budgets   \* bounds; a budget is a record [builds, changes, failures]

VARIABLES
    sold,      \* the line items of every order synced
    week, quarter, \* how many of these are older than 7 and than 90 days
    catalog,   \* synced_products: the version of a product's title; 0 is no row
    build,     \* build[w]: [pc, counts, info, top, from, since]
    rows,      \* rows[k]: of key [a, b, strategy], or NoRow
    version,   \* changes of what a build reads
    ended,     \* [of a strategy] the version at which the last build to end began
    clean,     \* [of a strategy] no build of it has failed or overlapped another
    builds, changes, failures, budget   \* counted for the bounds, and the bounds

recVars == <<sold, week, quarter, catalog, build, rows, version, ended, clean,
             builds, changes, failures, budget>>
shopVars == <<sold, week, quarter, catalog, version, changes, budget>>

Strategies == {"fbt", "trending"}
Key(a, b, s) == [a |-> a, b |-> b, strategy |-> s]
Keys == {Key(a, b, "fbt") : a \in Products, b \in Products}
        \cup {Key(a, 0, "trending") : a \in Products \cup {0}}
NoRow == [count |-> 0]
NoBuild == [pc |-> "idle"]

RecInit ==
    /\ sold = <<>> /\ week = 0 /\ quarter = 0 /\ catalog = [p \in Products |-> 1]
    /\ build = [w \in Builds |-> NoBuild] /\ rows = [k \in Keys |-> NoRow]
    /\ version = 0 /\ ended = [s \in Strategies |-> 0] /\ clean = [s \in Strategies |-> TRUE]
    /\ builds = 0 /\ changes = 0 /\ failures = 0 /\ budget \in Budgets

Fail == failures < budget.failures /\ failures' = failures + 1
CanChange == changes < budget.changes /\ changes' = changes + 1 /\ version' = version + 1

--------------------------------------------------------------------------
OrderSynced(lines) ==
    /\ Len(sold) < MaxOrders /\ sold' = Append(sold, lines) /\ version' = version + 1
    /\ UNCHANGED <<week, quarter, catalog, changes, build, rows, ended, clean,
                   builds, failures, budget>>
\* Time passes: the oldest order of a window leaves it.
OrderAges ==
    /\ CanChange
    /\ \/ week < Len(sold) /\ week' = week + 1 /\ UNCHANGED quarter
       \/ quarter < week /\ quarter' = quarter + 1 /\ UNCHANGED week
    /\ UNCHANGED <<sold, catalog, build, rows, ended, clean, builds, failures, budget>>
\* The merchant renames a product or removes it.
ProductChanges(p) ==
    /\ CanChange /\ catalog' = [catalog EXCEPT ![p] = IF @ = 0 THEN 1 ELSE IF @ = 1 THEN 2 ELSE 0]
    /\ UNCHANGED <<sold, week, quarter, build, rows, ended, clean, builds, failures, budget>>

\* The pairs of lines i < j of an order, the smaller id first; a custom line has none.
LinePairs(lines) == {ij \in (DOMAIN lines) \X (DOMAIN lines) :
                        ij[1] < ij[2] /\ lines[ij[1]] # 0 /\ lines[ij[2]] # 0}
\* Seeded bug: the ids keep the order in which the lines have them.
PairAsOrdered(a, b) == <<a, b>>
Pair(a, b) == IF a > b THEN <<b, a>> ELSE <<a, b>>
TimesPaired(p, lines) ==
    Cardinality({ij \in LinePairs(lines) : Pair(lines[ij[1]], lines[ij[2]]) = p})
CoCount(p, from) == MapThenSumSet(LAMBDA k : TimesPaired(p, sold[k]), (from + 1)..Len(sold))
\* Pairs bought together at least three times.
Often(from) == {p \in Products \X Products : CoCount(p, from) >= 3}
LinesOf(p) == MapThenSumSet(LAMBDA k : Cardinality({i \in DOMAIN sold[k] : sold[k][i] = p}),
                            (week + 1)..Len(sold))

\* math.Round(100 * n / m), in percent or, for trending, in hundredths of that
Rounded(n, m, scale) == (2 * scale * n + m) \div (2 * m)

\* What a build has counted: the rows it is going to write, without a title.
FBTCounts == LET often == Often(quarter)
                 most == Max({CoCount(p, quarter) : p \in often})
             IN [k \in {Key(p[1], p[2], "fbt") : p \in often} |->
                    [count |-> CoCount(<<k.a, k.b>>, quarter),
                     score |-> Rounded(CoCount(<<k.a, k.b>>, quarter), most, 100)]]
TrendCounts(top) == LET all == MapThenSumSet(LinesOf, top) IN
    [k \in {Key(p, 0, "trending") : p \in top} |->
        [count |-> LinesOf(k.a), score |-> Rounded(LinesOf(k.a), all, 10000)]]
\* LIMIT 20: no product left out has more lines than one that is in.
IsTop(top) == LET bought == {p \in Products \cup {0} : LinesOf(p) > 0} IN
    /\ top \subseteq bought /\ Cardinality(top) = Min({TrendLimit, Cardinality(bought)})
    /\ \A p \in top, q \in bought \ top : LinesOf(p) >= LinesOf(q)

\* BuildFBT, BuildTrending: the orders are read and counted. Nothing is done when no
\* pair, or no product, is left; the task is tried again when the query fails.
BeginBuild(w) ==
    LET s == w.strategy
        overlaps == \E v \in Builds : v.strategy = s /\ build[v].pc # "idle"
    IN
    /\ build[w].pc = "idle" /\ builds < budget.builds /\ builds' = builds + 1
    /\ \E counts \in IF s = "fbt" THEN {FBTCounts}
                     ELSE {TrendCounts(top) : top \in {t \in SUBSET (Products \cup {0}) : IsTop(t)}} :
        \/ /\ counts # <<>>
           /\ build' = [build EXCEPT ![w] = [pc |-> "info", counts |-> counts, since |-> version]]
           /\ clean' = [clean EXCEPT ![s] = @ /\ ~overlaps] /\ UNCHANGED <<ended, failures>>
        \/ /\ counts = <<>> /\ ended' = [ended EXCEPT ![s] = version]
           /\ clean' = [clean EXCEPT ![s] = @ /\ ~overlaps] /\ UNCHANGED <<build, failures>>
        \/ Fail /\ UNCHANGED <<build, ended, clean>>
    /\ UNCHANGED <<shopVars, rows>>
\* batchGetProducts; the rows go without titles when it fails.
ReadProducts(w) ==
    /\ build[w].pc = "info"
    /\ \E info \in {catalog, [p \in Products |-> 0]} :
        /\ info # catalog => Fail
        /\ info = catalog => UNCHANGED failures
        /\ build' = [build EXCEPT ![w] = [pc |-> "write", counts |-> @.counts, since |-> @.since,
                                          info |-> info]]
    /\ UNCHANGED <<shopVars, rows, ended, clean, builds>>
\* The title in a row of the pair is that of its second product.
Titled(k) == IF k.strategy = "fbt" THEN k.b ELSE k.a
\* One row after the other, in the order of a Go map; a row that fails is skipped.
WriteRow(w, k) ==
    LET counts == build[w].counts
        rest == [l \in DOMAIN counts \ {k} |-> counts[l]]
        title == IF Titled(k) = 0 THEN 0 ELSE build[w].info[Titled(k)]
    IN
    /\ build[w].pc = "write" /\ k \in DOMAIN counts
    /\ \/ /\ rows' = [rows EXCEPT ![k] = [count |-> counts[k].count, score |-> counts[k].score,
                                          title |-> title]]
          /\ UNCHANGED <<failures, clean>>
       \/ Fail /\ clean' = [clean EXCEPT ![w.strategy] = FALSE] /\ UNCHANGED rows
    /\ build' = [build EXCEPT ![w] = IF rest = <<>> THEN NoBuild ELSE [@ EXCEPT !.counts = rest]]
    /\ ended' = [ended EXCEPT ![w.strategy] = IF rest = <<>> THEN build[w].since ELSE @]
    /\ UNCHANGED <<shopVars, builds>>

--------------------------------------------------------------------------
RecNext ==
    \/ \E lines \in Baskets : OrderSynced(lines)
    \/ OrderAges
    \/ \E p \in Products : ProductChanges(p)
    \/ \E w \in Builds : BeginBuild(w) \/ ReadProducts(w) \/ \E k \in Keys : WriteRow(w, k)

Spec == RecInit /\ [][RecNext]_recVars

\* GetRecommendations: the best rows that have the product on either side.
Best(keys, n) == LET s == SetToSortSeq(keys, LAMBDA k, l : rows[k].score > rows[l].score)
                 IN SubSeq(s, 1, Min({n, Len(s)}))
Other(p, k) == IF k.a # p THEN k.a ELSE k.b
BoughtTogether(p) ==
    LET keys == {k \in Keys : k.strategy = "fbt" /\ rows[k] # NoRow /\ p \in {k.a, k.b}}
    IN [i \in DOMAIN Best(keys, Limit) |-> Other(p, Best(keys, Limit)[i])]
SameCategory(p) == IF catalog[p] = 0 \/ Kind[p] = "" THEN {}
                   ELSE {q \in Products \ {p} : catalog[q] # 0 /\ Kind[q] = Kind[p]}
GetTrending == LET keys == {k \in Keys : k.strategy = "trending" /\ rows[k] # NoRow}
               IN [i \in DOMAIN Best(keys, Limit) |-> Best(keys, Limit)[i].a]
GetRecommendations(p) ==
    CASE BoughtTogether(p) # <<>> -> [reason |-> "together", products |-> Range(BoughtTogether(p))]
      [] BoughtTogether(p) = <<>> /\ SameCategory(p) # {} -> [reason |-> "similar", products |-> SameCategory(p)]
      [] OTHER -> [reason |-> "trending", products |-> Range(GetTrending)]

TypeOK == /\ sold \in Seq(Baskets) /\ quarter <= week /\ week <= Len(sold)
          /\ \A k \in Keys : rows[k] # NoRow => rows[k].count >= 1 /\ rows[k].title \in 0..2
          /\ builds <= budget.builds /\ changes <= budget.changes /\ failures <= budget.failures

\* A product is recommended as bought together only if the two were, in three pairs of
\* lines; to itself, only if it was on several lines of one order.
TogetherIsTrue == \A p \in Products : \A q \in Range(BoughtTogether(p)) :
    /\ CoCount(Pair(p, q), 0) >= 3
    /\ p = q => \E k \in DOMAIN sold : \E i, j \in DOMAIN sold[k] :
                    i # j /\ sold[k][i] = p /\ sold[k][j] = p
\* What was recommended can be recommended back, up to the limit of the query.
TogetherBothWays == \A p, q \in Products :
    q \in Range(BoughtTogether(p)) /\ Len(BoughtTogether(q)) < Limit
        => p \in Range(BoughtTogether(q))
\* When the builds of a strategy never failed and never overlapped, and nothing has
\* changed since the last one began, every pair bought together often enough, and no
\* other with a current score, has its count; the best of them has the full score.
Fresh(s) == /\ clean[s] /\ ended[s] = version /\ failures = 0
            /\ \A w \in Builds : w.strategy = s => build[w].pc = "idle"
RowsFollowSales ==
    /\ Fresh("fbt") => \A p \in Often(quarter) :
          rows[Key(p[1], p[2], "fbt")].count = CoCount(p, quarter)
    /\ Fresh("fbt") /\ Often(quarter) # {} => \E p \in Often(quarter) :
          rows[Key(p[1], p[2], "fbt")].score = 100
    /\ Fresh("trending") => \A p \in Products \cup {0} : LinesOf(p) > 0 =>
          \/ rows[Key(p, 0, "trending")].count = LinesOf(p)
          \/ TrendLimit <= Cardinality({q \in Products \cup {0} :
                 LinesOf(q) >= LinesOf(p) /\ q # p})
RecommendationsSound == TogetherIsTrue /\ TogetherBothWays /\ RowsFollowSales
=============================================================================
