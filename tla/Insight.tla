------------------------------ MODULE Insight ------------------------------
(***************************************************************************)
(* The insights of one shop (platform/insight): every pipeline event makes *)
(* a consumer compute a figure from the database and store it as a row of  *)
(* shop_insights; a cached snapshot of the shop serves the dashboard and   *)
(* the chats.  Consumers of different event types run at once.             *)
(***************************************************************************)
EXTENDS Naturals, FiniteSets

CONSTANTS Figures,     \* what 7 days may hold: pairs [orders, returns]
          Ratios,      \* the shop's average price against the market's, in tenths
          Evaluators,   \* event types: "order", "review", "return" and "product"
          Refreshers,  \* callers of the snapshot store
          InsightBudgets, MaxInsightFailures   \* bounds: pairs [changes, refreshes] of a behaviour

VARIABLES
    figures, ratio, dataVersion,  \* the database, and how often it has changed
    queue,    \* queue[c]: events that wait for consumer c
    eval,     \* eval[c]: [pc, orders, returns, ratio, since]
    rows,     \* rows[k][t]: the row of kind k under title t, or NoRow
    alerts,   \* figures notifications have been sent about
    refresh,  \* refresh[r]: [pc, figures, ratio, since]
    snapshot, \* the copy in Redis: NoSnapshot or [figures, ratio, since]
    served,   \* version at which the last refresh to end had begun
    refreshes, insightFailures,     \* counted for the bounds
    silent, mixed, \* kinds whose figures moved without an event; evaluations overlapped
    insightBudget         \* the bounds of this behaviour

insightVars == <<figures, ratio, dataVersion, queue, eval, rows, alerts, refresh,
                 snapshot, served, refreshes, insightFailures, silent, mixed, insightBudget>>
figureVars == <<figures, ratio, dataVersion, insightBudget>>
evalVars == <<queue, eval, rows, alerts, silent, mixed>>
snapVars == <<refresh, snapshot, served, refreshes>>

InsightConstants == /\ Figures \subseteq [orders: Nat, returns: Nat] /\ Ratios \subseteq Nat
                    /\ InsightBudgets \subseteq [changes: Nat, refreshes: Nat]
                    /\ MaxInsightFailures \in Nat

InsightKinds == {"return_rate", "pricing"}
KindOf(c) == IF c = "product" THEN "pricing" ELSE "return_rate"

\* analyzeReturnRate: the rate is returns * 100 / orders, 0 without orders.
Above(f, percent) == f.orders > 0 /\ f.returns * 100 > percent * f.orders
ReturnTitle(f) == IF Above(f, 20) THEN "Critical return rate detected"
                  ELSE IF Above(f, 15) THEN "Above-average return rate"
                  ELSE IF Above(f, 10) THEN "Slightly elevated return rate"
                  ELSE "Healthy return rate"
\* analyzePricing
PriceTitle(r) == IF r > 15 THEN "significantly above market"
                 ELSE IF r < 5 THEN "well below market"
                 ELSE IF r > 12 \/ r < 8 THEN "slight gap"
                 ELSE "competitive"
Severity(t) == CASE t = "Critical return rate detected" -> "critical"
                 [] t \in {"Above-average return rate", "significantly above market"} -> "high"
                 [] t \in {"Slightly elevated return rate", "well below market"} -> "medium"
                 [] OTHER -> "low"
Titles == {"Critical return rate detected", "Above-average return rate",
           "Slightly elevated return rate", "Healthy return rate",
           "significantly above market", "well below market", "slight gap", "competitive"}

NoRow == [severity |-> ""]
NoFigures == [orders |-> 0, returns |-> 0]
NoSnapshot == [since |-> 0]
IdleEval == [pc |-> "idle", orders |-> 0, returns |-> 0, ratio |-> 0]
IdleRefresh == [pc |-> "idle", figures |-> NoFigures, ratio |-> 0, since |-> 0]

InsightInit ==
    /\ figures \in Figures /\ ratio \in Ratios /\ dataVersion = 1
    /\ queue = [c \in Evaluators |-> 0] /\ eval = [c \in Evaluators |-> IdleEval]
    /\ rows = [k \in InsightKinds |-> [t \in Titles |-> NoRow]] /\ alerts = {}
    /\ refresh = [r \in Refreshers |-> IdleRefresh] /\ snapshot = NoSnapshot /\ served = 0
    /\ refreshes = 0 /\ insightFailures = 0 /\ silent = InsightKinds /\ mixed = FALSE
    /\ insightBudget \in InsightBudgets

InsightFail == insightFailures < MaxInsightFailures /\ insightFailures' = insightFailures + 1

--------------------------------------------------------------------------
\* A sync stores the shop's data and publishes an event; the window of seven days
\* moves on without one.
DataSynced(c, f, r) ==
    /\ dataVersion <= insightBudget.changes /\ dataVersion' = dataVersion + 1
    /\ IF KindOf(c) = "pricing" THEN ratio' = r /\ figures' = f /\ f = figures
       ELSE figures' = f /\ ratio' = r /\ r = ratio
    /\ queue' = [queue EXCEPT ![c] = @ + 1] /\ silent' = silent \ {KindOf(c)}
    /\ UNCHANGED <<eval, rows, alerts, mixed, insightBudget, snapVars, insightFailures>>
WindowMoves(f) ==
    /\ dataVersion <= insightBudget.changes /\ dataVersion' = dataVersion + 1
    /\ f # figures /\ figures' = f /\ silent' = silent \cup {"return_rate"}
    /\ UNCHANGED <<ratio, queue, eval, rows, alerts, mixed, insightBudget, snapVars, insightFailures>>

\* OnEvent: the orders are counted, then the returns; or the prices are compared.
\* Without an answer the event is dropped.
Busy(k) == {c \in Evaluators : eval[c].pc # "idle" /\ KindOf(c) = k}
OnEvent(c) ==
    /\ eval[c].pc = "idle" /\ queue[c] > 0 /\ queue' = [queue EXCEPT ![c] = @ - 1]
    /\ \/ /\ eval' = [eval EXCEPT ![c] =
                IF KindOf(c) = "pricing" THEN [IdleEval EXCEPT !.pc = "persist", !.ratio = ratio]
                ELSE [IdleEval EXCEPT !.pc = "returns", !.orders = figures.orders]]
          /\ mixed' = (mixed \/ Busy(KindOf(c)) # {}) /\ UNCHANGED insightFailures
       \/ KindOf(c) = "pricing" /\ InsightFail /\ UNCHANGED <<eval, mixed>>
    /\ UNCHANGED <<figureVars, rows, alerts, silent, snapVars>>
ReadReturns(c) ==
    /\ eval[c].pc = "returns"
    /\ eval' = [eval EXCEPT ![c].pc = "persist", ![c].returns = figures.returns]
    /\ UNCHANGED <<figureVars, queue, rows, alerts, silent, mixed, snapVars, insightFailures>>
\* persistInsight: one row per title; an error is logged, the event acknowledged.
\* Seeded bug: a row that is there is left as it is.
UpsertKeeps(old, new) == IF old = NoRow THEN new ELSE old
Upsert(old, new) == new
Found(c) == IF KindOf(c) = "pricing" THEN [ratio |-> eval[c].ratio]
            ELSE [orders |-> eval[c].orders, returns |-> eval[c].returns]
TitleOf(c) == IF KindOf(c) = "pricing" THEN PriceTitle(eval[c].ratio)
              ELSE ReturnTitle([orders |-> eval[c].orders, returns |-> eval[c].returns])
PersistInsight(c) ==
    LET t == TitleOf(c) IN
    /\ eval[c].pc = "persist"
    /\ \/ /\ rows' = [rows EXCEPT ![KindOf(c)][t] =
                         Upsert(@, [severity |-> Severity(t), data |-> Found(c)])]
          /\ UNCHANGED insightFailures
       \/ InsightFail /\ UNCHANGED rows
    /\ eval' = [eval EXCEPT ![c] = IF c = "return" THEN [IdleEval EXCEPT !.pc = "alert"]
                                   ELSE IdleEval]
    /\ UNCHANGED <<figureVars, queue, alerts, silent, mixed, snapVars>>
\* The second handler of return.synced notifies of more than 30 percent, every time.
ReturnAlert(c) ==
    /\ eval[c].pc = "alert" /\ eval' = [eval EXCEPT ![c] = IdleEval]
    /\ \/ /\ alerts' = IF figures.orders >= 10 /\ Above(figures, 30) THEN alerts \cup {figures}
                       ELSE alerts
          /\ UNCHANGED insightFailures
       \/ InsightFail /\ UNCHANGED alerts
    /\ UNCHANGED <<figureVars, queue, rows, silent, mixed, snapVars>>

--------------------------------------------------------------------------
\* Refresh, by the cron for every shop and by a dashboard that finds no copy. The
\* numbers are read one after the other, and an error leaves a zero.
BeginRefresh(r) ==
    /\ refresh[r].pc = "idle" /\ refreshes < insightBudget.refreshes /\ refreshes' = refreshes + 1
    /\ r = "dashboard" => snapshot = NoSnapshot
    /\ \/ refresh' = [refresh EXCEPT ![r] = [pc |-> "rest", figures |-> figures, ratio |-> 0,
                                             since |-> dataVersion]] /\ UNCHANGED insightFailures
       \/ InsightFail /\ refresh' = [refresh EXCEPT ![r] = [IdleRefresh EXCEPT !.pc = "rest",
                                                                         !.since = dataVersion]]
    /\ UNCHANGED <<figureVars, evalVars, snapshot, served>>
ReadRest(r) ==
    /\ refresh[r].pc = "rest"
    /\ \/ refresh' = [refresh EXCEPT ![r].pc = "store", ![r].ratio = ratio] /\ UNCHANGED insightFailures
       \/ InsightFail /\ refresh' = [refresh EXCEPT ![r].pc = "store"]
    /\ UNCHANGED <<figureVars, evalVars, snapshot, served, refreshes>>
StoreSnapshot(r) ==
    /\ refresh[r].pc = "store" /\ refresh' = [refresh EXCEPT ![r] = IdleRefresh]
    /\ \/ /\ snapshot' = [figures |-> refresh[r].figures, ratio |-> refresh[r].ratio,
                          since |-> refresh[r].since]
          /\ served' = refresh[r].since /\ UNCHANGED insightFailures
       \/ InsightFail /\ UNCHANGED <<snapshot, served>>
    /\ UNCHANGED <<figureVars, evalVars, refreshes>>
SnapshotExpires == /\ snapshot # NoSnapshot /\ snapshot' = NoSnapshot
                   /\ UNCHANGED <<figureVars, evalVars, refresh, served, refreshes, insightFailures>>

--------------------------------------------------------------------------
InsightNext ==
    \/ \E c \in Evaluators : \/ \E f \in Figures, r \in Ratios : DataSynced(c, f, r)
                            \/ OnEvent(c) \/ ReadReturns(c) \/ PersistInsight(c) \/ ReturnAlert(c)
    \/ \E f \in Figures : WindowMoves(f)
    \/ \E r \in Refreshers : BeginRefresh(r) \/ ReadRest(r) \/ StoreSnapshot(r)
    \/ SnapshotExpires

InsightSpec == InsightInit /\ [][InsightNext]_insightVars

InsightTypeOK ==
    /\ figures \in Figures /\ ratio \in Ratios
    /\ dataVersion \in 1..(insightBudget.changes + 1)
    /\ alerts \subseteq Figures /\ silent \subseteq InsightKinds
    /\ refreshes \in 0..insightBudget.refreshes /\ insightFailures \in 0..MaxInsightFailures

\* A row's severity is that of the numbers shown with it, even if these were never
\* true at one time.
SeverityFits == \A k \in InsightKinds : \A t \in Titles : rows[k][t] # NoRow =>
    rows[k][t].severity = Severity(IF k = "pricing" THEN PriceTitle(rows[k][t].data.ratio)
                                   ELSE ReturnTitle(rows[k][t].data))
\* When every event has been worked off and no two evaluations overlapped, the row
\* of the current title has the current numbers, unless a failure kept it from being
\* stored or the numbers have moved without an event.
AtRest(k) == \A c \in Evaluators : KindOf(c) = k => queue[c] = 0 /\ eval[c].pc = "idle"
RowsCurrent == insightFailures = 0 /\ ~mixed => \A k \in InsightKinds \ silent : AtRest(k) =>
    IF k = "pricing" THEN rows[k][PriceTitle(ratio)] = [severity |-> Severity(PriceTitle(ratio)),
                                                        data |-> [ratio |-> ratio]]
    ELSE rows[k][ReturnTitle(figures)] = [severity |-> Severity(ReturnTitle(figures)), data |-> figures]
\* The snapshot is what the database held, unless it has changed since the refresh
\* began or a query failed; and the last refresh to end is the one that is served.
SnapshotTrue == snapshot # NoSnapshot /\ insightFailures = 0 =>
    /\ snapshot.since <= dataVersion
    /\ snapshot.since = dataVersion => snapshot.figures = figures /\ snapshot.ratio = ratio
    /\ snapshot.since = served
\* Insights and snapshots say what the orders and returns said when nothing ran between
\* (insight/engine.go, snapshot.go).
InsightSound == SeverityFits /\ RowsCurrent /\ SnapshotTrue
=============================================================================
