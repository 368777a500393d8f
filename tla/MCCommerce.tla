----- MODULE MCCommerce -----------------------------------------------------
(* The components of the shop's side, checked in one run: a behaviour is    *)
(* about one of them, `part', and the others stay as they begin.  Carts,    *)
(* syncs, returns, fulfillments, installations and bills have their own     *)
(* variables here; the other two take v1, v2 and so on, in the order of     *)
(* their modules.                                                           *)
EXTENDS CartRecovery, SyncCursor, Returns, Fulfillment, ShopLifecycle, Billing, Sequences, TLC

VARIABLES part,  \* the component this behaviour is about
          v1, v2, v3, v4, v5, v6, v7, v8, v9, v10, v11, v12, v13  \* 0 where not in use

taken == <<v1, v2, v3, v4, v5, v6, v7, v8, v9, v10, v11, v12, v13>>
own == <<cartVars, syncVars, returnsVars, fulfillmentVars, lifecycleVars, billingVars>>
vars == <<part, taken, own>>

Symmetric == Permutations(Worker)

PagesOf == [orders |-> 2, products |-> 1]

QuotaOf == [free |-> 1, pro |-> 2]

OrderLines == {<<1, 2>>, <<2, 1, 2, 2>>, <<1, 3, 0, 3, 3>>}
KindOf == <<"top", "hat", "top">>
BuildsOf == {[id |-> 1, strategy |-> "fbt"], [id |-> 2, strategy |-> "fbt"],
             [id |-> 3, strategy |-> "trending"]}
RecBudgets == {[builds |-> 2, changes |-> 0, failures |-> 0],
               [builds |-> 1, changes |-> 2, failures |-> 0],
               [builds |-> 1, changes |-> 0, failures |-> 1]}

Budget(o, r, d, e, f) ==
    [orders |-> o, refreshes |-> r, redacts |-> d, edits |-> e, failures |-> f]
ScoreBudgets == {Budget(1, 1, 1, 0, 0), Budget(1, 2, 0, 0, 0), Budget(0, 2, 1, 0, 1),
                 Budget(0, 2, 0, 1, 0)}
Bought(e, p, t) == [email |-> e, price |-> p, at |-> t]
HistoriesOf ==
    {<<>>,
     <<Bought("a", 40, 10), Bought("a", 40, 50), Bought("a", 40, 60), Bought("a", 10, 90)>>,
     <<Bought("a", 40, 0), Bought("a", 10, 40), Bought("a", 40, 100), Bought("b", 10, 50)>>,
     <<Bought("a", 10, 50), Bought("a", 10, 90), Bought("a", 10, 100), Bought("b", 40, 80)>>}

Rec == INSTANCE Recommendation WITH
    Products <- {1, 2, 3}, Baskets <- OrderLines, Kind <- KindOf, Builds <- BuildsOf,
    Limit <- 2, TrendLimit <- 2, MaxOrders <- 2, Budgets <- RecBudgets,
    sold <- v1, week <- v2, quarter <- v3, catalog <- v4, build <- v5, rows <- v6,
    version <- v7, ended <- v8, clean <- v9, builds <- v10, changes <- v11,
    failures <- v12, budget <- v13
Scores == INSTANCE CustomerScores WITH
    Emails <- {"a", "b"}, Prices <- {10, 40}, Ages <- {0, 50}, Histories <- HistoriesOf,
    Tasks <- Worker, MaxTime <- 150, Budgets <- ScoreBudgets,
    now <- v1, orders <- v2, insights <- v3, task <- v4, version <- v5, ended <- v6,
    clean <- v7, redact <- v8, known <- v9, spent <- v10, budget <- v11

\* What a component with variables of its own chooses at the start is chosen only
\* where the behaviour is about it.
Init ==
    /\ CartInit /\ SyncInit /\ ReturnsInit /\ FulfillmentInit /\ LifecycleInit /\ BillingInit
    /\ \/ /\ part \in {"cart", "sync", "returns", "fulfillment", "lifecycle", "billing"}
          /\ v1 = 0 /\ v2 = 0 /\ v3 = 0 /\ v4 = 0 /\ v5 = 0 /\ v6 = 0 /\ v7 = 0
          /\ v8 = 0 /\ v9 = 0 /\ v10 = 0 /\ v11 = 0 /\ v12 = 0 /\ v13 = 0
       \/ part = "recommendation" /\ Rec!RecInit
       \/ part = "scores" /\ Scores!ScoreInit /\ v12 = 0 /\ v13 = 0
    /\ part = "sync" \/ kind = "orders"
    /\ part = "returns" \/ shipEngine
    /\ part = "fulfillment" \/ key = "edges"
    /\ part = "billing" \/ dev

CartRecoveryStep ==
    part = "cart" /\ CartNext
    /\ UNCHANGED <<part, taken, syncVars, returnsVars, fulfillmentVars, lifecycleVars, billingVars>>
SyncCursorStep ==
    part = "sync" /\ SyncNext
    /\ UNCHANGED <<part, taken, cartVars, returnsVars, fulfillmentVars, lifecycleVars, billingVars>>
ReturnsStep ==
    part = "returns" /\ ReturnsNext
    /\ UNCHANGED <<part, taken, cartVars, syncVars, fulfillmentVars, lifecycleVars, billingVars>>
FulfillmentStep ==
    part = "fulfillment" /\ FulfillmentNext
    /\ UNCHANGED <<part, taken, cartVars, syncVars, returnsVars, lifecycleVars, billingVars>>
ShopLifecycleStep ==
    part = "lifecycle" /\ LifecycleNext
    /\ UNCHANGED <<part, taken, cartVars, syncVars, returnsVars, fulfillmentVars, billingVars>>
BillingStep ==
    part = "billing" /\ BillingNext
    /\ UNCHANGED <<part, taken, cartVars, syncVars, returnsVars, fulfillmentVars, lifecycleVars>>
RecommendationStep == part = "recommendation" /\ Rec!RecNext /\ UNCHANGED <<part, own>>
CustomerScoresStep ==
    part = "scores" /\ Scores!ScoreNext /\ UNCHANGED <<part, own, v12, v13>>

Next == \/ CartRecoveryStep
        \/ SyncCursorStep
        \/ ReturnsStep
        \/ FulfillmentStep
        \/ ShopLifecycleStep
        \/ BillingStep
        \/ RecommendationStep
        \/ CustomerScoresStep

Spec == Init /\ [][Next]_vars

ASSUME CommerceConstants ==
    /\ CartConstants /\ SyncConstants /\ ReturnsConstants
    /\ FulfillmentConstants /\ LifecycleConstants /\ BillingConstants

-----------------------------------------------------------------------------
\* The type invariant of each component.
TypeOK ==
    /\ part = "cart" => CartTypeOK
    /\ part = "sync" => SyncTypeOK
    /\ part = "returns" => ReturnsTypeOK
    /\ part = "fulfillment" => FulfillmentTypeOK
    /\ part = "lifecycle" => LifecycleTypeOK
    /\ part = "billing" => BillingTypeOK
    /\ part = "recommendation" => Rec!TypeOK
    /\ part = "scores" => Scores!TypeOK

\* The pairs and trends a build stores are those of the orders it read
\* (recommendation_engine.go).
RecommendationsSound == part = "recommendation" => Rec!RecommendationsSound

\* Segments and rows agree with the orders where nothing overlapped, and a deleted
\* customer has no row (rfm.go, customer_intelligence.go, webhook_customer.go).
ScoresSound == part = "scores" => Scores!ScoresSound
=============================================================================
