----- MODULE MCServices -----------------------------------------------------
(* The components of the services, checked in one run: a behaviour is about *)
(* one of them, `part', and the others stay as they begin.  The router, the   *)
(* try-on, the metrics, the gateway, the flows, the content, the copies of   *)
(* the visibility pages, the knowledge base and the insights have their own  *)
(* variables here; the others take v1, v2 and so on, in the order of their   *)
(* modules.                                                                  *)
EXTENDS LLMRouter, TryOn, Metrics, Gateway, MarketingFlow, Content, Visibility, Rag,
        Insight, Integers, Sequences, TLC

CONSTANTS Worker   \* two interchangeable requests, tasks or goroutines

VARIABLES part,  \* the component this behaviour is about
          v1, v2, v3, v4, v5, v6, v7, v8, v9, v10, v11, v12  \* 0 where not in use

taken == <<v1, v2, v3, v4, v5, v6, v7, v8, v9, v10, v11, v12>>
gates == <<routerVars, tryonVars, metricVars, gatewayVars>>
shopOwn == <<flowVars, contentVars, visibilityVars, ragVars, insightVars>>
own == <<gates, shopOwn>>
vars == <<part, taken, own>>

Symmetric == Permutations(Worker)

Body(p, m, k) == [provider |-> p, model |-> m, key |-> k]
ConfigChanges == {Body("", "", ""), Body("dashscope", "qwen-max", ""),
                  Body("dashscope", "qwen-turbo", "k1"),
                  Body("deepseek", "deepseek-chat", ""), Body("", "qwen-max", "k2")}

Say(objects, size, buys, asks) ==
    [objects |-> objects, size |-> size, buys |-> buys, asks |-> asks]
Said == {Say(TRUE, "M", FALSE, FALSE), Say(FALSE, "L", TRUE, FALSE)}
SizesOf == [p1 |-> {"M"}, p2 |-> {"L"}]
AgentBudget(turns, plans, ticks, stock) ==
    [turns |-> turns, plans |-> plans, ticks |-> ticks, stock |-> stock]
AgentBudgets == {AgentBudget(2, 0, 0, FALSE), AgentBudget(1, 1, 1, TRUE)}

ContentBudget(j, s, c, p, m, f) ==
    [jobs |-> j, states |-> s, callbacks |-> c, publishes |-> p, pulls |-> m, failures |-> f]
BudgetsOfContent == {ContentBudget(2, 0, 0, 0, 1, 1), ContentBudget(0, 2, 3, 0, 0, 1),
                     ContentBudget(0, 1, 1, 2, 0, 1), ContentBudget(1, 1, 1, 1, 1, 0)}

TtlOf == [k \in {"feed", "llms", "schema", "score", "txt", "full", "ai", "plan"} |->
             CASE k = "plan" -> 1 [] k \in {"txt", "full", "ai"} -> 3 [] OTHER -> 2]
Mix(kinds, n) == [kinds |-> kinds, requests |-> n]
MixesOf == {Mix({"feed", "ai", "optimize", "describe"}, 2), Mix({"feed", "clear"}, 2),
            Mix({"feed", "llms", "regenerate"}, 3), Mix({"schema", "txt", "generate"}, 2),
            Mix({"score", "deploy"}, 2), Mix({"score", "refresh", "scan"}, 2)}

BudgetsOfRag == {[chunks |-> 3, searches |-> 0], [chunks |-> 1, searches |-> 1],
                 [chunks |-> 0, searches |-> 2]}

Figure(orders, returns) == [orders |-> orders, returns |-> returns]
FiguresOf == {Figure(10, 1), Figure(10, 3), Figure(10, 4)}
BudgetsOfInsight == {[changes |-> 2, refreshes |-> 0], [changes |-> 1, refreshes |-> 2]}

Row(id, title, type, stock, active) ==
    [id |-> id, title |-> title, type |-> type, stock |-> stock, active |-> active]
Shirt == Row("1", "shirt", "tops", 1, TRUE)
Coat == Row("2", "coat", "tops", 0, TRUE)
Hat == Row("3", "hat", "hats", 2, FALSE)
CatalogsOf == {{}, {Shirt, Coat, Hat}, {Shirt, Hat}, {Hat}}
Line(p, t, q) == [product |-> p, title |-> t, quantity |-> q]
OrdersOf == {{Line("1", "shirt", 1)}, {Line("2", "coat", 1)},
             {Line("1", "shirt", 4), Line("", "coat", 1)}}
Back(p, q) == [product |-> p, quantity |-> q]
ReturnsOf == {{Back("1", 1)}, {Back("1", 1), Back("2", 2)}}
SyncedOf == {{[line |-> "L1", quantity |-> 1], [line |-> "", quantity |-> 2]}}
Trend(q, status) == [query |-> q, status |-> status]
RelatedTo == [tops |-> {Trend("red coat", "rising"), Trend("vest", "breakout")},
              hats |-> {Trend("cap", "top")}, fashion |-> {Trend("red coat", "rising")}]

Offer(id, vendor, title, type, stock, price, on) ==
    [id |-> id, vendor |-> vendor, title |-> title, type |-> type, stock |-> stock,
     price |-> price, active |-> on]
Catalogue == {Offer("p1", "Acme", "Shirt", "tops", 1, 10, TRUE),
              Offer("p2", "", "Shirt", "hats", 1, 11, TRUE),
              Offer("p3", "Acme", "Coat", "tops", 1, 40, TRUE),
              Offer("p4", "Acme", "Sock", "tops", 0, 10, TRUE),
              Offer("p5", "", "Sock", "tops", 1, 10, FALSE)}
Returned(product, title, type, price, size) ==
    [product |-> product, title |-> title, type |-> type, price |-> price, size |-> size]
ReturnedItems == {Returned("p1", "Shirt", "", 10, TRUE), Returned("p3", "", "tops", 30, FALSE),
                  Returned("p9", "", "", 0, FALSE)}

Payload(p, s, t, x) == [price |-> p, size |-> s, type |-> t, text |-> x]
Payloads == {Payload(10, "m", "tee", {"cotton"}), Payload(0, "", "", {}),
             Payload(10, "eu 38", "gown", {"cotton", "silk"})}
SizeTable == "m" :> "Medium" @@ "eu 38" :> "US 8"
CategoryTree == "t-shirt" :> "Apparel>Tops>T-Shirt"
SynonymTable == "tee" :> "t-shirt"
RegionTable == "US" :> "NA"

Agent == INSTANCE SalesAgent WITH
    Turns <- Worker, Messages <- Said, Products <- {"p1", "p2"}, Sizes <- SizesOf,
    MaxIterations <- 2, HistoryMax <- 4, SearchLimit <- 2, PlanTTL <- 1,
    Budgets <- AgentBudgets, MaxFailures <- 1,
    plan <- v1, cached <- v2, freeFor <- v3, stock <- v4, session <- v5, turn <- v6,
    published <- v7, overlaps <- v8, plans <- v9, ticks <- v10, failures <- v11,
    budget <- v12
Chat == INSTANCE ChatStream WITH
    Requests <- {1}, Kinds <- {"product", "merchant", "agent"},
    Endpoints <- {"ask", "adminAsk", "summary", "storefront", "suggest", "storefrontSuggest"},
    Capacity <- 2, MaxTokens <- 6,
    req <- v1, model <- v2, prod <- v3, chan <- v4, bus <- v5
Rep == INSTANCE ShopReports WITH
    Catalogs <- CatalogsOf, Orders <- OrdersOf, Returns <- ReturnsOf,
    SyncedReturns <- SyncedOf, Related <- RelatedTo, Covers <- {<<"coat", "red coat">>},
    TrendTypes <- 1, AnomalyOrders <- 1, MaxRows <- 4,
    products <- v1, orders <- v2, returns <- v3, synced <- v4
Advice == INSTANCE ReturnAdvice WITH
    Products <- Catalogue, Queries <- ReturnedItems, CatalogSize <- 3, TopN <- 2,
    Lines <- {"l1", "p2"}, Reasons <- {"size", "defective"}, MaxWebhooks <- 1,
    catalog <- v1, synced <- v2, events <- v3, hooks <- v4, recs <- v5, answer <- v6
Enr == INSTANCE Enrichment WITH
    Contents <- Payloads, Rates <- [USD |-> 1], Sizes <- SizeTable,
    Tree <- CategoryTree, Synonyms <- SynonymTable, Regions <- RegionTable,
    Jobs <- {1, 2}, MaxStages <- 3, MaxEdits <- 2, MaxSyncs <- 1, MaxFailures <- 1,
    pipeline <- v1, shopify <- v2, version <- v3, hooks <- v4, row <- v5, tasks <- v6,
    job <- v7, syncs <- v8, failures <- v9

\* The variables from the n-th on, which are not in use.
Zero(n) ==
    /\ IF n <= 5 THEN v5 = 0 ELSE TRUE
    /\ IF n <= 6 THEN v6 = 0 ELSE TRUE
    /\ IF n <= 7 THEN v7 = 0 ELSE TRUE
    /\ IF n <= 8 THEN v8 = 0 ELSE TRUE
    /\ IF n <= 9 THEN v9 = 0 ELSE TRUE
    /\ IF n <= 10 THEN v10 = 0 ELSE TRUE
    /\ IF n <= 11 THEN v11 = 0 ELSE TRUE
    /\ IF n <= 12 THEN v12 = 0 ELSE TRUE
From10 == <<v10, v11, v12>>
From9 == <<v9, From10>>
From7 == <<v7, v8, From9>>
From6 == <<v6, From7>>
From5 == <<v5, From6>>

Unused == v1 = 0 /\ v2 = 0 /\ v3 = 0 /\ v4 = 0 /\ Zero(5)

\* What a component chooses as it begins, it chooses only where the behaviour is about it.
Init ==
    /\ part \in {"router", "tryon", "metrics", "gateway", "flows", "content", "visibility",
                 "rag", "insight", "agent", "chat", "reports", "advice", "enrich"}
    /\ part # "router" => plan = [s \in Shops |-> "free"]
    /\ part # "tryon" => slots = 1
    /\ part # "content" => budget = ContentBudget(1, 1, 1, 1, 1, 0)
    /\ part # "visibility" => mix = Mix({"feed", "clear"}, 2)
    /\ part # "rag" => ragBudget = [chunks |-> 1, searches |-> 1]
    /\ part # "insight" => /\ insightBudget = [changes |-> 1, refreshes |-> 2]
                           /\ figures = Figure(10, 1) /\ ratio = 4
    /\ RouterInit /\ TryOnInit /\ MetricsInit /\ GatewayInit /\ FlowsInit
    /\ ContentInit /\ VisibilityInit /\ RagInit /\ InsightInit
    /\ CASE part = "agent" -> Agent!AgentInit
         [] part = "chat" -> Chat!ChatInit /\ Zero(6)
         [] part = "reports" -> Rep!ReportInit /\ Zero(5)
         [] part = "advice" -> Advice!Init /\ Zero(7)
         [] part = "enrich" -> Enr!EnrichInit /\ Zero(10)
         [] OTHER -> Unused

LLMRouterStep ==
    /\ part = "router" /\ RouterNext
    /\ UNCHANGED <<part, taken, shopOwn, tryonVars, metricVars, gatewayVars>>
TryOnStep ==
    /\ part = "tryon" /\ TryOnNext
    /\ UNCHANGED <<part, taken, shopOwn, routerVars, metricVars, gatewayVars>>
MetricsStep ==
    /\ part = "metrics" /\ MetricsNext
    /\ UNCHANGED <<part, taken, shopOwn, routerVars, tryonVars, gatewayVars>>
GatewayStep ==
    /\ part = "gateway" /\ GatewayNext
    /\ UNCHANGED <<part, taken, shopOwn, routerVars, tryonVars, metricVars>>
MarketingFlowStep ==
    /\ part = "flows" /\ FlowsNext
    /\ UNCHANGED <<part, taken, gates, contentVars, visibilityVars, ragVars, insightVars>>
ContentStep ==
    /\ part = "content" /\ ContentNext
    /\ UNCHANGED <<part, taken, gates, flowVars, visibilityVars, ragVars, insightVars>>
VisibilityStep ==
    /\ part = "visibility" /\ VisibilityNext
    /\ UNCHANGED <<part, taken, gates, flowVars, contentVars, ragVars, insightVars>>
RagStep ==
    /\ part = "rag" /\ RagNext
    /\ UNCHANGED <<part, taken, gates, flowVars, contentVars, visibilityVars, insightVars>>
InsightStep ==
    /\ part = "insight" /\ InsightNext
    /\ UNCHANGED <<part, taken, gates, flowVars, contentVars, visibilityVars, ragVars>>
SalesAgentStep ==
    part = "agent" /\ Agent!AgentNext /\ UNCHANGED <<part, own>>
ChatStreamStep ==
    part = "chat" /\ Chat!ChatNext /\ UNCHANGED <<part, own, From6>>
ShopReportsStep ==
    part = "reports" /\ Rep!ReportNext /\ UNCHANGED <<part, own, From5>>
ReturnAdviceStep ==
    part = "advice" /\ Advice!Next /\ UNCHANGED <<part, own, From7>>
EnrichmentStep ==
    part = "enrich" /\ Enr!EnrichNext /\ UNCHANGED <<part, own, From10>>

Next == \/ MarketingFlowStep
        \/ SalesAgentStep
        \/ ChatStreamStep
        \/ ContentStep
        \/ VisibilityStep
        \/ TryOnStep
        \/ LLMRouterStep
        \/ MetricsStep
        \/ GatewayStep
        \/ RagStep
        \/ InsightStep
        \/ ShopReportsStep
        \/ ReturnAdviceStep
        \/ EnrichmentStep

Spec == Init /\ [][Next]_vars

ASSUME ServiceConstants ==
    /\ RouterConstants /\ TryOnConstants /\ MetricsConstants /\ GatewayConstants
    /\ FlowsConstants /\ ContentConstants /\ VisibilityConstants
    /\ RagConstants /\ InsightConstants

-----------------------------------------------------------------------------
\* The type invariant of each component.
TypeOK ==
    /\ part = "flows" => FlowsTypeOK
    /\ part = "agent" => Agent!TypeOK
    /\ part = "chat" => Chat!TypeOK
    /\ part = "content" => ContentTypeOK
    /\ part = "visibility" => VisibilityTypeOK
    /\ part = "tryon" => TryOnTypeOK
    /\ part = "router" => RouterTypeOK
    /\ part = "metrics" => MetricsTypeOK
    /\ part = "gateway" => GatewayTypeOK
    /\ part = "rag" => RagTypeOK
    /\ part = "insight" => InsightTypeOK
    /\ part = "reports" => Rep!TypeOK
    /\ part = "advice" => Advice!TypeOK
    /\ part = "enrich" => Enr!TypeOK

\* However requests overlap, a session is one conversation and a signal was said by the
\* customer (salesagent/agent.go, signals.go).
AgentSound == part = "agent" => Agent!AgentSound

\* The browser gets the model's tokens in order, once, and an end or an error
\* (chat.go, storefront_chat.go).
ChatSound == part = "chat" => Chat!ChatSound

\* The tables of a shop's reports add up, whatever rows are missing (supply_insight.go).
ReportsSound == part = "reports" => Rep!ReportsSound

\* What a customer is offered in exchange is active, in stock and not what comes
\* back, the best first; the shares of the reasons add up (exchange.go, returns.go).
AdviceSound == part = "advice" => Advice!AdviceSound

\* A product is enriched by every stage or not at all (webhook_pipeline.go).
EnrichSound == part = "enrich" => Enr!EnrichSound
=============================================================================
