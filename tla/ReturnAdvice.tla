---------------------------- MODULE ReturnAdvice ----------------------------
(***************************************************************************)
(* What the shop is told about its returns: exchange recommendations, on   *)
(* request (exchange.go, Recommend) and for every return that Shopify      *)
(* announces (webhook_return.go and the subscription in server.go), and    *)
(* the breakdown of reasons (returns.go, Analyze and ProductDetail).       *)
(*                                                                         *)
(* Scores are in hundredths and prices in whole units; a product's         *)
(* variants are reduced to the price of its first variant in stock, 0 in   *)
(* stock meaning that none is.                                             *)
(***************************************************************************)
EXTENDS Integers, FiniteSets, Sequences, FiniteSetsExt

CONSTANTS Products,  \* product records a catalogue is made of
          Queries,   \* [product, title, type, price, size]: what is returned
          CatalogSize, TopN, Lines, Reasons, MaxWebhooks

VARIABLES
    catalog,  \* the products of the shop, in the order of the query
    synced,   \* lines of the synced return: line -> [reason, quantity]
    events,   \* return.synced events on the bus
    hooks,    \* webhooks so far
    recs,     \* what exchange_ai_recommendations holds for the return
    answer    \* what the last request was answered: [kind, ...]

vars == <<catalog, synced, events, hooks, recs, answer>>

Nobody == ""
\* The row of an original product that is not found: the zero SyncedProduct.
NoProduct == [id |-> Nobody, title |-> Nobody, vendor |-> Nobody, type |-> Nobody]
\* First() on random primary keys: any of the rows that match.
Find(match(_)) ==
    LET hits == {catalog[i] : i \in {j \in DOMAIN catalog : match(catalog[j])}}
    IN IF hits = {} THEN {NoProduct} ELSE hits

AbsDiff(a, b) == IF a > b THEN a - b ELSE b - a

\* Category, brand and title, then the price: within a tenth, beyond a half.
Heuristic(p, q, orig, category) ==
    LET base == IF q.size /\ p.title = q.title THEN 85
                ELSE IF p.vendor # Nobody /\ p.vendor = orig.vendor THEN 75
                ELSE IF p.type = category THEN 65 ELSE 50
        gap == AbsDiff(p.price, q.price)
        ref == IF q.price = 0 THEN 1 ELSE q.price
    IN IF gap * 10 < ref THEN Min({100, base + 10})
       ELSE IF gap * 2 > ref THEN Max({30, base - 15}) ELSE base

\* What the query of candidates returns, falling back to the whole catalogue.
Candidates(q, category) ==
    LET hit(p) == \/ category = Nobody \/ p.type = category
                  \/ q.size /\ q.title # Nobody /\ p.title = q.title
        active == {i \in DOMAIN catalog : catalog[i].active}
        found == {i \in active : hit(catalog[i])}
    IN IF found = {} THEN active ELSE found

\* The first TopN of the indices, best first; equals in any order (sort.Slice).
Ranked(s, score) ==
    {f \in [1..Cardinality(s) -> s] :
        /\ \A i, j \in DOMAIN f : i < j => f[i] # f[j] /\ score[f[i]] >= score[f[j]]}
\* Seeded bug: the list is cut before it is sorted.
TopWorst(f) == SubSeq(f, 1 + Len(f) - Min({TopN, Len(f)}), Len(f))
Top(f) == SubSeq(f, 1, Min({TopN, Len(f)}))

Init == /\ catalog \in [1..CatalogSize -> Products]
        /\ \A i, j \in 1..CatalogSize : i # j => catalog[i].id # catalog[j].id
        /\ synced = << >>
        /\ events = 0 /\ hooks = 0 /\ recs = {} /\ answer = [kind |-> "none"]

\* handleReturn: upsert of the row, then the event, which may be lost.
Webhook == /\ hooks < MaxWebhooks /\ hooks' = hooks + 1
           /\ synced' \in UNION {[ls -> [reason: Reasons, quantity: 1..2]] : ls \in SUBSET Lines}
           /\ events' \in {events, events + 1}
           /\ UNCHANGED <<catalog, recs, answer>>

\* RecommendForReturn is given the id of the line item for a product, no
\* category and no price: unless the ids meet it finds no original, and scores
\* every product by a blank one.
ForReturn(line, orig) ==
    LET ok == {i \in DOMAIN catalog : /\ catalog[i].active /\ catalog[i].stock > 0
                                      /\ catalog[i].id # line
                                      /\ orig.type \in {Nobody, catalog[i].type}}
        score == [i \in ok |-> IF catalog[i].title = orig.title THEN 85
                               ELSE IF catalog[i].vendor # Nobody /\ catalog[i].vendor = orig.vendor
                               THEN 70 ELSE 50]
        before(i, j) == score[i] > score[j] \/ (score[i] = score[j] /\ i < j)  \* insertion sort
        f == CHOOSE g \in [1..Cardinality(ok) -> ok] :
                 \A i, j \in DOMAIN g : i < j => before(g[i], g[j])
        top == Top(f)
    IN [line |-> line, products |-> [i \in DOMAIN top |-> catalog[top[i]].id],
        confidence |-> IF top = << >> THEN 0 ELSE score[top[1]]]

\* The consumer reads the row as it is now, and stores a row for each line
\* for which there is something to recommend.
Consume == /\ events > 0 /\ events' = events - 1
           /\ \E orig \in [DOMAIN synced -> UNION {Find(LAMBDA p : p.id = l) : l \in Lines}] :
                /\ \A l \in DOMAIN synced : orig[l] \in Find(LAMBDA p : p.id = l)
                /\ recs' = recs \cup {r \in {ForReturn(l, orig[l]) : l \in DOMAIN synced} :
                                        r.products # << >>}
           /\ UNCHANGED <<catalog, synced, hooks, answer>>

\* enhanceWithLLM: the model grades some of the candidates; without a provider,
\* or when its answer does not parse, none.
Grades(ok) == UNION {[judged -> {0, 100}] : judged \in SUBSET ok}

\* Recommend: candidates in stock other than the product returned, scored by
\* the heuristic and then by whatever the model says of some of them.
Recommend(q) ==
  /\ answer.kind = "none"   \* bound: one answer is looked at
  /\ \E orig \in Find(LAMBDA p : p.id = q.product \/ p.title = q.title) :
    LET category == IF q.type = Nobody THEN orig.type ELSE q.type
        ok == {i \in Candidates(q, category) : catalog[i].id # q.product /\ catalog[i].stock > 0}
    IN \E grade \in Grades(ok) :
         LET score == [i \in ok |-> IF i \in DOMAIN grade THEN grade[i]
                                    ELSE Heuristic(catalog[i], q, orig, category)]
         IN \E f \in Ranked(ok, score) :
              /\ answer' = [kind |-> "exchange", q |-> q, score |-> score, list |-> Top(f)]
              /\ UNCHANGED <<catalog, synced, events, hooks, recs>>

\* Tenths of a percent, rounded to the nearest.
Percent(n, total) == IF total = 0 THEN 0 ELSE (2000 * n + total) \div (2 * total)
\* Rows of return_items count one each, synced lines by their quantity.
Analyze ==
    /\ answer.kind = "none"
    /\ \E rows \in [Reasons -> 0..2] :
      LET count == [reason \in Reasons |->
                      rows[reason] + MapThenSumSet(LAMBDA l : synced[l].quantity,
                                        {l \in DOMAIN synced : synced[l].reason = reason})]
          named == {reason \in Reasons : count[reason] > 0}
          total == MapThenSumSet(LAMBDA reason : count[reason], named)
      IN \E f \in Ranked(named, count) :
           /\ answer' = [kind |-> "reasons",
                         list |-> [i \in DOMAIN f |-> [reason |-> f[i], count |-> count[f[i]],
                                                       pct |-> Percent(count[f[i]], total)]]]
           /\ UNCHANGED <<catalog, synced, events, hooks, recs>>

Next == Webhook \/ Consume \/ Analyze \/ \E q \in Queries : Recommend(q)

Spec == Init /\ [][Next]_vars

TypeOK == /\ catalog \in [1..CatalogSize -> Products]
          /\ DOMAIN synced \subseteq Lines
          /\ events \in 0..MaxWebhooks /\ hooks \in 0..MaxWebhooks
          /\ \A r \in recs : r.line \in Lines /\ r.confidence \in {50, 70, 85}

\* A customer is offered only active products in stock, never the one that is
\* coming back, best first, and none is left out for a worse one.
ExchangeSound ==
    answer.kind = "exchange" =>
      /\ \A i \in DOMAIN answer.list :
           LET p == catalog[answer.list[i]] IN p.active /\ p.stock > 0 /\ p.id # answer.q.product
      /\ \A i \in DOMAIN answer.score, j \in DOMAIN answer.list :
           answer.score[i] > answer.score[answer.list[j]] => \E k \in 1..(j - 1) : answer.list[k] = i
      /\ Len(answer.list) = Min({TopN, Cardinality(DOMAIN answer.score)})
\* The shares of a breakdown add up to a hundred percent, but for half a tenth
\* of a percent for each reason.
SharesAddUp ==
    (answer.kind = "reasons" /\ answer.list # << >>) =>
      AbsDiff(MapThenSumSet(LAMBDA i : answer.list[i].pct, DOMAIN answer.list), 1000) * 2
        <= Len(answer.list)
AdviceSound == ExchangeSound /\ SharesAddUp
=============================================================================
