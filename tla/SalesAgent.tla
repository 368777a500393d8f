----------------------------- MODULE SalesAgent -----------------------------
(***************************************************************************)
(* The sales agent of a storefront (service/salesagent): one customer's    *)
(* messages, each served by a request of its own, share one session in     *)
(* Redis that is read at the start and written whole at the end.  Between  *)
(* them a language model, which decides everything, answers or calls       *)
(* tools.  Shops without a paid plan get a plain answer (handler/          *)
(* storefront_chat.go); the plan is cached in memory.                      *)
(***************************************************************************)
EXTENDS Integers, Sequences, FiniteSets

CONSTANTS Turns,         \* requests of the customer
          Messages,      \* what may be said: [objects, size, buys, asks]
          Products, Sizes,  \* catalogue: Sizes[p], the sizes p comes in
          MaxIterations, HistoryMax, SearchLimit,  \* 5, 20 and 5 in the code
          PlanTTL,       \* life of a cached plan, in ticks
          Budgets, MaxFailures   \* bounds: [turns, plans, ticks, stock] of a behaviour

VARIABLES
    plan, cached, freeFor,  \* the shop's plan; its copy [plan, age]; ticks since it was paid for
    stock,      \* stock[p]: quantity in the product's row
    session,    \* the session in Redis: NoSession or [history, prefs, discussed, stage]
    turn,       \* turn[t]: [pc, msg, sess, tools, cards, code, out, gone]
    published,  \* signals sent to the bus: [turn, type, size]
    overlaps,   \* two requests have been open at once
    plans, ticks, failures,   \* counted for the bounds
    budget      \* the bounds of this behaviour

agentVars == <<plan, cached, freeFor, stock, session, turn, published, overlaps, plans, ticks,
               failures, budget>>
shopVars == <<plan, cached, freeFor, plans, ticks, budget>>

NoSession == [stage |-> ""]
NewSession == [history |-> <<>>, prefs |-> [size |-> "", sensitive |-> FALSE, intent |-> FALSE],
               discussed |-> <<>>, stage |-> "greeting"]
NoMessage == [objects |-> FALSE, size |-> "", buys |-> FALSE, asks |-> FALSE]
IdleTurn == [pc |-> "idle", msg |-> NoMessage, sess |-> NewSession, tools |-> 0, cards |-> <<>>,
             code |-> FALSE, out |-> <<>>, gone |-> FALSE]
NoPlan == [plan |-> ""]
Said(m) == [role |-> "user", msg |-> m]
Reply(link, code) == [role |-> "assistant", call |-> FALSE, link |-> link, code |-> code]
Call == [role |-> "assistant", call |-> TRUE, link |-> FALSE, code |-> FALSE]
Result(ps) == [role |-> "tool", products |-> ps]
Last(s) == s[Len(s)]
Elems(s) == {s[i] : i \in 1..Len(s)}

AgentInit ==
    /\ plan \in {"free", "pro"} /\ cached = NoPlan /\ freeFor = 0
    /\ stock \in [Products -> {0, 1}]
    /\ session = NoSession /\ turn = [t \in Turns |-> IdleTurn] /\ published = {}
    /\ overlaps = FALSE /\ plans = 0 /\ ticks = 0 /\ failures = 0 /\ budget \in Budgets

Fail == failures < MaxFailures /\ failures' = failures + 1
Open == {t \in Turns : turn[t].pc \notin {"idle", "ended"}}
Started == {t \in Turns : turn[t].pc # "idle"}

--------------------------------------------------------------------------
\* The shop pays, or stops to; time passes; a synchronisation stores a quantity, and a
\* product webhook stores variants that have none.
SetPlan(p) ==
    /\ plans < budget.plans /\ p # plan /\ plan' = p /\ plans' = plans + 1 /\ freeFor' = 0
    /\ UNCHANGED <<cached, stock, session, turn, published, overlaps, ticks, failures, budget>>
Tick == /\ ticks < budget.ticks /\ ticks' = ticks + 1
        /\ freeFor' = IF plan = "free" THEN freeFor + 1 ELSE 0
        /\ cached' = IF cached # NoPlan /\ cached.age < PlanTTL THEN [cached EXCEPT !.age = @ + 1]
                     ELSE NoPlan
        /\ UNCHANGED <<plan, stock, session, turn, published, overlaps, plans, failures, budget>>
StockChanges(p, n) ==
    /\ budget.stock /\ stock[p] # n /\ stock' = [stock EXCEPT ![p] = n]
    /\ UNCHANGED <<shopVars, session, turn, published, overlaps, failures>>

\* Stream: isProPlan, then the session is loaded; when Redis does not answer a new one
\* is begun.
PlanOf == IF cached # NoPlan THEN cached ELSE [plan |-> plan, age |-> 0]
Stream(t, m) ==
    /\ turn[t].pc = "idle" /\ Cardinality(Started) < budget.turns
    /\ \/ /\ cached' = PlanOf
          /\ LET paid == cached'.plan = "pro" IN
             \/ ~paid /\ turn' = [turn EXCEPT ![t] = [IdleTurn EXCEPT !.pc = "ended", !.msg = m,
                                                                      !.out = <<"answer">>]]
                      /\ UNCHANGED <<failures, overlaps>>
             \/ /\ paid /\ \/ turn' = [turn EXCEPT ![t] = [IdleTurn EXCEPT !.pc = "llm", !.msg = m,
                                     !.sess = IF session = NoSession THEN NewSession ELSE session]]
                              /\ UNCHANGED failures
                           \/ Fail /\ turn' = [turn EXCEPT ![t] = [IdleTurn EXCEPT !.pc = "llm",
                                                                                   !.msg = m]]
                /\ overlaps' = (overlaps \/ Open # {})
       \/ /\ cached = NoPlan /\ Fail /\ UNCHANGED <<cached, overlaps>>
          /\ turn' = [turn EXCEPT ![t] = [IdleTurn EXCEPT !.pc = "ended", !.msg = m,
                                                          !.out = <<"answer">>]]
    /\ UNCHANGED <<plan, freeFor, stock, session, published, plans, ticks, budget>>

--------------------------------------------------------------------------
\* searchProducts: at most SearchLimit matching rows, then those of them with stock,
\* ranked by what the session knows of the customer.
Score(p, prefs) == IF prefs.size # "" /\ prefs.size \in Sizes[p] THEN 3 ELSE 0
Rankings(found, prefs) ==
    {s \in [1..Cardinality(found) -> found] :
        /\ Elems(s) = found
        /\ \A i, j \in DOMAIN s : i < j => Score(s[i], prefs) >= Score(s[j], prefs)}
AppendUnique(s, x) == IF x \in Elems(s) THEN s ELSE Append(s, x)
AppendAll(s, xs) == LET done[i \in 0..Len(xs)] == IF i = 0 THEN s ELSE AppendUnique(done[i - 1], xs[i])
                    IN done[Len(xs)]

CanCall(t) == turn[t].pc = "llm" /\ turn[t].tools < MaxIterations /\ ~turn[t].gone
\* A tool's result enters the history behind the call. get_session and the tools that
\* only report change nothing else; a failed one leaves a line that says so.
AfterCall(t, sess, products) ==
    [turn[t] EXCEPT !.tools = @ + 1,
                    !.sess = [sess EXCEPT !.history = @ \o <<Call, Result(products)>>]]
SearchProducts(t) ==
    /\ CanCall(t)
    /\ \E rows \in SUBSET Products : \E r \in Rankings({p \in rows : stock[p] > 0}, turn[t].sess.prefs) :
          /\ Cardinality(rows) = (IF Cardinality(Products) < SearchLimit THEN Cardinality(Products)
                                  ELSE SearchLimit)
          /\ turn' = [turn EXCEPT ![t] =
                [AfterCall(t, [turn[t].sess EXCEPT !.discussed = AppendAll(@, r),
                                                   !.stage = "recommendation"], r)
                 EXCEPT !.cards = AppendAll(@, r)]]
    /\ UNCHANGED <<shopVars, stock, session, published, overlaps, failures>>
\* generateLink; generateDiscount hands out the one informational code, since the token
\* it tests is a constant.
GenerateLink(t) ==
    /\ CanCall(t) /\ turn' = [turn EXCEPT ![t] = AfterCall(t, [turn[t].sess EXCEPT !.stage = "closing"], <<>>)]
    /\ UNCHANGED <<shopVars, stock, session, published, overlaps, failures>>
GenerateDiscount(t) ==
    /\ CanCall(t) /\ turn' = [turn EXCEPT ![t] = [AfterCall(t, turn[t].sess, <<>>) EXCEPT !.code = TRUE]]
    /\ UNCHANGED <<shopVars, stock, session, published, overlaps, failures>>
OtherTool(t) ==
    /\ CanCall(t) /\ turn' = [turn EXCEPT ![t] = AfterCall(t, turn[t].sess, <<>>)]
    /\ UNCHANGED <<shopVars, stock, session, published, overlaps, failures>>

--------------------------------------------------------------------------
\* extractSignals reads every message of the customer that the session still has, and
\* the current one once more: it stands in the history by then. Of the sizes the first
\* counts.
UserMessages(sess, m) == SelectSeq(sess.history, LAMBDA h : h.role = "user") \o <<Said(m)>>
SizeOf(said) == LET sized == {i \in 1..Len(said) : said[i].msg.size # ""} IN
    IF sized = {} THEN "" ELSE said[CHOOSE i \in sized : \A j \in sized : i <= j].msg.size
Signals(sess, m, reply) ==
    LET said == UserMessages(sess, m)
        any(P(_)) == \E i \in 1..Len(said) : P(said[i].msg) IN
    (IF any(LAMBDA x : x.objects) THEN {"price_objection"} ELSE {})
    \cup (IF SizeOf(said) # "" THEN {"size_preference"} ELSE {})
    \cup (IF m.buys THEN {"purchase_signal"} ELSE {})
    \cup (IF m.buys /\ ~reply.link THEN {"intent_high_no_purchase"} ELSE {})
    \cup (IF any(LAMBDA x : x.asks) \/ reply.code THEN {"discount_request"} ELSE {})
\* applySignalsToSession
Apply(prefs, sigs, size) ==
    [size |-> IF "size_preference" \in sigs THEN size ELSE prefs.size,
     sensitive |-> prefs.sensitive \/ "price_objection" \in sigs,
     intent |-> prefs.intent \/ "purchase_signal" \in sigs]

\* The final answer, streamed as it comes: the end is written, the pair enters the
\* history, the signals are sent.
\* Seeded bug: the question is in the history before the model is called.
PairUserFirst(history, m, reply) == <<Said(m)>> \o history \o <<reply>>
Pair(history, m, reply) == history \o <<Said(m), reply>>
Answer(t, link, code) ==
    LET reply == Reply(link, code)
        held == [turn[t].sess EXCEPT !.history = Pair(@, turn[t].msg, reply)]
        sigs == Signals(held, turn[t].msg, reply)
        size == SizeOf(UserMessages(held, turn[t].msg)) IN
    /\ CanCall(t) /\ (code => turn[t].code)
    /\ turn' = [turn EXCEPT ![t].pc = "save", ![t].out = @ \o <<"tokens", "done">>,
                            ![t].sess = [held EXCEPT !.prefs = Apply(@, sigs, size)]]
    /\ published' = published \cup {[turn |-> t, type |-> s,
                                     size |-> IF s = "size_preference" THEN size ELSE ""] : s \in sigs}
    /\ UNCHANGED <<shopVars, stock, session, overlaps, failures>>
\* The model fails before or in the middle of its answer, or has called tools for too
\* long: an apology is written, the session is saved without the question.
Apologise(t) ==
    /\ turn[t].pc = "llm" /\ ~turn[t].gone
    /\ \/ turn[t].tools = MaxIterations /\ turn' = [turn EXCEPT ![t].pc = "sorry"] /\ UNCHANGED failures
       \/ /\ turn[t].tools < MaxIterations /\ Fail
          /\ \E sofar \in {<<>>, <<"tokens">>} :
                turn' = [turn EXCEPT ![t].pc = "sorry", ![t].out = @ \o sofar]
    /\ UNCHANGED <<shopVars, stock, session, published, overlaps>>

\* saveAgentSession keeps the last HistoryMax lines; the error of a failed write is dropped.
Trim(sess) == LET n == Len(sess.history) IN
    IF n <= HistoryMax THEN sess
    ELSE [sess EXCEPT !.history = SubSeq(@, n - HistoryMax + 1, n)]
SaveAgentSession(t) ==
    /\ turn[t].pc \in {"save", "sorry"}
    /\ \/ ~turn[t].gone /\ session' = Trim(turn[t].sess) /\ UNCHANGED failures
       \/ turn[t].gone /\ UNCHANGED <<session, failures>>
       \/ ~turn[t].gone /\ Fail /\ UNCHANGED session
    /\ turn' = [turn EXCEPT ![t].pc = "ended",
                            ![t].out = IF turn[t].pc = "sorry" THEN @ \o <<"sorry", "done">> ELSE @]
    /\ UNCHANGED <<shopVars, stock, published, overlaps>>
\* The customer closes the page: the request's context ends, and with it every call
\* that uses it; the loop returns without saving.
Disconnect(t) ==
    /\ t \in Open /\ ~turn[t].gone /\ Fail
    /\ turn' = [turn EXCEPT ![t].gone = TRUE, ![t].pc = IF @ = "llm" THEN "ended" ELSE @]
    /\ UNCHANGED <<shopVars, stock, session, published, overlaps>>
SessionExpires == /\ session # NoSession /\ ticks > 0 /\ Fail /\ session' = NoSession
                  /\ UNCHANGED <<shopVars, stock, turn, published, overlaps>>

AgentNext ==
    \/ \E p \in {"free", "pro"} : SetPlan(p)
    \/ Tick \/ SessionExpires
    \/ \E p \in Products, n \in {0, 1} : StockChanges(p, n)
    \/ \E t \in Turns : \/ \E m \in Messages : Stream(t, m)
                        \/ SearchProducts(t) \/ GenerateLink(t) \/ GenerateDiscount(t) \/ OtherTool(t)
                        \/ \E link, code \in BOOLEAN : Answer(t, link, code)
                        \/ Apologise(t) \/ SaveAgentSession(t) \/ Disconnect(t)

Spec == AgentInit /\ [][AgentNext]_agentVars

--------------------------------------------------------------------------
TypeOK == /\ plan \in {"free", "pro"} /\ stock \in [Products -> {0, 1}]
          /\ \A t \in Turns : turn[t].pc \in {"idle", "llm", "save", "sorry", "ended"}
          /\ ticks \in 0..budget.ticks /\ plans \in 0..budget.plans /\ failures \in 0..MaxFailures

\* However requests overlap, what is stored is one conversation: a question is followed
\* at once by its answer, a call by its result, and no more is kept than the prompt may hold.
WellFormed(h) == \A i \in 1..(Len(h) - 1) :
    /\ h[i].role = "user" => h[i + 1].role = "assistant" /\ ~h[i + 1].call
    /\ h[i].role = "assistant" /\ h[i].call => h[i + 1].role = "tool"
OneConversation == session # NoSession =>
    /\ WellFormed(session.history) /\ Len(session.history) <= HistoryMax
    /\ session.history # <<>> => Last(session.history).role # "user"
\* Requests one after the other lose nothing: the last answered question is in the
\* session, unless a failure or the limit on the history took it.
NothingLost == ~overlaps /\ failures = 0 => \A t \in Turns :
    turn[t].pc = "ended" /\ "done" \in Elems(turn[t].out) /\ "sorry" \notin Elems(turn[t].out)
        /\ Len(session.history) < HistoryMax => Said(turn[t].msg) \in Elems(session.history)
\* A customer who stays gets exactly one end, behind everything else.
EndsOnce == \A t \in Turns : turn[t].pc = "ended" /\ ~turn[t].gone /\ turn[t].out # <<"answer">> =>
    /\ Last(turn[t].out) = "done"
    /\ Cardinality({i \in 1..Len(turn[t].out) : turn[t].out[i] = "done"}) = 1
\* The cards shown are products the session remembers, each once; the tools were
\* called MaxIterations times at most.
CardsRemembered == \A t \in Turns :
    /\ Elems(turn[t].cards) \subseteq Elems(turn[t].sess.discussed)
    /\ Cardinality(Elems(turn[t].cards)) = Len(turn[t].cards) /\ turn[t].tools <= MaxIterations
\* No signal without words of the customer: an objection or a size was said in a
\* question of this or of an earlier request, a purchase in this one's.
SignalsFounded == \A s \in published :
    /\ s.type = "price_objection" => \E t \in Started : turn[t].msg.objects
    /\ s.type = "size_preference" => \E t \in Started : turn[t].msg.size = s.size
    /\ s.type \in {"purchase_signal", "intent_high_no_purchase"} => turn[s.turn].msg.buys
\* A shop that stopped paying is served by the agent while the copy of its plan lives
\* and no longer.
PlanExpires == cached # NoPlan /\ cached.plan = "pro" => freeFor <= cached.age /\ cached.age <= PlanTTL
AgentSound == PlanExpires /\ OneConversation /\ NothingLost /\ EndsOnce /\ CardsRemembered /\ SignalsFounded
=============================================================================
