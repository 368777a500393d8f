----------------------------- MODULE ChatStream -----------------------------
(***************************************************************************)
(* A streamed chat answer: a goroutine (service/dashscope.go) reads the    *)
(* model's response and feeds a channel of ten places, a handler empties   *)
(* it towards the browser.  Three handlers do: the product chat, the       *)
(* merchant's chat and the sales agent.  The other chat endpoints answer   *)
(* in one piece.  What was answered is announced on the event bus by       *)
(* another goroutine, which borrows the request's context.                 *)
(***************************************************************************)
EXTENDS Integers, Sequences, FiniteSets

CONSTANTS Requests,   \* requests in flight
          Kinds,      \* "product", "merchant", "agent": who empties the channel
          Endpoints,  \* "ask", "adminAsk", "summary", "storefront", "suggest", "storefrontSuggest"
          Capacity,   \* places in the channel, 10 in the code
          MaxTokens   \* bound: length of an answer

VARIABLES
    req,    \* req[r]: [kind, pc, gone, got, event]; pc is "idle", "stream" or "ended"
    model,  \* model[r]: tokens the model still has to send, the last of 1, 2, ... MaxTokens
    prod,   \* prod[r]: [pc, buf, lost], the goroutine and what it has read and not yet passed on
    chan,   \* chan[r]: the channel
    bus     \* announcements that reached the bus: [req, answer, success]

chatVars == <<req, model, prod, chan, bus>>

Token(i) == [type |-> "token", n |-> i]
Finish == [type |-> "finish", n |-> 0]
Error == [type |-> "error", n |-> 0]
NoEvent == [pc |-> "none"]
Idle == [kind |-> "", pc |-> "idle", gone |-> FALSE, got |-> <<>>, event |-> NoEvent]
TokensOf(s) == SelectSeq(s, LAMBDA c : c.type = "token")
Increasing(s) == \A i, j \in 1..Len(s) : i < j => s[i].n < s[j].n

ChatInit == /\ req = [r \in Requests |-> Idle] /\ model = [r \in Requests |-> 0]
            /\ prod = [r \in Requests |-> [pc |-> "none", buf |-> <<>>, lost |-> FALSE]]
            /\ chan = [r \in Requests |-> <<>>] /\ bus = {}

\* PublishAIEvent starts a goroutine and returns.
\* Seeded bug: the announcement of a stream has not got the whole answer.
EventWithoutLast(got, success) ==
    [pc |-> "pending", answer |-> SubSeq(got, 1, Len(got) - 1), success |-> success]
Event(got, success) == [pc |-> "pending", answer |-> got, success |-> success]

--------------------------------------------------------------------------
\* ChatCompletionStream: an answer of n tokens begins; or the request is refused, and
\* the handler writes an error and ends without an announcement.
Begin(r, kind, n) ==
    /\ req[r].pc = "idle"
    /\ \/ /\ req' = [req EXCEPT ![r].kind = kind, ![r].pc = "stream"]
          /\ model' = [model EXCEPT ![r] = n] /\ prod' = [prod EXCEPT ![r].pc = "read"]
       \/ /\ req' = [req EXCEPT ![r].kind = kind, ![r].pc = "ended", ![r].got = <<Error>>]
          /\ UNCHANGED <<model, prod>>
    /\ UNCHANGED <<chan, bus>>

\* One Read of the response's body. A line that the buffer cuts in two is not
\* recognised in either half, its token is lost; the end of the body ends the answer,
\* whether or not the model had finished; an error ends it after a report.
Sent(r) == MaxTokens - model[r]
Read(r) ==
    /\ prod[r].pc = "read"
    /\ \/ \E k \in 1..model[r], cut \in BOOLEAN :
             /\ cut => k < model[r]
             /\ prod' = [prod EXCEPT ![r] = [pc |-> "push",
                                             buf |-> [i \in 1..k |-> Token(Sent(r) + i)],
                                             lost |-> @.lost \/ cut]]
             /\ model' = [model EXCEPT ![r] = @ - k - (IF cut THEN 1 ELSE 0)]
       \/ /\ prod' = [prod EXCEPT ![r] = [pc |-> "last", buf |-> <<Finish>>,
                                          lost |-> @.lost \/ model[r] > 0]]
          /\ UNCHANGED model
       \/ /\ prod' = [prod EXCEPT ![r] = [pc |-> "last", buf |-> <<Error, Finish>>, lost |-> TRUE]]
          /\ UNCHANGED model
    /\ UNCHANGED <<req, chan, bus>>
\* ch <- chunk: there is no other way out of a full channel.
Send(r) ==
    /\ chan' = [chan EXCEPT ![r] = Append(@, Head(prod[r].buf))]
    /\ prod' = [prod EXCEPT ![r].buf = Tail(@),
                            ![r].pc = IF Len(prod[r].buf) > 1 THEN @
                                      ELSE IF @ = "push" THEN "read" ELSE "closed"]
    /\ UNCHANGED <<req, model, bus>>
\* Seeded bug: nobody waits for room in the channel.
PushAtOnce(r) == prod[r].pc \in {"push", "last"} /\ prod[r].buf # <<>> /\ Send(r)
Push(r) ==
    /\ prod[r].pc \in {"push", "last"} /\ prod[r].buf # <<>> /\ Len(chan[r]) < Capacity
    /\ Send(r)

\* The loop over the channel. Product and merchant chat go on writing to a browser that
\* has left, and announce what they wrote; the agent leaves at once.
End(r, got) == [req[r] EXCEPT !.pc = IF req[r].kind = "agent" THEN "ended" ELSE "tail", !.got = got,
                              !.event = IF req[r].kind = "agent" THEN NoEvent
                                        ELSE Event(TokensOf(got), TRUE)]
Receive(r) ==
    /\ req[r].pc = "stream" /\ ~(req[r].kind = "agent" /\ req[r].gone)
    /\ chan[r] # <<>> /\ chan' = [chan EXCEPT ![r] = Tail(@)]
    /\ req' = [req EXCEPT ![r] = IF Head(chan[r]).type = "token" THEN [@ EXCEPT !.got = Append(@, Head(chan[r]))]
                                 ELSE End(r, Append(req[r].got, Head(chan[r])))]
    /\ UNCHANGED <<model, prod, bus>>
AgentLeaves(r) ==
    /\ req[r].pc = "stream" /\ req[r].kind = "agent" /\ req[r].gone
    /\ req' = [req EXCEPT ![r].pc = "ended"] /\ UNCHANGED <<model, prod, chan, bus>>
\* The last lines are written, the handler returns and its context ends.
Return(r) == /\ req[r].pc = "tail" /\ req' = [req EXCEPT ![r].pc = "ended"]
             /\ UNCHANGED <<model, prod, chan, bus>>
Disconnect(r) == /\ req[r].pc \in {"stream", "tail"} /\ ~req[r].gone
                 /\ req' = [req EXCEPT ![r].gone = TRUE] /\ UNCHANGED <<model, prod, chan, bus>>
\* bus.Publish in the goroutine: without a live context it fails.
Publish(r) ==
    /\ req[r].event.pc = "pending"
    /\ req' = [req EXCEPT ![r].event.pc = "over"]
    /\ bus' = IF req[r].pc = "tail" /\ ~req[r].gone
              THEN bus \cup {[req |-> r, answer |-> req[r].event.answer, success |-> req[r].event.success]}
              ELSE bus
    /\ UNCHANGED <<model, prod, chan>>

--------------------------------------------------------------------------
\* The answers in one piece: what the browser is given for what the provider and the
\* model do, and what is announced of it.
Outcomes == {"ok", "noProvider", "noAnswer", "notJSON"}
AnswerQuestion(o) == IF o = "noAnswer" THEN "apology" ELSE "answer"
SuggestQuestions(o) == IF o \in {"noAnswer", "notJSON"} THEN "canned" ELSE "answer"
ChatAsk(o) == IF o = "noProvider" THEN [got |-> "error", event |-> FALSE]
              ELSE [got |-> AnswerQuestion(o), event |-> TRUE]
AdminAsk(o) == IF o \in {"noProvider", "noAnswer"} THEN [got |-> "error", event |-> FALSE]
               ELSE [got |-> "answer", event |-> TRUE]
AskSummary(o) == [got |-> IF o \in {"noProvider", "noAnswer"} THEN "canned" ELSE "answer", event |-> TRUE]
StorefrontStream(o) == [got |-> IF o = "noProvider" THEN "error" ELSE AnswerQuestion(o), event |-> FALSE]
ChatSuggest(o) == [got |-> IF o = "noProvider" THEN "error" ELSE SuggestQuestions(o), event |-> FALSE]
StorefrontSuggest(o) == [got |-> IF o = "noProvider" THEN "canned" ELSE SuggestQuestions(o), event |-> FALSE]
Answers(e, o) == CASE e = "ask" -> ChatAsk(o) [] e = "adminAsk" -> AdminAsk(o)
                   [] e = "summary" -> AskSummary(o) [] e = "storefront" -> StorefrontStream(o)
                   [] e = "suggest" -> ChatSuggest(o) [] OTHER -> StorefrontSuggest(o)
Ask(r, e, o) ==
    LET a == Answers(e, o) IN
    /\ req[r].pc = "idle"
    /\ req' = [req EXCEPT ![r] = [kind |-> e, pc |-> "tail", gone |-> FALSE, got |-> <<[type |-> a.got, n |-> 0]>>,
                                  event |-> IF a.event THEN Event(<<[type |-> a.got, n |-> 0]>>, TRUE)
                                            ELSE NoEvent]]
    /\ UNCHANGED <<model, prod, chan, bus>>

ChatNext ==
    \E r \in Requests :
        \/ \E k \in Kinds, n \in 0..MaxTokens : Begin(r, k, n)
        \/ \E e \in Endpoints, o \in Outcomes : Ask(r, e, o)
        \/ Read(r) \/ Push(r) \/ Receive(r) \/ AgentLeaves(r) \/ Return(r) \/ Disconnect(r) \/ Publish(r)

Spec == ChatInit /\ [][ChatNext]_chatVars

--------------------------------------------------------------------------
TypeOK == \A r \in Requests :
    /\ req[r].pc \in {"idle", "stream", "tail", "ended"} /\ model[r] \in 0..MaxTokens
    /\ prod[r].pc \in {"none", "read", "push", "last", "closed"} /\ Len(chan[r]) <= Capacity

\* What the browser got, what waits in the channel and what the goroutine holds is the
\* model's answer in its order, without a token twice; and without a cut line or a broken
\* connection it is complete when the handler ends by itself.
InOrder == \A r \in Requests : req[r].kind \in Kinds =>
    LET all == TokensOf(req[r].got) \o TokensOf(chan[r]) \o TokensOf(prod[r].buf) IN
    /\ Increasing(all)
    /\ ~prod[r].lost => /\ \A i \in 1..(Len(all) - 1) : all[i + 1].n = all[i].n + 1
                        /\ all # <<>> => all[Len(all)].n = Sent(r)
    /\ req[r].pc \in {"tail", "ended"} /\ prod[r].pc # "none" /\ ~req[r].gone /\ ~prod[r].lost
          => model[r] = 0 /\ chan[r] = <<>>
\* A goroutine stays behind at a full channel only when the agent's customer has left.
NoneStranded == \A r \in Requests :
    req[r].pc \in {"tail", "ended"} /\ prod[r].buf # <<>> /\ Len(chan[r]) = Capacity
        => req[r].kind = "agent" /\ req[r].gone
\* An announcement tells what the browser was sent, without the line of an error, and
\* none is made of a request that was refused.
AnnouncedTrue == \A b \in bus :
    /\ b.answer = SelectSeq(req[b.req].got, LAMBDA c : c.type \notin {"finish", "error"})
    /\ \A i \in 1..Len(b.answer) : b.answer[i].type # "error"
ChatSound == InOrder /\ NoneStranded /\ AnnouncedTrue
=============================================================================
