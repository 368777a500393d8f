------------------------------ MODULE EventBus ------------------------------
(***************************************************************************)
(* The Redis Streams event bus of internal/platform/eventbus/bus.go.       *)
(*                                                                         *)
(* Every event type has one stream and every process that runs the engine  *)
(* joins the one consumer group "eventbus:group:vela-core" with a consumer *)
(* of its own.  An event is named by its stream and its position in it, so *)
(* what XREADGROUP hands out is an interval of positions.  Redis (the      *)
(* streams, the group cursor, the pending entries list) outlives the       *)
(* processes; the consumers are lost with theirs.                          *)
(***************************************************************************)
EXTENDS Integers, FiniteSets

CONSTANTS
    Process,      \* running copies of the engine
    EventType,    \* the event types, one stream each
    MaxEvents,    \* bound: events ever published to one stream
    MaxLen,       \* MAXLEN of XADD
    ReadCount,    \* COUNT of XREADGROUP
    Handlers,     \* Handlers[t]: how many handlers are subscribed to t
    MaxHandlers,  \* bound: handlers of one type
    Undecodable,  \* Undecodable[t]: entries whose body is not an event
    MaxRestarts,  \* bound: restarts of one process
    GroupMayFail  \* may XGROUP CREATE fail for another reason than BUSYGROUP

ASSUME SizesAssumption == /\ MaxEvents \in Nat
                          /\ MaxLen \in Nat \ {0}
                          /\ ReadCount \in Nat \ {0}
                          /\ MaxRestarts \in Nat
                          /\ MaxHandlers \in Nat
                          /\ GroupMayFail \in BOOLEAN
ASSUME HandlersAssumption == Handlers \in [EventType -> 0 .. MaxHandlers]
ASSUME UndecodableAssumption ==
    Undecodable \in [EventType -> SUBSET (1 .. MaxEvents)]

VARIABLES
    last,       \* last[t]: events appended to the stream so far
    first,      \* first[t]: oldest position XADD has not trimmed
    group,      \* group[t]: the consumer group exists
    cursor,     \* cursor[t]: the group's last-delivered position
    pending,    \* pending[t]: delivered and not acknowledged (the PEL)
    acked,      \* acked[t]: acknowledged positions
    runs,       \* runs[t][n][k]: times handler k was called with event n
    succeeded,  \* succeeded[t][n]: handlers that returned nil for event n
    phase,      \* phase[p]: how far process p is in its life
    started,    \* started[p]: redisEventBus.started
    toStart,    \* toStart[p]: snapshot entries StartConsumers has not reached
    consumer,   \* consumer[p][t]: the streamConsumer of p for t
    stopped,    \* stopped[p]: types whose consumer's stopCh is closed
    restarts    \* restarts[p]: how often p was started again

redis == <<last, first, group, cursor, pending, acked>>
effects == <<runs, succeeded>>
process == <<phase, started, toStart, stopped, restarts>>
vars == <<redis, effects, process, consumer>>

Id == 1 .. MaxEvents
HandlerNo == 1 .. MaxHandlers

(***************************************************************************)
(* A consumer: pc is where its goroutine is, at .. hi is what is left of   *)
(* the batch it read, next is the handler due for event at.  "listed" is a *)
(* consumer in b.consumers whose goroutine has not been launched yet.      *)
(***************************************************************************)
NoConsumer == [pc |-> "none", at |-> 1, hi |-> 0, next |-> 1]

Pc == {"none", "listed", "create", "poll", "read", "batch", "handler", "exited"}

Subscribed == {t \in EventType : Handlers[t] > 0}

RedisTypeOK ==
    /\ last \in [EventType -> 0 .. MaxEvents]
    /\ first \in [EventType -> 1 .. (MaxEvents + 1)]
    /\ group \in [EventType -> BOOLEAN]
    /\ cursor \in [EventType -> 0 .. MaxEvents]
    /\ pending \in [EventType -> SUBSET Id]
    /\ acked \in [EventType -> SUBSET Id]

EffectsTypeOK ==
    /\ runs \in [EventType -> [Id -> [HandlerNo -> Nat]]]
    /\ succeeded \in [EventType -> [Id -> Nat]]

ProcessTypeOK ==
    /\ phase \in [Process -> {"up", "closing", "closed", "timedout", "down"}]
    /\ started \in [Process -> BOOLEAN]
    /\ toStart \in [Process -> SUBSET EventType]
    /\ stopped \in [Process -> SUBSET EventType]
    /\ restarts \in [Process -> 0 .. MaxRestarts]

Consumer == [pc : Pc, at : Nat, hi : Nat, next : Nat]

ConsumerTypeOK == consumer \in [Process -> [EventType -> Consumer]]

TypeOK == RedisTypeOK /\ EffectsTypeOK /\ ProcessTypeOK /\ ConsumerTypeOK

Init ==
    /\ last = [t \in EventType |-> 0]
    /\ first = [t \in EventType |-> 1]
    /\ group = [t \in EventType |-> FALSE]
    /\ cursor = [t \in EventType |-> 0]
    /\ pending = [t \in EventType |-> {}]
    /\ acked = [t \in EventType |-> {}]
    /\ runs = [t \in EventType |-> [n \in Id |-> [k \in HandlerNo |-> 0]]]
    /\ succeeded = [t \in EventType |-> [n \in Id |-> 0]]
    /\ phase = [p \in Process |-> "up"]
    /\ started = [p \in Process |-> FALSE]
    /\ toStart = [p \in Process |-> {}]
    /\ consumer = [p \in Process |-> [t \in EventType |-> NoConsumer]]
    /\ stopped = [p \in Process |-> {}]
    /\ restarts = [p \in Process |-> 0]

-----------------------------------------------------------------------------
(* Publishing.  XADD appends and trims "approximately": Redis may keep more *)
(* than MaxLen entries, never fewer.                                        *)

Publish(t) ==
    /\ last[t] < MaxEvents
    /\ last' = [last EXCEPT ![t] = @ + 1]
    /\ \E oldest \in first[t] .. (last[t] + 1) :
          /\ oldest = first[t] \/ oldest + MaxLen <= last[t] + 2
          /\ first' = [first EXCEPT ![t] = oldest]
    /\ UNCHANGED <<group, cursor, pending, acked, effects, process, consumer>>

-----------------------------------------------------------------------------
(* StartConsumers and Close.                                                *)

Goroutine == {"create", "poll", "read", "batch", "handler"}

Running(p, t) == consumer[p][t].pc \in Goroutine

Goto(p, t, where) ==
    consumer' = [consumer EXCEPT ![p][t] = [consumer[p][t] EXCEPT !.pc = where]]

StartConsumers(p) ==
    /\ phase[p] # "down"
    /\ ~started[p]
    /\ started' = [started EXCEPT ![p] = TRUE]
    /\ toStart' = [toStart EXCEPT ![p] = Subscribed]
    /\ UNCHANGED <<redis, effects, phase, stopped, restarts, consumer>>

\* newStreamConsumer, appended to b.consumers under b.mu.
ListConsumer(p, t) ==
    /\ t \in toStart[p]
    /\ \A u \in EventType : consumer[p][u].pc # "listed"
    /\ toStart' = [toStart EXCEPT ![p] = @ \ {t}]
    /\ Goto(p, t, "listed")
    /\ UNCHANGED <<redis, effects, phase, started, stopped, restarts>>

\* consumerWg.Add(1); go consumer.run(ctx), with b.mu released.
LaunchConsumer(p, t) ==
    /\ consumer[p][t].pc = "listed"
    /\ Goto(p, t, "create")
    /\ UNCHANGED <<redis, effects, process>>

Close(p) ==
    /\ phase[p] = "up"
    /\ phase' = [phase EXCEPT ![p] = "closing"]
    /\ stopped' = [stopped EXCEPT ![p] =
                      {t \in EventType : consumer[p][t].pc # "none"}]
    /\ UNCHANGED <<redis, effects, started, toStart, restarts, consumer>>

\* consumerWg.Wait returned before the ten seconds were over.
CloseReturns(p) ==
    /\ phase[p] = "closing"
    /\ \A t \in EventType : ~Running(p, t)
    /\ phase' = [phase EXCEPT ![p] = "closed"]
    /\ UNCHANGED <<redis, effects, started, toStart, stopped, restarts, consumer>>

CloseTimesOut(p) ==
    /\ phase[p] = "closing"
    /\ \E t \in EventType : Running(p, t)
    /\ phase' = [phase EXCEPT ![p] = "timedout"]
    /\ UNCHANGED <<redis, effects, started, toStart, stopped, restarts, consumer>>

\* The process ends: killed at any point, or done after Close.
Die(p) ==
    /\ phase[p] # "down"
    /\ phase' = [phase EXCEPT ![p] = "down"]
    /\ started' = [started EXCEPT ![p] = FALSE]
    /\ toStart' = [toStart EXCEPT ![p] = {}]
    /\ stopped' = [stopped EXCEPT ![p] = {}]
    /\ consumer' = [consumer EXCEPT ![p] = [t \in EventType |-> NoConsumer]]
    /\ UNCHANGED <<redis, effects, restarts>>

Restart(p) ==
    /\ phase[p] = "down"
    /\ restarts[p] < MaxRestarts
    /\ phase' = [phase EXCEPT ![p] = "up"]
    /\ restarts' = [restarts EXCEPT ![p] = @ + 1]
    /\ UNCHANGED <<redis, effects, started, toStart, stopped, consumer>>

-----------------------------------------------------------------------------
(* The consumer goroutine: streamConsumer.run.                              *)

\* Seeded bug: the group starts at "$", after what is already there.
CreateGroupAtEnd(p, t) ==
    /\ consumer[p][t].pc = "create"
    /\ group' = [group EXCEPT ![t] = TRUE]
    /\ cursor' = [cursor EXCEPT ![t] = IF group[t] THEN @ ELSE last[t]]
    /\ Goto(p, t, "poll")
    /\ UNCHANGED <<last, first, pending, acked, effects, process>>

\* Seeded bug: the group is destroyed and created again by every consumer.
CreateGroupAfresh(p, t) ==
    /\ consumer[p][t].pc = "create"
    /\ group' = [group EXCEPT ![t] = TRUE]
    /\ cursor' = [cursor EXCEPT ![t] = 0]
    /\ Goto(p, t, "poll")
    /\ UNCHANGED <<last, first, pending, acked, effects, process>>

\* XGROUP CREATE MKSTREAM from "0"; BUSYGROUP counts as success.
CreateGroup(p, t) ==
    /\ consumer[p][t].pc = "create"
    /\ group' = [group EXCEPT ![t] = TRUE]
    /\ Goto(p, t, "poll")
    /\ UNCHANGED <<last, first, cursor, pending, acked, effects, process>>

\* Any other error ends the goroutine for the rest of the process's life.
CreateGroupFails(p, t) ==
    /\ GroupMayFail
    /\ consumer[p][t].pc = "create"
    /\ Goto(p, t, "exited")
    /\ UNCHANGED <<redis, effects, process>>

\* The top of the loop: the only place where stopCh is looked at.
CheckStop(p, t) ==
    /\ consumer[p][t].pc = "poll"
    /\ Goto(p, t, IF t \in stopped[p] THEN "exited" ELSE "read")
    /\ UNCHANGED <<redis, effects, process>>

Undelivered(t) == {n \in Id : cursor[t] < n /\ first[t] <= n /\ n <= last[t]}

\* Seeded bug: the stream is read from a fixed position, not from ">".
DeliverAgain(t, lo, hi) ==
    /\ lo \in Undelivered(t) /\ hi \in Undelivered(t)
    /\ lo <= hi /\ hi < lo + ReadCount
    /\ pending' = [pending EXCEPT ![t] = @ \union (lo .. hi)]
    /\ UNCHANGED cursor

Deliver(t, lo, hi) ==
    /\ lo \in Undelivered(t) /\ hi \in Undelivered(t)
    /\ lo = cursor[t] + 1 \/ lo = first[t]
    /\ hi = last[t] \/ hi + 1 = lo + ReadCount
    /\ hi < lo + ReadCount
    /\ cursor' = [cursor EXCEPT ![t] = hi]
    /\ pending' = [pending EXCEPT ![t] = @ \union (lo .. hi)]

\* XREADGROUP ">" moves the group's cursor over the batch it returns.
Read(p, t) ==
    /\ consumer[p][t].pc = "read"
    /\ group[t]
    /\ \E lo, hi \in Id :
          /\ Deliver(t, lo, hi)
          /\ consumer' = [consumer EXCEPT ![p][t] =
                             [pc |-> "batch", at |-> lo, hi |-> hi, next |-> 1]]
    /\ UNCHANGED <<last, first, group, acked, effects, process>>

\* Redis delivered the batch and the reply never arrived.
ReadReplyLost(p, t) ==
    /\ consumer[p][t].pc = "read"
    /\ group[t]
    /\ \E lo, hi \in Id : Deliver(t, lo, hi)
    /\ Goto(p, t, "poll")
    /\ UNCHANGED <<last, first, group, acked, effects, process>>

\* Two seconds without an event, or an error and a second's sleep.
ReadNothing(p, t) ==
    /\ consumer[p][t].pc = "read"
    /\ Goto(p, t, "poll")
    /\ UNCHANGED <<redis, effects, process>>

\* Seeded bug: the next message starts with the handler that was due.
AdvanceKeepsNext(c) ==
    [c EXCEPT !.pc = IF c.at < c.hi THEN "batch" ELSE "poll",
              !.at = @ + 1]

\* processMessages goes on to the next message, or back to the loop.
Advance(c) ==
    [c EXCEPT !.pc = IF c.at < c.hi THEN "batch" ELSE "poll",
              !.at = @ + 1,
              !.next = 1]

Acknowledge(p, t) ==
    /\ consumer' = [consumer EXCEPT ![p][t] = Advance(@)]
    /\ \/ /\ pending' = [pending EXCEPT ![t] = @ \ {consumer[p][t].at}]
          /\ acked' = [acked EXCEPT ![t] = @ \union {consumer[p][t].at}]
       \/ UNCHANGED <<pending, acked>>      \* the error of XACK is dropped
    /\ UNCHANGED <<last, first, group, cursor, effects, process>>

\* No "raw" field or no event in it: acknowledged without any handler.
SkipUndecodable(p, t) ==
    /\ consumer[p][t].pc = "batch"
    /\ consumer[p][t].at \in Undecodable[t]
    /\ Acknowledge(p, t)

CallHandler(p, t) ==
    LET c == consumer[p][t] IN
    /\ c.pc = "batch"
    /\ c.at \notin Undecodable[t]
    /\ c.next <= Handlers[t]
    /\ runs' = [runs EXCEPT ![t][c.at][c.next] = @ + 1]
    /\ Goto(p, t, "handler")
    /\ UNCHANGED <<redis, succeeded, process>>

HandlerReturnsNil(p, t) ==
    LET c == consumer[p][t] IN
    /\ c.pc = "handler"
    /\ succeeded' = [succeeded EXCEPT ![t][c.at] = @ + 1]
    /\ consumer' = [consumer EXCEPT ![p][t] =
                       [c EXCEPT !.pc = "batch", !.next = c.next + 1]]
    /\ UNCHANGED <<redis, runs, process>>

\* Seeded bug: a failed handler is called again at once.
HandlerFailsRetries(p, t) ==
    /\ consumer[p][t].pc = "handler"
    /\ Goto(p, t, "batch")
    /\ UNCHANGED <<redis, effects, process>>

\* An error or a recovered panic: handleEvent stops at this handler and the
\* message is left in the pending entries list.
HandlerFails(p, t) ==
    /\ consumer[p][t].pc = "handler"
    /\ consumer' = [consumer EXCEPT ![p][t] = Advance(@)]
    /\ UNCHANGED <<redis, effects, process>>

AckHandled(p, t) ==
    /\ consumer[p][t].pc = "batch"
    /\ consumer[p][t].at \notin Undecodable[t]
    /\ consumer[p][t].next > Handlers[t]
    /\ Acknowledge(p, t)

-----------------------------------------------------------------------------
Consume(p, t) ==
    \/ CheckStop(p, t)
    \/ Read(p, t)
    \/ ReadReplyLost(p, t)
    \/ ReadNothing(p, t)
    \/ SkipUndecodable(p, t)
    \/ CallHandler(p, t)
    \/ HandlerReturnsNil(p, t)
    \/ HandlerFails(p, t)
    \/ AckHandled(p, t)

Next ==
    \/ \E t \in EventType : Publish(t)
    \/ \E p \in Process :
          \/ StartConsumers(p) \/ Close(p) \/ CloseReturns(p)
          \/ CloseTimesOut(p) \/ Die(p) \/ Restart(p)
    \/ \E p \in Process, t \in EventType :
          \/ ListConsumer(p, t) \/ LaunchConsumer(p, t)
          \/ CreateGroup(p, t) \/ CreateGroupFails(p, t)
          \/ Consume(p, t)

Spec == Init /\ [][Next]_vars

(* The goroutines that run are scheduled, handlers return, and Redis        *)
(* answers a read sooner or later; nothing is promised about Close, deaths  *)
(* or restarts.                                                             *)
Fairness ==
    /\ \A p \in Process :
          /\ WF_vars(StartConsumers(p))
          /\ \A t \in EventType :
                /\ WF_vars(ListConsumer(p, t))
                /\ WF_vars(LaunchConsumer(p, t))
                /\ WF_vars(CreateGroup(p, t) \/ CreateGroupFails(p, t))
                /\ WF_vars(Consume(p, t))
                /\ SF_vars(Read(p, t))

FairSpec == Spec /\ Fairness

-----------------------------------------------------------------------------
(* Properties.                                                              *)

Holding(p, t) == consumer[p][t].pc \in {"batch", "handler"}

Holds(p, t, n) ==
    /\ Holding(p, t)
    /\ n \in consumer[p][t].at .. consumer[p][t].hi

Held(t, n) == \E p \in Process : Holds(p, t, n)

(* No handler is ever called twice with the same event, whatever dies and   *)
(* however many processes read the stream: the group's ">" cursor hands an  *)
(* event out once (bus.go run, 179-185).                                    *)
HandlerAtMostOnce ==
    \A t \in EventType, n \in Id, k \in HandlerNo : runs[t][n][k] <= 1

(* The handlers of an event run in subscription order, each after its       *)
(* predecessor succeeded, so that a later handler never sees an event an    *)
(* earlier one rejected (bus.go handleEvent, 262-269).                      *)
HandlersInOrder ==
    \A t \in EventType, n \in Id, k \in HandlerNo :
        runs[t][n][k] > 0 => succeeded[t][n] >= k - 1

(* An event leaves the pending list only when every handler subscribed to   *)
(* its type has succeeded, or there was no event in the entry (bus.go       *)
(* processMessages, 249-256).                                               *)
AckedOnlyWhenHandled ==
    \A t \in EventType : \A n \in acked[t] :
        n \in Undecodable[t] \/ succeeded[t][n] = Handlers[t]

(* No two consumers of the group ever hold the same event.                  *)
ExclusiveDelivery ==
    \A p, q \in Process, t \in EventType, n \in Id :
        Holds(p, t, n) /\ Holds(q, t, n) => p = q

(* Custody: what nobody has taken is untouched, and what a consumer holds    *)
(* is untouched but for its first event, whose handlers were called exactly *)
(* up to the one that is due (bus.go run and processMessages, 160-259).     *)
Untouched(t, n) ==
    /\ n \notin acked[t]
    /\ succeeded[t][n] = 0
    /\ \A k \in HandlerNo : runs[t][n][k] = 0

HeldInOrder(p, t) ==
    LET c == consumer[p][t] IN
    /\ 1 <= c.at /\ c.at <= c.hi /\ c.hi <= cursor[t]
    /\ \A n \in Id : c.at < n /\ n <= c.hi => Untouched(t, n)
    /\ c.at \notin acked[t]
    /\ c.next >= 1 /\ succeeded[t][c.at] = c.next - 1
    /\ c.next <= Handlers[t] \/ (c.pc = "batch" /\ c.next = Handlers[t] + 1)
    /\ \A k \in HandlerNo :
          runs[t][c.at][k] =
             IF k < c.next \/ (k = c.next /\ c.pc = "handler") THEN 1 ELSE 0

Custody ==
    /\ \A t \in EventType, n \in Id : cursor[t] < n => Untouched(t, n)
    /\ \A p \in Process, t \in EventType : Holding(p, t) => HeldInOrder(p, t)

Safety == /\ HandlerAtMostOnce
          /\ HandlersInOrder
          /\ AckedOnlyWhenHandled
          /\ ExclusiveDelivery

(* While some process keeps a consumer for its type, every published event  *)
(* reaches its first handler unless it was trimmed, held no event, or was   *)
(* delivered to a consumer that never saw it: nothing published before the  *)
(* group existed is skipped, and no failing handler blocks the stream.      *)
EventuallyHandled ==
    \A t \in Subscribed, n \in Id :
        n <= last[t] ~>
            \/ runs[t][n][1] > 0
            \/ n < first[t]
            \/ n \in Undecodable[t]
            \/ n \in pending[t] /\ ~Held(t, n)
            \/ \A p \in Process : ~Running(p, t)

(* The bus implements the at-most-once contract of EventDelivery.           *)
Life(t, n) ==
    CASE n > last[t] -> "unsent"
      [] n \in acked[t] -> "acked"
      [] Held(t, n) -> "held"
      [] n \in pending[t] \ acked[t] /\ ~Held(t, n) -> "left"
      [] n \in Undelivered(t) -> "queued"
      [] OTHER -> "trimmed"

Delivery == INSTANCE EventDelivery WITH
    life <- [t \in EventType |-> [n \in Id |-> Life(t, n)]],
    calls <- [t \in EventType |-> [n \in Id |->
                 Cardinality({k \in HandlerNo : runs[t][n][k] > 0})]]

DeliveryContract == Delivery!Spec
=============================================================================
