--------------------------- MODULE EventBusProofs ---------------------------
(***************************************************************************)
(* The event bus delivers at most once, for any number of processes, event *)
(* types, handlers, deaths and restarts.                                   *)
(*                                                                         *)
(* The inductive invariant is custody: positions past the group's cursor   *)
(* are untouched, the batches of two consumers never overlap, and in a     *)
(* batch only the first event has met any handler.                         *)
(***************************************************************************)
EXTENDS EventBus, FiniteSetTheorems, TLAPS

IInv == TypeOK /\ Custody /\ Safety

(* A fresh system satisfies the invariant.                                  *)
LEMMA InitInv == Init => IInv
<1> SUFFICES ASSUME Init PROVE IInv
    OBVIOUS
<1> USE SizesAssumption, HandlersAssumption, UndecodableAssumption
    DEF Init, NoConsumer
<1>1. TypeOK
  BY DEF TypeOK, RedisTypeOK, EffectsTypeOK, ProcessTypeOK, ConsumerTypeOK,
         Consumer, Id, HandlerNo, Pc
<1>2. Custody
  <2>1. ASSUME NEW t \in EventType, NEW n \in Id PROVE Untouched(t, n)
    BY DEF Untouched, Id, HandlerNo
  <2>2. \A p \in Process, t \in EventType : ~Holding(p, t)
    BY DEF Holding
  <2> QED BY <2>1, <2>2 DEF Custody
<1>3. Safety
  BY DEF Safety, HandlerAtMostOnce, HandlersInOrder, AckedOnlyWhenHandled,
         ExclusiveDelivery, Holding, Holds, Id, HandlerNo
<1> QED BY <1>1, <1>2, <1>3 DEF IInv

-----------------------------------------------------------------------------
(* Lemmas about consumers.                                                  *)

(* Replacing one consumer touches no other one.                             *)
LEMMA Replace ==
  ASSUME ConsumerTypeOK, NEW p \in Process, NEW t \in EventType,
         NEW d \in Consumer, consumer' = [consumer EXCEPT ![p][t] = d]
  PROVE  /\ ConsumerTypeOK'
         /\ consumer'[p][t] = d
         /\ \A q \in Process, u \in EventType :
               q # p \/ u # t => consumer'[q][u] = consumer[q][u]
  BY DEF ConsumerTypeOK

(* A goroutine that moves on keeps its batch.                               *)
LEMMA GotoReplaces ==
  ASSUME ConsumerTypeOK, NEW p \in Process, NEW t \in EventType,
         NEW where \in Pc, Goto(p, t, where)
  PROVE  /\ ConsumerTypeOK'
         /\ consumer'[p][t] = [consumer[p][t] EXCEPT !.pc = where]
         /\ \A q \in Process, u \in EventType :
               q # p \/ u # t => consumer'[q][u] = consumer[q][u]
<1> DEFINE d == [consumer[p][t] EXCEPT !.pc = where]
<1>1. d \in Consumer
  BY DEF ConsumerTypeOK, Consumer
<1>2. consumer' = [consumer EXCEPT ![p][t] = d]
  BY DEF Goto
<1>3. d = [consumer[p][t] EXCEPT !.pc = where]
  OBVIOUS
<1> HIDE DEF d
<1>4. /\ ConsumerTypeOK'
      /\ consumer'[p][t] = d
      /\ \A q \in Process, u \in EventType :
            q # p \/ u # t => consumer'[q][u] = consumer[q][u]
  BY <1>1, <1>2 DEF ConsumerTypeOK
<1> QED BY <1>3, <1>4

(* Calling a handler counts one run of it and nothing else.                 *)
LEMMA CountRun ==
  ASSUME EffectsTypeOK, NEW t \in EventType, NEW n \in Id,
         NEW k \in HandlerNo, runs' = [runs EXCEPT ![t][n][k] = @ + 1]
  PROVE  /\ runs' \in [EventType -> [Id -> [HandlerNo -> Nat]]]
         /\ runs'[t][n][k] = runs[t][n][k] + 1
         /\ \A u \in EventType, m \in Id, j \in HandlerNo :
               u # t \/ m # n \/ j # k => runs'[u][m][j] = runs[u][m][j]
<1> DEFINE row == [runs[t][n] EXCEPT ![k] = runs[t][n][k] + 1]
           page == [runs[t] EXCEPT ![n] = row]
<1>1. /\ row \in [HandlerNo -> Nat]
      /\ row[k] = runs[t][n][k] + 1
      /\ \A j \in HandlerNo : j # k => row[j] = runs[t][n][j]
  BY DEF EffectsTypeOK
<1> HIDE DEF row
<1>2. /\ page \in [Id -> [HandlerNo -> Nat]]
      /\ page[n] = row
      /\ \A m \in Id : m # n => page[m] = runs[t][m]
  BY <1>1 DEF EffectsTypeOK
<1>3. runs' = [runs EXCEPT ![t] = page]
  BY DEF row
<1> HIDE DEF page
<1>4. /\ runs' \in [EventType -> [Id -> [HandlerNo -> Nat]]]
      /\ runs'[t] = page
      /\ \A u \in EventType : u # t => runs'[u] = runs[u]
  BY <1>2, <1>3 DEF EffectsTypeOK
<1> QED BY <1>1, <1>2, <1>4

(* Advance drops the first event of a batch.                                *)
LEMMA AdvanceType ==
  ASSUME NEW c \in Consumer
  PROVE  /\ Advance(c) \in Consumer
         /\ Advance(c).at = c.at + 1 /\ Advance(c).hi = c.hi
         /\ Advance(c).next = 1
         /\ Advance(c).pc = IF c.at < c.hi THEN "batch" ELSE "poll"
<1> DEFINE where == IF c.at < c.hi THEN "batch" ELSE "poll"
<1>1. Advance(c) = [c EXCEPT !.pc = where, !.at = c.at + 1, !.next = 1]
  BY DEF Advance
<1>2. where \in Pc /\ c.at + 1 \in Nat /\ 1 \in Nat
  BY DEF Consumer, Pc
<1> HIDE DEF where
<1>3. /\ Advance(c) \in Consumer
      /\ Advance(c).at = c.at + 1 /\ Advance(c).hi = c.hi
      /\ Advance(c).next = 1 /\ Advance(c).pc = where
  BY <1>1, <1>2 DEF Consumer
<1> QED BY <1>3 DEF where

(* The first event of a batch is a position of the stream.                  *)
LEMMA HeldId ==
  ASSUME TypeOK, Custody, NEW p \in Process, NEW t \in EventType,
         Holding(p, t)
  PROVE  /\ consumer[p][t] \in Consumer
         /\ consumer[p][t].at \in Id
         /\ consumer[p][t].hi \in Id
         /\ HeldInOrder(p, t)
<1>1. HeldInOrder(p, t)
  BY DEF Custody
<1>2. consumer[p][t] \in Consumer
  BY DEF TypeOK, ConsumerTypeOK
<1>3. cursor[t] \in 0 .. MaxEvents
  BY DEF TypeOK, RedisTypeOK
<1> QED BY <1>1, <1>2, <1>3, SizesAssumption DEF HeldInOrder, Consumer, Id

-----------------------------------------------------------------------------
(* Type correctness, one part of the state at a time.                       *)

(* The actions that change Redis keep its types.                            *)
LEMMA RedisTypeStep == TypeOK /\ Custody /\ Next => RedisTypeOK'
<1> SUFFICES ASSUME TypeOK, Custody, Next PROVE RedisTypeOK'
    OBVIOUS
<1>1. ASSUME NEW t \in EventType, Publish(t) PROVE RedisTypeOK'
  BY <1>1, SizesAssumption DEF Publish, TypeOK, RedisTypeOK, Id
<1>2. ASSUME NEW p \in Process, NEW t \in EventType, CreateGroup(p, t)
      PROVE  RedisTypeOK'
  BY <1>2, SizesAssumption DEF CreateGroup, TypeOK, RedisTypeOK, Id
<1>3. ASSUME NEW t \in EventType, NEW lo \in Id, NEW hi \in Id,
             Deliver(t, lo, hi), UNCHANGED <<last, first, group, acked>>
      PROVE  RedisTypeOK'
  BY <1>3, SizesAssumption DEF Deliver, Undelivered, TypeOK, RedisTypeOK, Id
<1>4. ASSUME NEW p \in Process, NEW t \in EventType,
             Read(p, t) \/ ReadReplyLost(p, t)
      PROVE  RedisTypeOK'
  BY <1>3, <1>4 DEF Read, ReadReplyLost
<1>5. ASSUME NEW p \in Process, NEW t \in EventType,
             SkipUndecodable(p, t) \/ AckHandled(p, t)
      PROVE  RedisTypeOK'
  <2>1. consumer[p][t].at \in Id
    BY <1>5, HeldId DEF SkipUndecodable, AckHandled, Holding
  <2>2. Acknowledge(p, t)
    BY <1>5 DEF SkipUndecodable, AckHandled
  <2> QED BY <2>1, <2>2, SizesAssumption
          DEF Acknowledge, TypeOK, RedisTypeOK, Id
<1>6. ASSUME UNCHANGED redis PROVE RedisTypeOK'
  BY <1>6 DEF redis, TypeOK, RedisTypeOK
<1>7. ASSUME NEW p \in Process,
             \/ StartConsumers(p) \/ Close(p) \/ CloseReturns(p)
             \/ CloseTimesOut(p) \/ Die(p) \/ Restart(p)
      PROVE  UNCHANGED redis
  BY <1>7 DEF StartConsumers, Close, CloseReturns, CloseTimesOut, Die,
              Restart, redis
<1>8. ASSUME NEW p \in Process, NEW t \in EventType,
             \/ ListConsumer(p, t) \/ LaunchConsumer(p, t)
             \/ CreateGroupFails(p, t) \/ CheckStop(p, t) \/ ReadNothing(p, t)
             \/ CallHandler(p, t) \/ HandlerReturnsNil(p, t)
             \/ HandlerFails(p, t)
      PROVE  UNCHANGED redis
  BY <1>8 DEF ListConsumer, LaunchConsumer, CreateGroupFails, CheckStop,
              ReadNothing, CallHandler, HandlerReturnsNil, HandlerFails, redis
<1> QED BY <1>1, <1>2, <1>4, <1>5, <1>6, <1>7, <1>8 DEF Next, Consume

(* Only handlers change the effects.                                        *)
LEMMA EffectsTypeStep == TypeOK /\ Custody /\ Next => EffectsTypeOK'
<1> SUFFICES ASSUME TypeOK, Custody, Next PROVE EffectsTypeOK'
    OBVIOUS
<1>1. ASSUME NEW p \in Process, NEW t \in EventType, CallHandler(p, t)
      PROVE  EffectsTypeOK'
  <2>1. /\ consumer[p][t].at \in Id
        /\ consumer[p][t].next \in HandlerNo
    <3>1. Holding(p, t) /\ consumer[p][t].next <= Handlers[t]
      BY <1>1 DEF CallHandler, Holding
    <3>2. /\ consumer[p][t] \in Consumer
          /\ consumer[p][t].at \in Id
          /\ HeldInOrder(p, t)
      BY <3>1, HeldId
    <3> QED BY <3>1, <3>2, SizesAssumption, HandlersAssumption
            DEF HeldInOrder, HandlerNo, Consumer
  <2> QED BY <1>1, <2>1, CountRun DEF CallHandler, TypeOK, EffectsTypeOK
<1>2. ASSUME NEW p \in Process, NEW t \in EventType, HandlerReturnsNil(p, t)
      PROVE  EffectsTypeOK'
  <2>1. consumer[p][t].at \in Id
    BY <1>2, HeldId DEF HandlerReturnsNil, Holding
  <2> QED BY <1>2, <2>1 DEF HandlerReturnsNil, TypeOK, EffectsTypeOK
<1>3. ASSUME UNCHANGED effects PROVE EffectsTypeOK'
  BY <1>3 DEF effects, TypeOK, EffectsTypeOK
<1>4. ASSUME NEW t \in EventType, Publish(t) PROVE UNCHANGED effects
  BY <1>4 DEF Publish
<1>5. ASSUME NEW p \in Process,
             \/ StartConsumers(p) \/ Close(p) \/ CloseReturns(p)
             \/ CloseTimesOut(p) \/ Die(p) \/ Restart(p)
      PROVE  UNCHANGED effects
  BY <1>5 DEF StartConsumers, Close, CloseReturns, CloseTimesOut, Die, Restart
<1>6. ASSUME NEW p \in Process, NEW t \in EventType,
             \/ ListConsumer(p, t) \/ LaunchConsumer(p, t)
             \/ CreateGroup(p, t) \/ CreateGroupFails(p, t)
             \/ CheckStop(p, t) \/ Read(p, t) \/ ReadReplyLost(p, t)
             \/ ReadNothing(p, t) \/ SkipUndecodable(p, t)
             \/ HandlerFails(p, t) \/ AckHandled(p, t)
      PROVE  UNCHANGED effects
  BY <1>6 DEF ListConsumer, LaunchConsumer, CreateGroup, CreateGroupFails,
              CheckStop, Read, ReadReplyLost, ReadNothing, SkipUndecodable,
              HandlerFails, AckHandled, Acknowledge
<1> QED BY <1>1, <1>2, <1>3, <1>4, <1>5, <1>6 DEF Next, Consume

(* The life of a process keeps the types of its bookkeeping.                *)
LEMMA ProcessTypeStep == TypeOK /\ Next => ProcessTypeOK'
<1> SUFFICES ASSUME TypeOK, Next PROVE ProcessTypeOK'
    OBVIOUS
<1>1. ASSUME NEW p \in Process,
             \/ StartConsumers(p) \/ Close(p) \/ CloseReturns(p)
             \/ CloseTimesOut(p) \/ Die(p)
      PROVE  ProcessTypeOK'
  BY <1>1 DEF StartConsumers, Close, CloseReturns, CloseTimesOut, Die,
              Subscribed, TypeOK, ProcessTypeOK
<1>2. ASSUME NEW p \in Process, Restart(p) PROVE ProcessTypeOK'
  BY <1>2, SizesAssumption DEF Restart, TypeOK, ProcessTypeOK
<1>3. ASSUME NEW p \in Process, NEW t \in EventType, ListConsumer(p, t)
      PROVE  ProcessTypeOK'
  BY <1>3 DEF ListConsumer, TypeOK, ProcessTypeOK
<1>4. ASSUME UNCHANGED process PROVE ProcessTypeOK'
  BY <1>4 DEF process, TypeOK, ProcessTypeOK
<1>5. ASSUME NEW t \in EventType, Publish(t) PROVE UNCHANGED process
  BY <1>5 DEF Publish
<1>6. ASSUME NEW p \in Process, NEW t \in EventType,
             \/ LaunchConsumer(p, t)
             \/ CreateGroup(p, t) \/ CreateGroupFails(p, t)
             \/ CheckStop(p, t) \/ Read(p, t) \/ ReadReplyLost(p, t)
             \/ ReadNothing(p, t) \/ SkipUndecodable(p, t)
             \/ CallHandler(p, t) \/ HandlerReturnsNil(p, t)
             \/ HandlerFails(p, t) \/ AckHandled(p, t)
      PROVE  UNCHANGED process
  BY <1>6 DEF LaunchConsumer, CreateGroup, CreateGroupFails,
              CheckStop, Read, ReadReplyLost, ReadNothing, SkipUndecodable,
              CallHandler, HandlerReturnsNil, HandlerFails, AckHandled,
              Acknowledge
<1> QED BY <1>1, <1>2, <1>3, <1>4, <1>5, <1>6 DEF Next, Consume

(* A consumer stays a consumer.                                             *)
LEMMA ConsumerTypeStep == TypeOK /\ Custody /\ Next => ConsumerTypeOK'
<1> SUFFICES ASSUME TypeOK, Custody, Next PROVE ConsumerTypeOK'
    OBVIOUS
<1>0. ConsumerTypeOK
  BY DEF TypeOK
<1>1. ASSUME NEW p \in Process, NEW t \in EventType,
             NEW where \in Pc, Goto(p, t, where)
      PROVE  ConsumerTypeOK'
  BY <1>0, <1>1, GotoReplaces
<1>2. ASSUME NEW p \in Process, NEW t \in EventType,
             \/ ListConsumer(p, t) \/ LaunchConsumer(p, t)
             \/ CreateGroup(p, t) \/ CreateGroupFails(p, t)
             \/ CheckStop(p, t) \/ ReadReplyLost(p, t)
             \/ ReadNothing(p, t) \/ CallHandler(p, t)
      PROVE  ConsumerTypeOK'
  BY <1>1, <1>2 DEF ListConsumer, LaunchConsumer, CreateGroup,
     CreateGroupFails, CheckStop, ReadReplyLost, ReadNothing, CallHandler, Pc
<1>3. ASSUME NEW p \in Process, NEW t \in EventType,
             consumer' = [consumer EXCEPT ![p][t] = Advance(@)]
      PROVE  ConsumerTypeOK'
  <2>1. Advance(consumer[p][t]) \in Consumer
    BY <1>0, AdvanceType DEF ConsumerTypeOK
  <2>2. consumer' = [consumer EXCEPT ![p][t] = Advance(consumer[p][t])]
    BY <1>3
  <2> QED BY <1>0, <2>1, <2>2, Replace
<1>4. ASSUME NEW p \in Process, NEW t \in EventType,
             SkipUndecodable(p, t) \/ AckHandled(p, t) \/ HandlerFails(p, t)
      PROVE  ConsumerTypeOK'
  BY <1>3, <1>4 DEF SkipUndecodable, AckHandled, Acknowledge, HandlerFails
<1>5. ASSUME NEW p \in Process, NEW t \in EventType, Read(p, t)
      PROVE  ConsumerTypeOK'
  <2>1. PICK lo \in Id, hi \in Id :
           consumer' = [consumer EXCEPT ![p][t] =
                           [pc |-> "batch", at |-> lo, hi |-> hi, next |-> 1]]
    BY <1>5 DEF Read
  <2>2. [pc |-> "batch", at |-> lo, hi |-> hi, next |-> 1] \in Consumer
    BY DEF Consumer, Pc, Id
  <2> QED BY <1>0, <2>1, <2>2, Replace
<1>6. ASSUME NEW p \in Process, NEW t \in EventType, HandlerReturnsNil(p, t)
      PROVE  ConsumerTypeOK'
  <2> DEFINE c == consumer[p][t]
             d == [c EXCEPT !.pc = "batch", !.next = c.next + 1]
  <2>0. c \in Consumer
    BY <1>0 DEF ConsumerTypeOK
  <2>1. d \in Consumer
    <3>1. "batch" \in Pc /\ c.next + 1 \in Nat
      BY <2>0 DEF Consumer, Pc
    <3> HIDE DEF c
    <3> QED BY <2>0, <3>1 DEF Consumer
  <2>2. consumer' = [consumer EXCEPT ![p][t] = d]
    BY <1>6 DEF HandlerReturnsNil
  <2> HIDE DEF d
  <2> QED BY <1>0, <2>1, <2>2, Replace
<1>7. ASSUME NEW p \in Process, Die(p) PROVE ConsumerTypeOK'
  <2>1. NoConsumer \in Consumer
    BY DEF NoConsumer, Consumer, Pc
  <2> QED BY <1>0, <1>7, <2>1 DEF Die, ConsumerTypeOK
<1>8. ASSUME NEW p \in Process,
             \/ StartConsumers(p) \/ Close(p) \/ CloseReturns(p)
             \/ CloseTimesOut(p) \/ Restart(p)
      PROVE  ConsumerTypeOK'
  BY <1>0, <1>8 DEF StartConsumers, Close, CloseReturns, CloseTimesOut,
                    Restart, ConsumerTypeOK
<1>9. ASSUME NEW t \in EventType, Publish(t) PROVE ConsumerTypeOK'
  BY <1>0, <1>9 DEF Publish, ConsumerTypeOK
<1> QED BY <1>2, <1>4, <1>5, <1>6, <1>7, <1>8, <1>9 DEF Next, Consume

(* Every step keeps the types.                                              *)
LEMMA TypeStep == TypeOK /\ Custody /\ [Next]_vars => TypeOK'
<1>1. TypeOK /\ UNCHANGED vars => TypeOK'
  BY DEF vars, redis, effects, process, TypeOK, RedisTypeOK, EffectsTypeOK,
         ProcessTypeOK, ConsumerTypeOK
<1> QED BY <1>1, RedisTypeStep, EffectsTypeStep, ProcessTypeStep,
           ConsumerTypeStep DEF TypeOK

-----------------------------------------------------------------------------
(* Custody and safety.                                                      *)

(* Events of one type held by two processes are different events.           *)
LEMMA HeldApart ==
  ASSUME TypeOK, Custody, ExclusiveDelivery,
         NEW p \in Process, NEW q \in Process, NEW t \in EventType,
         p # q, Holding(p, t), Holding(q, t), NEW n \in Id,
         consumer[q][t].at <= n, n <= consumer[q][t].hi
  PROVE  n # consumer[p][t].at
<1>1. Holds(p, t, consumer[p][t].at)
  BY HeldId DEF Holds, HeldInOrder, Id, Consumer
<1>2. Holds(q, t, n)
  BY HeldId DEF Holds, Id, Consumer
<1> QED BY <1>1, <1>2 DEF ExclusiveDelivery

(* A step that moves no cursor back, calls no handler, acknowledges nothing *)
(* and gives no consumer a new batch preserves custody and safety.          *)
LEMMA QuietStep ==
  ASSUME IInv, TypeOK', UNCHANGED <<runs, succeeded, acked>>,
         \A t \in EventType : cursor[t] <= cursor'[t],
         \A p \in Process, t \in EventType :
            Holding(p, t)' => consumer'[p][t] = consumer[p][t]
  PROVE  Custody' /\ Safety'
<1>1. \A t \in EventType : cursor[t] \in Nat /\ cursor'[t] \in Nat
  BY SizesAssumption DEF IInv, TypeOK, RedisTypeOK
<1>2. \A t \in EventType, n \in Id : Untouched(t, n) => Untouched(t, n)'
  BY DEF Untouched
<1>3. \A p \in Process, t \in EventType : Holding(p, t)' => Holding(p, t)
  BY DEF Holding
<1>4. Custody'
  <2>1. ASSUME NEW t \in EventType, NEW n \in Id, cursor'[t] < n
        PROVE  Untouched(t, n)'
    BY <1>1, <1>2, <2>1 DEF IInv, Custody, Id
  <2>2. ASSUME NEW p \in Process, NEW t \in EventType, Holding(p, t)'
        PROVE  HeldInOrder(p, t)'
    <3>1. HeldInOrder(p, t) /\ consumer[p][t] \in Consumer
      BY <1>3, <2>2, HeldId DEF IInv
    <3>2. consumer'[p][t] = consumer[p][t]
      BY <2>2
    <3> QED BY <1>1, <1>2, <3>1, <3>2 DEF HeldInOrder, Consumer
  <2> QED BY <2>1, <2>2 DEF Custody
<1>5. Safety'
  BY <1>3 DEF IInv, Safety, HandlerAtMostOnce, HandlersInOrder,
              AckedOnlyWhenHandled, ExclusiveDelivery, Holds
<1> QED BY <1>4, <1>5

(* The batch of a read starts behind every batch that was handed out.       *)
LEMMA ReadStep ==
  ASSUME IInv, TypeOK', NEW p \in Process, NEW t \in EventType, Read(p, t)
  PROVE  Custody' /\ Safety'
<1>1. PICK lo \in Id, hi \in Id :
         /\ Deliver(t, lo, hi)
         /\ consumer' = [consumer EXCEPT ![p][t] =
                            [pc |-> "batch", at |-> lo, hi |-> hi, next |-> 1]]
  BY DEF Read
<1> DEFINE d == [pc |-> "batch", at |-> lo, hi |-> hi, next |-> 1]
<1>2. UNCHANGED <<runs, succeeded, acked>>
  BY DEF Read, effects
<1>3. /\ cursor[t] < lo /\ lo <= hi /\ cursor'[t] = hi
      /\ \A u \in EventType : u # t => cursor'[u] = cursor[u]
  BY <1>1, SizesAssumption
  DEF Deliver, Undelivered, IInv, TypeOK, RedisTypeOK, Id
<1>4. d \in Consumer
  BY DEF Consumer, Pc, Id
<1>5. /\ consumer'[p][t] = d
      /\ \A q \in Process, u \in EventType :
            q # p \/ u # t => consumer'[q][u] = consumer[q][u]
  BY <1>1, <1>4 DEF IInv, TypeOK, ConsumerTypeOK
<1>6. \A u \in EventType, n \in Id : Untouched(u, n) => Untouched(u, n)'
  BY <1>2 DEF Untouched
<1>7. \A u \in EventType : cursor[u] \in Nat /\ cursor'[u] \in Nat
  BY SizesAssumption DEF IInv, TypeOK, RedisTypeOK
<1>8. \A n \in Id : lo <= n => Untouched(t, n)
  BY <1>3, <1>7 DEF IInv, Custody, Id
<1>9. Custody'
  <2>1. ASSUME NEW u \in EventType, NEW n \in Id, cursor'[u] < n
        PROVE  Untouched(u, n)'
    BY <1>3, <1>6, <1>7, <2>1 DEF IInv, Custody, Id
  <2>2. HeldInOrder(p, t)'
    BY <1>2, <1>3, <1>5, <1>6, <1>8, HandlersAssumption, SizesAssumption
    DEF HeldInOrder, Untouched, Id, HandlerNo
  <2>3. ASSUME NEW q \in Process, NEW u \in EventType, Holding(q, u)',
               q # p \/ u # t
        PROVE  HeldInOrder(q, u)'
    <3>1. Holding(q, u) /\ consumer'[q][u] = consumer[q][u]
      BY <1>5, <2>3 DEF Holding
    <3>2. HeldInOrder(q, u) /\ consumer[q][u] \in Consumer
      BY <3>1, HeldId DEF IInv
    <3>3. cursor[u] <= cursor'[u]
      BY <1>3, <1>7 DEF Id
    <3> QED BY <1>2, <1>6, <1>7, <3>1, <3>2, <3>3 DEF HeldInOrder, Consumer
  <2> QED BY <2>1, <2>2, <2>3 DEF Custody
<1>10. ExclusiveDelivery'
  <2>1. ASSUME NEW q \in Process, NEW u \in EventType, NEW n \in Id,
               Holds(q, u, n)', q # p \/ u # t
        PROVE  Holds(q, u, n) /\ n <= cursor[u]
    <3>1. Holds(q, u, n)
      BY <1>5, <2>1 DEF Holds, Holding
    <3>2. HeldInOrder(q, u) /\ consumer[q][u] \in Consumer
      BY <3>1, HeldId DEF IInv, Holds
    <3> QED BY <1>7, <3>1, <3>2 DEF Holds, HeldInOrder, Consumer, Id
  <2>2. ASSUME NEW n \in Id, Holds(p, t, n)' PROVE cursor[t] < n
    BY <1>3, <1>5, <1>7, <2>2 DEF Holds, Id
  <2> QED BY <1>7, <2>1, <2>2 DEF ExclusiveDelivery, IInv, Safety, Id
<1>11. (HandlerAtMostOnce /\ HandlersInOrder /\ AckedOnlyWhenHandled)'
  BY <1>2 DEF IInv, Safety, HandlerAtMostOnce, HandlersInOrder,
              AckedOnlyWhenHandled
<1> QED BY <1>9, <1>10, <1>11 DEF Safety

(* A handler is called for the first event of a batch, for the first time.  *)
LEMMA CallStep ==
  ASSUME IInv, TypeOK', NEW p \in Process, NEW t \in EventType,
         CallHandler(p, t)
  PROVE  Custody' /\ Safety'
<1> DEFINE c == consumer[p][t]
<1>1. Holding(p, t) /\ c.pc = "batch" /\ c.next <= Handlers[t]
  BY DEF CallHandler, Holding
<1>2. c \in Consumer /\ c.at \in Id /\ c.hi \in Id /\ HeldInOrder(p, t)
  BY <1>1, HeldId DEF IInv
<1>3. c.next \in HandlerNo
  BY <1>1, <1>2, HandlersAssumption, SizesAssumption
  DEF HeldInOrder, Consumer, HandlerNo
<1>4. UNCHANGED <<cursor, acked, succeeded>>
  BY DEF CallHandler, redis
<1>5. /\ consumer'[p][t] = [c EXCEPT !.pc = "handler"]
      /\ \A q \in Process, u \in EventType :
            q # p \/ u # t => consumer'[q][u] = consumer[q][u]
  BY GotoReplaces DEF CallHandler, Pc, IInv, TypeOK
<1>6. /\ consumer'[p][t].pc = "handler" /\ consumer'[p][t].at = c.at
      /\ consumer'[p][t].hi = c.hi /\ consumer'[p][t].next = c.next
  BY <1>2, <1>5 DEF Consumer
<1>7. /\ runs'[t][c.at][c.next] = runs[t][c.at][c.next] + 1
      /\ \A u \in EventType, m \in Id, j \in HandlerNo :
            u # t \/ m # c.at \/ j # c.next => runs'[u][m][j] = runs[u][m][j]
  <2>1. PICK n \in Id, k \in HandlerNo : n = c.at /\ k = c.next
    BY <1>2, <1>3
  <2>2. runs' = [runs EXCEPT ![t][n][k] = @ + 1]
    BY <2>1 DEF CallHandler
  <2>3. EffectsTypeOK
    BY DEF IInv, TypeOK
  <2>4. /\ runs'[t][n][k] = runs[t][n][k] + 1
        /\ \A u \in EventType, m \in Id, j \in HandlerNo :
              u # t \/ m # n \/ j # k => runs'[u][m][j] = runs[u][m][j]
    BY <2>2, <2>3, CountRun DEF EffectsTypeOK
  <2> QED BY <2>1, <2>4
<1>8. runs'[t][c.at][c.next] = 1
  BY <1>1, <1>2, <1>3, <1>7 DEF HeldInOrder, Consumer
<1>9. \A u \in EventType, m \in Id :
         Untouched(u, m) /\ (u # t \/ m # c.at) => Untouched(u, m)'
  BY <1>4, <1>7 DEF Untouched
<1>10. \A q \in Process, u \in EventType : Holding(q, u)' <=> Holding(q, u)
  BY <1>1, <1>5, <1>6 DEF Holding
<1>11. \A u \in EventType : cursor[u] \in Nat
  BY DEF IInv, TypeOK, RedisTypeOK
<1>12. Custody'
  <2>1. ASSUME NEW u \in EventType, NEW n \in Id, cursor'[u] < n
        PROVE  Untouched(u, n)'
    BY <1>2, <1>4, <1>9, <1>11, <2>1 DEF IInv, Custody, HeldInOrder, Id
  <2>2. HeldInOrder(p, t)'
    <3>1. \A k \in HandlerNo : runs'[t][c.at][k] =
              IF k < c.next \/ (k = c.next /\ "handler" = "handler")
              THEN 1 ELSE 0
      BY <1>1, <1>2, <1>3, <1>7, <1>8 DEF HeldInOrder, HandlerNo
    <3>2. \A n \in Id : c.at < n /\ n <= c.hi => Untouched(t, n)'
      BY <1>2, <1>9 DEF HeldInOrder, Id
    <3> QED BY <1>1, <1>2, <1>4, <1>6, <3>1, <3>2 DEF HeldInOrder
  <2>3. ASSUME NEW q \in Process, NEW u \in EventType, Holding(q, u)',
               q # p \/ u # t
        PROVE  HeldInOrder(q, u)'
    <3>1. Holding(q, u) /\ consumer'[q][u] = consumer[q][u]
      BY <1>5, <1>10, <2>3
    <3>2. /\ HeldInOrder(q, u) /\ consumer[q][u] \in Consumer
          /\ consumer[q][u].at \in Id
      BY <3>1, HeldId DEF IInv
    <3>3. \A n \in Id : consumer[q][u].at <= n /\ n <= consumer[q][u].hi =>
             u # t \/ n # c.at
      BY <1>1, <2>3, <3>1, HeldApart DEF IInv, Safety
    <3>4. \A k \in HandlerNo : runs'[u][consumer[q][u].at][k]
                                  = runs[u][consumer[q][u].at][k]
      <4>1. /\ consumer[q][u].at <= consumer[q][u].at
            /\ consumer[q][u].at <= consumer[q][u].hi
        BY <3>2 DEF HeldInOrder, Consumer
      <4>2. u # t \/ consumer[q][u].at # c.at
        BY <3>2, <3>3, <4>1
      <4> QED BY <1>7, <3>2, <4>2
    <3>5. \A n \in Id : consumer[q][u].at < n /\ n <= consumer[q][u].hi =>
             Untouched(u, n)'
      BY <1>9, <3>2, <3>3 DEF HeldInOrder, Consumer, Id
    <3> QED BY <1>4, <3>1, <3>2, <3>4, <3>5 DEF HeldInOrder
  <2> QED BY <2>1, <2>2, <2>3 DEF Custody
<1>13. HandlerAtMostOnce'
  BY <1>7, <1>8 DEF IInv, Safety, HandlerAtMostOnce
<1>14. HandlersInOrder'
  <2> SUFFICES ASSUME NEW u \in EventType, NEW n \in Id, NEW k \in HandlerNo,
                      runs'[u][n][k] > 0
               PROVE  succeeded[u][n] >= k - 1
      BY <1>4 DEF HandlersInOrder
  <2>1. CASE u = t /\ n = c.at /\ k = c.next
    BY <1>2, <2>1 DEF HeldInOrder, Consumer
  <2>2. CASE u # t \/ n # c.at \/ k # c.next
    BY <1>7, <2>2 DEF IInv, Safety, HandlersInOrder
  <2> QED BY <2>1, <2>2
<1>15. AckedOnlyWhenHandled'
  BY <1>4 DEF IInv, Safety, AckedOnlyWhenHandled
<1>16. ExclusiveDelivery'
  <2>1. \A q \in Process, u \in EventType, n \in Id :
           Holds(q, u, n)' => Holds(q, u, n)
    BY <1>1, <1>5, <1>6, <1>10 DEF Holds
  <2> QED BY <2>1 DEF IInv, Safety, ExclusiveDelivery
<1> QED BY <1>12, <1>13, <1>14, <1>15, <1>16 DEF Safety

(* A handler's success makes the next one due.                              *)
LEMMA ReturnStep ==
  ASSUME IInv, TypeOK', NEW p \in Process, NEW t \in EventType,
         HandlerReturnsNil(p, t)
  PROVE  Custody' /\ Safety'
<1> DEFINE c == consumer[p][t]
           d == [c EXCEPT !.pc = "batch", !.next = c.next + 1]
<1>1. Holding(p, t) /\ c.pc = "handler"
  BY DEF HandlerReturnsNil, Holding
<1>2. c \in Consumer /\ c.at \in Id /\ c.hi \in Id /\ HeldInOrder(p, t)
  BY <1>1, HeldId DEF IInv
<1>3. UNCHANGED <<cursor, acked, runs>>
  BY DEF HandlerReturnsNil, redis
<1>4. /\ consumer'[p][t] = d
      /\ \A q \in Process, u \in EventType :
            q # p \/ u # t => consumer'[q][u] = consumer[q][u]
  <2>1. consumer' = [consumer EXCEPT ![p][t] = d]
    BY DEF HandlerReturnsNil
  <2> HIDE DEF d
  <2> QED BY <2>1 DEF IInv, TypeOK, ConsumerTypeOK
<1>5. /\ consumer'[p][t].pc = "batch" /\ consumer'[p][t].at = c.at
      /\ consumer'[p][t].hi = c.hi /\ consumer'[p][t].next = c.next + 1
  BY <1>2, <1>4 DEF Consumer
<1>6. /\ succeeded'[t][c.at] = succeeded[t][c.at] + 1
      /\ succeeded[t][c.at] \in Nat
      /\ \A u \in EventType, m \in Id :
            u # t \/ m # c.at => succeeded'[u][m] = succeeded[u][m]
  BY <1>2 DEF HandlerReturnsNil, IInv, TypeOK, EffectsTypeOK
<1>7. \A u \in EventType, m \in Id :
         Untouched(u, m) /\ (u # t \/ m # c.at) => Untouched(u, m)'
  BY <1>3, <1>6 DEF Untouched
<1>8. \A q \in Process, u \in EventType : Holding(q, u)' <=> Holding(q, u)
  BY <1>1, <1>4, <1>5 DEF Holding
<1>9. \A u \in EventType : cursor[u] \in Nat
  BY DEF IInv, TypeOK, RedisTypeOK
<1>10. Custody'
  <2>1. ASSUME NEW u \in EventType, NEW n \in Id, cursor'[u] < n
        PROVE  Untouched(u, n)'
    BY <1>2, <1>3, <1>7, <1>9, <2>1 DEF IInv, Custody, HeldInOrder, Id
  <2>2. HeldInOrder(p, t)'
    <3>1. Handlers[t] \in Nat
      BY HandlersAssumption
    <3>2. \A k \in HandlerNo : runs'[t][c.at][k] =
              IF k < c.next + 1 \/ (k = c.next + 1 /\ "batch" = "handler")
              THEN 1 ELSE 0
      BY <1>1, <1>2, <1>3 DEF HeldInOrder, HandlerNo, Consumer
    <3>3. \A n \in Id : c.at < n /\ n <= c.hi => Untouched(t, n)'
      BY <1>2, <1>7 DEF HeldInOrder, Id
    <3>4. c.next + 1 >= 1 /\ succeeded'[t][c.at] = c.next + 1 - 1
      BY <1>2, <1>6 DEF HeldInOrder, Consumer
    <3>5. c.next + 1 <= Handlers[t] \/ c.next + 1 = Handlers[t] + 1
      BY <1>1, <1>2, <3>1 DEF HeldInOrder, Consumer
    <3>6. /\ 1 <= c.at /\ c.at <= c.hi /\ c.hi <= cursor'[t]
          /\ c.at \notin acked'[t]
      BY <1>2, <1>3 DEF HeldInOrder
    <3> DEFINE e == consumer'[p][t]
    <3>7. /\ 1 <= e.at /\ e.at <= e.hi /\ e.hi <= cursor'[t]
          /\ \A n \in Id : e.at < n /\ n <= e.hi => Untouched(t, n)'
          /\ e.at \notin acked'[t]
          /\ e.next >= 1 /\ succeeded'[t][e.at] = e.next - 1
      BY <1>2, <1>5, <3>3, <3>4, <3>6 DEF Consumer
    <3>8. e.next <= Handlers[t] \/ (e.pc = "batch" /\ e.next = Handlers[t] + 1)
      BY <1>5, <3>5
    <3>9. \A k \in HandlerNo : runs'[t][e.at][k] =
              IF k < e.next \/ (k = e.next /\ e.pc = "handler") THEN 1 ELSE 0
      BY <1>5, <3>2
    <3> QED BY <3>7, <3>8, <3>9 DEF HeldInOrder
  <2>3. ASSUME NEW q \in Process, NEW u \in EventType, Holding(q, u)',
               q # p \/ u # t
        PROVE  HeldInOrder(q, u)'
    <3>1. Holding(q, u) /\ consumer'[q][u] = consumer[q][u]
      BY <1>4, <1>8, <2>3
    <3>2. /\ HeldInOrder(q, u) /\ consumer[q][u] \in Consumer
          /\ consumer[q][u].at \in Id
      BY <3>1, HeldId DEF IInv
    <3>3. \A n \in Id : consumer[q][u].at <= n /\ n <= consumer[q][u].hi =>
             u # t \/ n # c.at
      BY <1>1, <2>3, <3>1, HeldApart DEF IInv, Safety
    <3>4. succeeded'[u][consumer[q][u].at] = succeeded[u][consumer[q][u].at]
      BY <1>6, <3>2, <3>3 DEF HeldInOrder, Consumer, Id
    <3>5. \A n \in Id : consumer[q][u].at < n /\ n <= consumer[q][u].hi =>
             Untouched(u, n)'
      BY <1>7, <3>2, <3>3 DEF HeldInOrder, Consumer, Id
    <3> QED BY <1>3, <3>1, <3>2, <3>4, <3>5 DEF HeldInOrder
  <2> QED BY <2>1, <2>2, <2>3 DEF Custody
<1>11. HandlerAtMostOnce'
  BY <1>3 DEF IInv, Safety, HandlerAtMostOnce
<1>12. HandlersInOrder'
  <2> SUFFICES ASSUME NEW u \in EventType, NEW n \in Id, NEW k \in HandlerNo,
                      runs[u][n][k] > 0
               PROVE  succeeded'[u][n] >= k - 1
      BY <1>3 DEF HandlersInOrder
  <2>1. succeeded[u][n] >= k - 1
    BY DEF IInv, Safety, HandlersInOrder
  <2> QED BY <1>6, <2>1 DEF HandlerNo
<1>13. AckedOnlyWhenHandled'
  <2> SUFFICES ASSUME NEW u \in EventType, NEW n \in acked[u]
               PROVE  n \in Undecodable[u] \/ succeeded'[u][n] = Handlers[u]
      BY <1>3 DEF AckedOnlyWhenHandled
  <2>1. n \in Id /\ (u # t \/ n # c.at)
    BY <1>2 DEF IInv, TypeOK, RedisTypeOK, HeldInOrder
  <2> QED BY <1>6, <2>1 DEF IInv, Safety, AckedOnlyWhenHandled
<1>14. ExclusiveDelivery'
  <2>1. \A q \in Process, u \in EventType, n \in Id :
           Holds(q, u, n)' => Holds(q, u, n)
    BY <1>1, <1>4, <1>5, <1>8 DEF Holds
  <2> QED BY <2>1 DEF IInv, Safety, ExclusiveDelivery
<1> QED BY <1>10, <1>11, <1>12, <1>13, <1>14 DEF Safety

(* Going on to the next message, with or without an acknowledgement.        *)
LEMMA AdvanceStep ==
  ASSUME IInv, TypeOK', NEW p \in Process, NEW t \in EventType,
         Holding(p, t), UNCHANGED <<runs, succeeded, cursor>>,
         consumer' = [consumer EXCEPT ![p][t] = Advance(consumer[p][t])],
         \/ UNCHANGED acked
         \/ /\ acked' = [acked EXCEPT ![t] = @ \union {consumer[p][t].at}]
            /\ \/ consumer[p][t].at \in Undecodable[t]
               \/ succeeded[t][consumer[p][t].at] = Handlers[t]
  PROVE  Custody' /\ Safety'
<1> DEFINE c == consumer[p][t]
<1>1. c \in Consumer /\ c.at \in Id /\ c.hi \in Id /\ HeldInOrder(p, t)
  BY HeldId DEF IInv
<1>2. /\ consumer'[p][t] = Advance(c)
      /\ \A q \in Process, u \in EventType :
            q # p \/ u # t => consumer'[q][u] = consumer[q][u]
  <2>1. ConsumerTypeOK /\ Advance(c) \in Consumer
    BY <1>1, AdvanceType DEF IInv, TypeOK
  <2> QED BY <2>1 DEF ConsumerTypeOK
<1>3. /\ consumer'[p][t].at = c.at + 1 /\ consumer'[p][t].hi = c.hi
      /\ consumer'[p][t].next = 1
      /\ consumer'[p][t].pc = IF c.at < c.hi THEN "batch" ELSE "poll"
  BY <1>1, <1>2, AdvanceType
<1>4. \A u \in EventType, m \in Id :
         m \in acked'[u] => m \in acked[u] \/ (u = t /\ m = c.at)
  BY DEF IInv, TypeOK, RedisTypeOK
<1>5. \A u \in EventType, m \in Id :
         Untouched(u, m) /\ (u # t \/ m # c.at) => Untouched(u, m)'
  BY <1>4 DEF Untouched
<1>6. \A q \in Process, u \in EventType :
         Holding(q, u)' => Holding(q, u) /\ (q = p /\ u = t => c.at < c.hi)
  BY <1>2, <1>3 DEF Holding
<1>7. \A u \in EventType : cursor[u] \in Nat
  BY DEF IInv, TypeOK, RedisTypeOK
<1>8. Custody'
  <2>1. ASSUME NEW u \in EventType, NEW n \in Id, cursor'[u] < n
        PROVE  Untouched(u, n)'
    BY <1>1, <1>5, <1>7, <2>1 DEF IInv, Custody, HeldInOrder, Id
  <2>2. ASSUME Holding(p, t)' PROVE HeldInOrder(p, t)'
    <3>1. c.at < c.hi /\ consumer'[p][t].pc = "batch"
      BY <1>3, <1>6, <2>2
    <3>2. PICK m \in Id : m = c.at + 1
      BY <1>1, <3>1, SizesAssumption DEF Id, Consumer
    <3>3. \A n \in Id : c.at < n /\ n <= c.hi => Untouched(t, n)'
      BY <1>1, <1>5 DEF HeldInOrder, Id
    <3>4. m <= c.hi /\ Untouched(t, m)'
      BY <1>1, <3>1, <3>2, <3>3 DEF Id
    <3>5. Handlers[t] \in Nat
      BY HandlersAssumption
    <3>6. /\ 1 <= m /\ c.hi <= cursor'[t]
          /\ m \notin acked'[t]
          /\ succeeded'[t][m] = 1 - 1
          /\ 1 <= Handlers[t] \/ 1 = Handlers[t] + 1
      BY <1>1, <3>4, <3>5 DEF HeldInOrder, Untouched, Id
    <3>7. \A n \in Id : m < n /\ n <= c.hi => Untouched(t, n)'
      BY <1>1, <3>2, <3>3 DEF Id
    <3>8. \A k \in HandlerNo : runs'[t][m][k] =
             IF k < 1 \/ (k = 1 /\ "batch" = "handler") THEN 1 ELSE 0
      BY <3>4 DEF Untouched, HandlerNo
    <3> QED BY <1>3, <3>1, <3>2, <3>4, <3>6, <3>7, <3>8 DEF HeldInOrder
  <2>3. ASSUME NEW q \in Process, NEW u \in EventType, Holding(q, u)',
               q # p \/ u # t
        PROVE  HeldInOrder(q, u)'
    <3>1. Holding(q, u) /\ consumer'[q][u] = consumer[q][u]
      BY <1>2, <1>6, <2>3
    <3>2. /\ HeldInOrder(q, u) /\ consumer[q][u] \in Consumer
          /\ consumer[q][u].at \in Id
      BY <3>1, HeldId DEF IInv
    <3>3. \A n \in Id : consumer[q][u].at <= n /\ n <= consumer[q][u].hi =>
             u # t \/ n # c.at
      BY <2>3, <3>1, HeldApart DEF IInv, Safety
    <3>4. consumer[q][u].at \notin acked'[u]
      BY <1>4, <3>2, <3>3 DEF HeldInOrder, Consumer, Id
    <3>5. \A n \in Id : consumer[q][u].at < n /\ n <= consumer[q][u].hi =>
             Untouched(u, n)'
      BY <1>5, <3>2, <3>3 DEF HeldInOrder, Consumer, Id
    <3> QED BY <3>1, <3>2, <3>4, <3>5 DEF HeldInOrder
  <2> QED BY <2>1, <2>2, <2>3 DEF Custody
<1>9. (HandlerAtMostOnce /\ HandlersInOrder)'
  BY DEF IInv, Safety, HandlerAtMostOnce, HandlersInOrder
<1>10. AckedOnlyWhenHandled'
  BY DEF IInv, Safety, AckedOnlyWhenHandled, TypeOK, RedisTypeOK
<1>11. ExclusiveDelivery'
  <2>1. \A q \in Process, u \in EventType, n \in Id :
           Holds(q, u, n)' => Holds(q, u, n)
    BY <1>1, <1>2, <1>3, <1>6 DEF Holds, Consumer, Id
  <2> QED BY <2>1 DEF IInv, Safety, ExclusiveDelivery
<1> QED BY <1>8, <1>9, <1>10, <1>11 DEF Safety

(* No step breaks custody or safety.                                        *)
LEMMA CustodyStep == IInv /\ [Next]_vars /\ TypeOK' => Custody' /\ Safety'
<1> SUFFICES ASSUME IInv, [Next]_vars, TypeOK' PROVE Custody' /\ Safety'
    OBVIOUS
<1>0. ConsumerTypeOK /\ \A t \in EventType : cursor[t] \in Nat
  BY DEF IInv, TypeOK, RedisTypeOK
<1>1. ASSUME UNCHANGED <<runs, succeeded, acked, cursor>>,
             \A p \in Process, t \in EventType :
                Holding(p, t)' => consumer'[p][t] = consumer[p][t]
      PROVE  Custody' /\ Safety'
  <2>1. \A t \in EventType : cursor[t] <= cursor'[t]
    BY <1>0, <1>1
  <2> QED BY <1>1, <2>1, QuietStep
<1>2. ASSUME NEW t \in EventType, Publish(t) PROVE Custody' /\ Safety'
  BY <1>1, <1>2 DEF Publish, effects
<1>3. ASSUME NEW p \in Process,
             \/ StartConsumers(p) \/ Close(p) \/ CloseReturns(p)
             \/ CloseTimesOut(p) \/ Restart(p)
      PROVE  Custody' /\ Safety'
  BY <1>1, <1>3 DEF StartConsumers, Close, CloseReturns, CloseTimesOut,
                    Restart, redis, effects
<1>4. ASSUME NEW p \in Process, Die(p) PROVE Custody' /\ Safety'
  <2>1. \A q \in Process, t \in EventType :
           Holding(q, t)' => consumer'[q][t] = consumer[q][t]
    BY <1>0, <1>4 DEF Die, Holding, NoConsumer, ConsumerTypeOK
  <2> QED BY <1>1, <1>4, <2>1 DEF Die, redis, effects
<1>5. ASSUME NEW p \in Process, NEW t \in EventType, NEW where \in Pc,
             where \notin {"batch", "handler"}, Goto(p, t, where)
      PROVE  \A q \in Process, u \in EventType :
                Holding(q, u)' => consumer'[q][u] = consumer[q][u]
  <2>1. /\ consumer'[p][t] = [consumer[p][t] EXCEPT !.pc = where]
        /\ \A q \in Process, u \in EventType :
              q # p \/ u # t => consumer'[q][u] = consumer[q][u]
    BY <1>0, <1>5, GotoReplaces
  <2>2. consumer'[p][t].pc = where
    BY <1>0, <2>1 DEF ConsumerTypeOK, Consumer
  <2> QED BY <1>5, <2>1, <2>2 DEF Holding
<1>6. ASSUME NEW p \in Process, NEW t \in EventType,
             \/ ListConsumer(p, t) \/ LaunchConsumer(p, t)
             \/ CreateGroup(p, t) \/ CreateGroupFails(p, t)
             \/ CheckStop(p, t) \/ ReadNothing(p, t)
      PROVE  Custody' /\ Safety'
  <2>1. \A q \in Process, u \in EventType :
           Holding(q, u)' => consumer'[q][u] = consumer[q][u]
    BY <1>5, <1>6 DEF ListConsumer, LaunchConsumer, CreateGroup,
       CreateGroupFails, CheckStop, ReadNothing, Pc
  <2>2. UNCHANGED <<runs, succeeded, acked, cursor>>
    BY <1>6 DEF ListConsumer, LaunchConsumer, CreateGroup,
       CreateGroupFails, CheckStop, ReadNothing, redis, effects
  <2> QED BY <1>1, <2>1, <2>2
<1>7. ASSUME NEW p \in Process, NEW t \in EventType, Read(p, t)
      PROVE  Custody' /\ Safety'
  BY <1>7, ReadStep
<1>8. ASSUME NEW p \in Process, NEW t \in EventType, ReadReplyLost(p, t)
      PROVE  Custody' /\ Safety'
  <2>1. \A q \in Process, u \in EventType :
           Holding(q, u)' => consumer'[q][u] = consumer[q][u]
    BY <1>5, <1>8 DEF ReadReplyLost, Pc
  <2>2. \A u \in EventType : cursor[u] <= cursor'[u]
    BY <1>0, <1>8, SizesAssumption
    DEF ReadReplyLost, Deliver, Undelivered, IInv, TypeOK, RedisTypeOK, Id
  <2>3. UNCHANGED <<runs, succeeded, acked>>
    BY <1>8 DEF ReadReplyLost, effects
  <2> QED BY <2>1, <2>2, <2>3, QuietStep
<1>9. ASSUME NEW p \in Process, NEW t \in EventType,
             SkipUndecodable(p, t) \/ AckHandled(p, t) \/ HandlerFails(p, t)
      PROVE  Custody' /\ Safety'
  <2>1. /\ Holding(p, t)
        /\ consumer' = [consumer EXCEPT ![p][t] = Advance(consumer[p][t])]
        /\ UNCHANGED <<runs, succeeded, cursor>>
    BY <1>9 DEF SkipUndecodable, AckHandled, HandlerFails, Acknowledge,
                Holding, redis, effects
  <2>2. HeldInOrder(p, t) /\ consumer[p][t] \in Consumer
    BY <2>1, HeldId DEF IInv
  <2>3. AckHandled(p, t) => succeeded[t][consumer[p][t].at] = Handlers[t]
    BY <2>2, HandlersAssumption DEF AckHandled, HeldInOrder, Consumer
  <2>4. \/ UNCHANGED acked
        \/ /\ acked' = [acked EXCEPT ![t] = @ \union {consumer[p][t].at}]
           /\ \/ consumer[p][t].at \in Undecodable[t]
              \/ succeeded[t][consumer[p][t].at] = Handlers[t]
    BY <1>9, <2>3 DEF SkipUndecodable, AckHandled, HandlerFails, Acknowledge,
                      redis
  <2> QED BY <2>1, <2>4, AdvanceStep
<1>10. ASSUME NEW p \in Process, NEW t \in EventType, CallHandler(p, t)
       PROVE  Custody' /\ Safety'
  BY <1>10, CallStep
<1>11. ASSUME NEW p \in Process, NEW t \in EventType, HandlerReturnsNil(p, t)
       PROVE  Custody' /\ Safety'
  BY <1>11, ReturnStep
<1>12. CASE UNCHANGED vars
  BY <1>1, <1>12 DEF vars, redis, effects
<1> QED BY <1>2, <1>3, <1>4, <1>6, <1>7, <1>8, <1>9, <1>10, <1>11, <1>12
        DEF Next, Consume

(* IInv is inductive.                                                       *)
LEMMA NextInv == IInv /\ [Next]_vars => IInv'
  BY TypeStep, CustodyStep DEF IInv

-----------------------------------------------------------------------------
(* The bus keeps its types.                                                 *)
THEOREM TypeCorrect == Spec => []TypeOK
<1>1. IInv => TypeOK
  BY DEF IInv
<1> QED BY <1>1, InitInv, NextInv, PTL DEF Spec

(* No handler ever sees an event twice: not after a failure, a death, a     *)
(* restart or a lost reply (bus.go run, 179-185, reads only ">").           *)
THEOREM AtMostOnce == Spec => []HandlerAtMostOnce
<1>1. IInv => HandlerAtMostOnce
  BY DEF IInv, Safety
<1> QED BY <1>1, InitInv, NextInv, PTL DEF Spec

(* Handlers of an event run in order, each after its predecessor succeeded  *)
(* (bus.go handleEvent, 262-269).                                           *)
THEOREM InOrder == Spec => []HandlersInOrder
<1>1. IInv => HandlersInOrder
  BY DEF IInv, Safety
<1> QED BY <1>1, InitInv, NextInv, PTL DEF Spec

(* Only what every handler accepted is acknowledged (bus.go                 *)
(* processMessages, 249-256).                                               *)
THEOREM AckedWasHandled == Spec => []AckedOnlyWhenHandled
<1>1. IInv => AckedOnlyWhenHandled
  BY DEF IInv, Safety
<1> QED BY <1>1, InitInv, NextInv, PTL DEF Spec

(* The consumers of the group hold disjoint sets of events.                 *)
THEOREM HeldByOne == Spec => []ExclusiveDelivery
<1>1. IInv => ExclusiveDelivery
  BY DEF IInv, Safety
<1> QED BY <1>1, InitInv, NextInv, PTL DEF Spec

(* The custody of the stream, which carries the theorems above.             *)
THEOREM CustodyKept == Spec => []Custody
<1>1. IInv => Custody
  BY DEF IInv
<1> QED BY <1>1, InitInv, NextInv, PTL DEF Spec

-----------------------------------------------------------------------------
(***************************************************************************)
(* The event bus implements the at-most-once contract of EventDelivery.    *)
(*                                                                         *)
(* The life of an event is a function of the streams, the pending lists    *)
(* and the batches of the consumers.  Publishing is the contract's Send, a *)
(* read its HandOut, a handler's start its Call, XACK its Acknowledge; a   *)
(* handler that fails, an XACK that fails and a process that dies leave    *)
(* events behind, and every other step is a stutter.                       *)
(***************************************************************************)

(* What the mapping of an event to its life needs beyond custody: trimming  *)
(* and delivery stay within the stream, the pending list holds delivered    *)
(* events only, and whatever a consumer holds is on it.                     *)
Kept ==
    /\ \A t \in EventType : first[t] <= last[t] + 1 /\ cursor[t] <= last[t]
    /\ \A t \in EventType : \A n \in pending[t] : n <= cursor[t]
    /\ \A p \in Process, t \in EventType, n \in Id :
          Holds(p, t, n) => n \in pending[t]

(* A consumer that goes on to its next event lets go of the first one.      *)
LEMMA AdvanceHolds ==
  ASSUME IInv, NEW p \in Process, NEW t \in EventType, Holding(p, t),
         consumer' = [consumer EXCEPT ![p][t] = Advance(@)]
  PROVE  \A q \in Process, u \in EventType, n \in Id :
            Holds(q, u, n)' <=>
               Holds(q, u, n) /\ ~(q = p /\ u = t /\ n = consumer[p][t].at)
<1> DEFINE c == consumer[p][t]
<1>1. c \in Consumer /\ c.at \in Id /\ c.hi \in Id /\ HeldInOrder(p, t)
  BY HeldId DEF IInv
<1>2. /\ consumer'[p][t] = Advance(c)
      /\ \A q \in Process, u \in EventType :
            q # p \/ u # t => consumer'[q][u] = consumer[q][u]
  <2>1. consumer' = [consumer EXCEPT ![p][t] = Advance(c)]
    OBVIOUS
  <2>2. ConsumerTypeOK /\ Advance(c) \in Consumer
    BY <1>1, AdvanceType DEF IInv, TypeOK
  <2> QED BY <2>1, <2>2 DEF ConsumerTypeOK
<1>3. /\ consumer'[p][t].at = c.at + 1 /\ consumer'[p][t].hi = c.hi
      /\ consumer'[p][t].pc = IF c.at < c.hi THEN "batch" ELSE "poll"
  BY <1>1, <1>2, AdvanceType
<1>4. \A n \in Id : Holds(p, t, n)' <=> Holds(p, t, n) /\ n # c.at
  BY <1>1, <1>3 DEF Holds, Holding, Consumer, Id
<1>5. ASSUME NEW q \in Process, NEW u \in EventType, NEW n \in Id,
             q # p \/ u # t
      PROVE  Holds(q, u, n)' <=> Holds(q, u, n)
  BY <1>2, <1>5 DEF Holds, Holding
<1> QED BY <1>4, <1>5

(* A consumer that calls a handler, or hears from it, keeps its batch.      *)
LEMMA HandlerHolds ==
  ASSUME IInv, NEW p \in Process, NEW t \in EventType,
         CallHandler(p, t) \/ HandlerReturnsNil(p, t)
  PROVE  \A q \in Process, u \in EventType, n \in Id :
            Holds(q, u, n)' <=> Holds(q, u, n)
<1> DEFINE c == consumer[p][t]
<1>0. ConsumerTypeOK /\ c \in Consumer /\ Holding(p, t)
  BY DEF IInv, TypeOK, ConsumerTypeOK, CallHandler, HandlerReturnsNil, Holding
<1>1. /\ consumer'[p][t].at = c.at /\ consumer'[p][t].hi = c.hi
      /\ consumer'[p][t].pc \in {"batch", "handler"}
      /\ \A q \in Process, u \in EventType :
            q # p \/ u # t => consumer'[q][u] = consumer[q][u]
  <2>1. CASE CallHandler(p, t)
    <3>1. Goto(p, t, "handler") /\ "handler" \in Pc
      BY <2>1, Zenon DEF CallHandler, Pc
    <3>2. /\ consumer'[p][t] = [c EXCEPT !.pc = "handler"]
          /\ \A q \in Process, u \in EventType :
                q # p \/ u # t => consumer'[q][u] = consumer[q][u]
      BY <1>0, <3>1, GotoReplaces
    <3> QED BY <1>0, <3>2 DEF Consumer
  <2>2. CASE HandlerReturnsNil(p, t)
    <3> DEFINE d == [c EXCEPT !.pc = "batch", !.next = c.next + 1]
    <3>1. consumer' = [consumer EXCEPT ![p][t] = d]
      BY <2>2 DEF HandlerReturnsNil
    <3>2. d.at = c.at /\ d.hi = c.hi /\ d.pc = "batch"
      BY <1>0 DEF Consumer
    <3> HIDE DEF d
    <3> QED BY <1>0, <3>1, <3>2 DEF ConsumerTypeOK
  <2> QED BY <2>1, <2>2
<1> QED BY <1>0, <1>1 DEF Holds, Holding

(* A read gives its consumer the batch, and that consumer held nothing.     *)
LEMMA ReadHolds ==
  ASSUME IInv, NEW p \in Process, NEW t \in EventType,
         consumer[p][t].pc = "read", NEW lo \in Id, NEW hi \in Id,
         consumer' = [consumer EXCEPT ![p][t] =
                         [pc |-> "batch", at |-> lo, hi |-> hi, next |-> 1]]
  PROVE  \A q \in Process, u \in EventType, n \in Id :
            Holds(q, u, n)' <=>
               Holds(q, u, n) \/ (q = p /\ u = t /\ n \in lo .. hi)
<1>1. /\ consumer'[p][t] = [pc |-> "batch", at |-> lo, hi |-> hi, next |-> 1]
      /\ \A q \in Process, u \in EventType :
            q # p \/ u # t => consumer'[q][u] = consumer[q][u]
  BY DEF IInv, TypeOK, ConsumerTypeOK
<1>2. \A n \in Id : ~Holds(p, t, n) /\ (Holds(p, t, n)' <=> n \in lo .. hi)
  BY <1>1 DEF Holds, Holding
<1>3. \A q \in Process, u \in EventType, n \in Id :
         q # p \/ u # t => (Holds(q, u, n)' <=> Holds(q, u, n))
  BY <1>1 DEF Holds, Holding
<1> QED BY <1>2, <1>3

(* The steps that hand out no event and acknowledge none.                   *)
Quiet ==
    \/ \E p \in Process :
          \/ StartConsumers(p) \/ Close(p) \/ CloseReturns(p)
          \/ CloseTimesOut(p) \/ Die(p) \/ Restart(p)
    \/ \E p \in Process, t \in EventType :
          \/ ListConsumer(p, t) \/ LaunchConsumer(p, t)
          \/ CreateGroup(p, t) \/ CreateGroupFails(p, t)
          \/ CheckStop(p, t) \/ ReadNothing(p, t)
          \/ HandlerReturnsNil(p, t) \/ HandlerFails(p, t)

(* A consumer that moves to a place of the loop where no batch is held      *)
(* holds nothing any more, and the other consumers hold what they held.     *)
LEMMA GotoHolds ==
  ASSUME IInv, NEW p \in Process, NEW t \in EventType, NEW where \in Pc,
         where \notin {"batch", "handler"}, Goto(p, t, where)
  PROVE  \A q \in Process, u \in EventType, n \in Id :
            Holds(q, u, n)' <=> Holds(q, u, n) /\ ~(q = p /\ u = t)
<1>0. ConsumerTypeOK
  BY DEF IInv, TypeOK
<1>1. /\ consumer'[p][t] = [consumer[p][t] EXCEPT !.pc = where]
      /\ \A q \in Process, u \in EventType :
            q # p \/ u # t => consumer'[q][u] = consumer[q][u]
  BY <1>0, GotoReplaces
<1>2. consumer'[p][t].pc = where
  BY <1>0, <1>1 DEF ConsumerTypeOK, Consumer
<1> QED BY <1>1, <1>2 DEF Holds, Holding

(* Quiet steps change nothing in Redis but the existence of the group, run  *)
(* no handler, and can only make a consumer let go of events.               *)
LEMMA QuietHolds ==
  ASSUME IInv, Quiet
  PROVE  /\ UNCHANGED <<last, first, cursor, pending, acked, runs>>
         /\ \A q \in Process, u \in EventType, n \in Id :
               Holds(q, u, n)' => Holds(q, u, n)
<1> USE DEF redis, effects
<1>1. ASSUME NEW p \in Process,
             \/ StartConsumers(p) \/ Close(p) \/ CloseReturns(p)
             \/ CloseTimesOut(p) \/ Restart(p)
      PROVE  UNCHANGED <<consumer, last, first, cursor, pending, acked, runs>>
  BY <1>1 DEF StartConsumers, Close, CloseReturns, CloseTimesOut, Restart
<1>2. ASSUME NEW p \in Process, Die(p)
      PROVE  /\ UNCHANGED <<last, first, cursor, pending, acked, runs>>
             /\ \A q \in Process, u \in EventType, n \in Id :
                   Holds(q, u, n)' => Holds(q, u, n)
  BY <1>2 DEF Die, Holds, Holding, NoConsumer, IInv, TypeOK, ConsumerTypeOK
<1>3. ASSUME NEW p \in Process, NEW t \in EventType,
             \/ ListConsumer(p, t) \/ LaunchConsumer(p, t)
             \/ CreateGroup(p, t) \/ CreateGroupFails(p, t)
             \/ CheckStop(p, t) \/ ReadNothing(p, t)
      PROVE  /\ UNCHANGED <<last, first, cursor, pending, acked, runs>>
             /\ \E where \in Pc \ {"batch", "handler"} : Goto(p, t, where)
  <2>1. UNCHANGED <<last, first, cursor, pending, acked, runs>>
    BY <1>3 DEF ListConsumer, LaunchConsumer, CreateGroup,
       CreateGroupFails, CheckStop, ReadNothing
  <2>2. {"listed", "create", "poll", "exited", "read"} \subseteq
           Pc \ {"batch", "handler"}
    BY DEF Pc
  <2>3. \E where \in {"listed", "create", "poll", "exited", "read"} :
           Goto(p, t, where)
    BY <1>3, Zenon DEF ListConsumer, LaunchConsumer, CreateGroup,
       CreateGroupFails, CheckStop, ReadNothing
  <2> QED BY <2>1, <2>2, <2>3
<1>4. ASSUME NEW p \in Process, NEW t \in EventType, HandlerFails(p, t)
      PROVE  /\ UNCHANGED <<last, first, cursor, pending, acked, runs>>
             /\ \A q \in Process, u \in EventType, n \in Id :
                   Holds(q, u, n)' => Holds(q, u, n)
  <2>1. /\ UNCHANGED <<last, first, cursor, pending, acked, runs>>
        /\ Holding(p, t)
        /\ consumer' = [consumer EXCEPT ![p][t] = Advance(@)]
    BY <1>4 DEF HandlerFails, Holding
  <2> QED BY <2>1, AdvanceHolds
<1>5. ASSUME NEW p \in Process, NEW t \in EventType, HandlerReturnsNil(p, t)
      PROVE  UNCHANGED <<last, first, cursor, pending, acked, runs>>
  BY <1>5 DEF HandlerReturnsNil
<1>6. ASSUME NEW p \in Process, NEW t \in EventType,
             NEW where \in Pc \ {"batch", "handler"}, Goto(p, t, where)
      PROVE  \A q \in Process, u \in EventType, n \in Id :
                Holds(q, u, n)' => Holds(q, u, n)
  BY <1>6, GotoHolds
<1>7. ASSUME UNCHANGED consumer
      PROVE  \A q \in Process, u \in EventType, n \in Id :
                Holds(q, u, n)' => Holds(q, u, n)
  BY <1>7 DEF Holds, Holding
<1>8. UNCHANGED <<last, first, cursor, pending, acked, runs>>
  BY <1>1, <1>2, <1>3, <1>4, <1>5 DEF Quiet
<1>9. \A q \in Process, u \in EventType, n \in Id :
         Holds(q, u, n)' => Holds(q, u, n)
  BY <1>1, <1>2, <1>3, <1>4, <1>6, <1>7, HandlerHolds DEF Quiet
<1> QED BY <1>8, <1>9

(* A delivery moves the cursor over the events it puts on the pending list. *)
LEMMA DeliverMoves ==
  ASSUME IInv, Kept, NEW t \in EventType, NEW lo \in Id, NEW hi \in Id,
         Deliver(t, lo, hi)
  PROVE  /\ cursor[t] < lo /\ first[t] <= lo /\ lo <= hi /\ hi <= last[t]
         /\ cursor'[t] = hi /\ pending'[t] = pending[t] \union (lo .. hi)
         /\ \A u \in EventType : u # t =>
               cursor'[u] = cursor[u] /\ pending'[u] = pending[u]
         /\ \A n \in Undelivered(t) : lo <= n
  BY SizesAssumption
  DEF Deliver, Undelivered, IInv, TypeOK, RedisTypeOK, Kept, Id

(* Kept holds at first.                                                     *)
LEMMA KeptInit == Init => Kept
  BY DEF Init, NoConsumer, Kept, Holds, Holding

(* And every step keeps it.                                                 *)
LEMMA KeptStep == IInv /\ Kept /\ [Next]_vars => Kept'
<1> SUFFICES ASSUME IInv, Kept, [Next]_vars PROVE Kept'
    OBVIOUS
<1>0. RedisTypeOK
  BY DEF IInv, TypeOK
<1>1. CASE UNCHANGED vars
  BY <1>1 DEF vars, redis, Kept, Holds, Holding
<1>2. CASE Quiet
  BY <1>2, QuietHolds DEF Kept
<1>3. ASSUME NEW t \in EventType, Publish(t) PROVE Kept'
  <2>1. UNCHANGED <<cursor, pending, consumer>>
    BY <1>3 DEF Publish
  <2>2. \A u \in EventType : first'[u] <= last'[u] + 1 /\ last[u] <= last'[u]
    BY <1>0, <1>3 DEF Publish, RedisTypeOK, Kept
  <2>3. \A u \in EventType : cursor'[u] <= last'[u]
    BY <1>0, <1>3, <2>1 DEF Publish, RedisTypeOK, Kept
  <2> QED BY <2>1, <2>2, <2>3 DEF Kept, Holds, Holding
<1>4. ASSUME NEW t \in EventType, NEW lo \in Id, NEW hi \in Id,
             Deliver(t, lo, hi), UNCHANGED <<last, first>>,
             \A q \in Process, u \in EventType, n \in Id :
                Holds(q, u, n)' => Holds(q, u, n) \/ (u = t /\ n \in lo .. hi)
      PROVE  Kept'
  <2>1. /\ cursor[t] < lo /\ lo <= hi /\ hi <= last[t]
        /\ cursor'[t] = hi /\ pending'[t] = pending[t] \union (lo .. hi)
        /\ \A u \in EventType : u # t =>
              cursor'[u] = cursor[u] /\ pending'[u] = pending[u]
    BY <1>4, DeliverMoves
  <2>2. ASSUME NEW u \in EventType
        PROVE  /\ first'[u] <= last'[u] + 1 /\ cursor'[u] <= last'[u]
               /\ \A n \in pending'[u] : n <= cursor'[u]
    BY <1>0, <1>4, <2>1 DEF RedisTypeOK, Kept, Id
  <2>3. ASSUME NEW q \in Process, NEW u \in EventType, NEW n \in Id,
               Holds(q, u, n)'
        PROVE  n \in pending'[u]
    BY <1>4, <2>1, <2>3 DEF Kept
  <2> QED BY <2>2, <2>3 DEF Kept
<1>5. ASSUME NEW p \in Process, NEW t \in EventType, Read(p, t) PROVE Kept'
  <2>1. PICK lo \in Id, hi \in Id :
           /\ Deliver(t, lo, hi)
           /\ consumer' = [consumer EXCEPT ![p][t] =
                              [pc |-> "batch", at |-> lo, hi |-> hi, next |-> 1]]
    BY <1>5 DEF Read
  <2>2. consumer[p][t].pc = "read" /\ UNCHANGED <<last, first>>
    BY <1>5 DEF Read
  <2>3. \A q \in Process, u \in EventType, n \in Id :
           Holds(q, u, n)' => Holds(q, u, n) \/ (u = t /\ n \in lo .. hi)
    BY <2>1, <2>2, ReadHolds
  <2>4. Deliver(t, lo, hi)
    BY <2>1
  <2> QED BY <1>4, <2>2, <2>3, <2>4
<1>6. ASSUME NEW p \in Process, NEW t \in EventType, ReadReplyLost(p, t)
      PROVE  Kept'
  <2>1. PICK lo \in Id, hi \in Id : Deliver(t, lo, hi)
    BY <1>6 DEF ReadReplyLost
  <2>2. Goto(p, t, "poll") /\ "poll" \in Pc /\ UNCHANGED <<last, first>>
    BY <1>6 DEF ReadReplyLost, Pc
  <2>3. \A q \in Process, u \in EventType, n \in Id :
           Holds(q, u, n)' => Holds(q, u, n)
    BY <2>2, GotoHolds
  <2> QED BY <1>4, <2>1, <2>2, <2>3
<1>7. ASSUME NEW p \in Process, NEW t \in EventType,
             SkipUndecodable(p, t) \/ AckHandled(p, t)
      PROVE  Kept'
  <2>1. Acknowledge(p, t) /\ Holding(p, t)
    BY <1>7 DEF SkipUndecodable, AckHandled, Holding
  <2>2. /\ UNCHANGED <<last, first, cursor>>
        /\ consumer' = [consumer EXCEPT ![p][t] = Advance(@)]
        /\ \A u \in EventType : pending'[u] \subseteq pending[u]
        /\ \A u \in EventType, n \in Id :
              n \in pending[u] /\ ~(u = t /\ n = consumer[p][t].at)
                 => n \in pending'[u]
    BY <1>0, <2>1 DEF Acknowledge, RedisTypeOK
  <2>3. HeldInOrder(p, t) /\ consumer[p][t].at \in Id
    BY <2>1, HeldId DEF IInv
  <2>4. ASSUME NEW q \in Process, NEW u \in EventType, NEW n \in Id,
               Holds(q, u, n)'
        PROVE  n \in pending'[u]
    <3>1. Holds(q, u, n) /\ ~(q = p /\ u = t /\ n = consumer[p][t].at)
      BY <2>1, <2>2, <2>4, AdvanceHolds
    <3>2. Holds(p, t, consumer[p][t].at)
      BY <2>1, <2>3, HeldId DEF Holds, HeldInOrder, Id, Consumer, IInv
    <3>3. ~(u = t /\ n = consumer[p][t].at)
      BY <2>3, <3>1, <3>2 DEF IInv, Safety, ExclusiveDelivery
    <3> QED BY <2>2, <3>1, <3>3 DEF Kept
  <2> QED BY <2>2, <2>4 DEF Kept
<1>8. ASSUME NEW p \in Process, NEW t \in EventType, CallHandler(p, t)
      PROVE  Kept'
  <2>1. UNCHANGED <<last, first, cursor, pending>>
    BY <1>8 DEF CallHandler, redis
  <2> QED BY <1>8, <2>1, HandlerHolds DEF Kept
<1> QED BY <1>1, <1>2, <1>3, <1>5, <1>6, <1>7, <1>8 DEF Next, Consume, Quiet

(* The life of an event, case by case: the conditions exclude one another.  *)
LifeCases ==
    \A t \in EventType, n \in Id :
       /\ n > last[t] => Life(t, n) = "unsent"
       /\ n \in acked[t] => Life(t, n) = "acked" /\ n <= cursor[t]
       /\ Held(t, n) => /\ Life(t, n) = "held"
                        /\ n \in pending[t] /\ n \notin acked[t]
       /\ n \in pending[t] /\ n \notin acked[t] /\ ~Held(t, n)
             => Life(t, n) = "left"
       /\ n \in Undelivered(t) => Life(t, n) = "queued"
       /\ n <= last[t] /\ n \notin acked[t] /\ n \notin pending[t]
             /\ n \notin Undelivered(t) => Life(t, n) = "trimmed"

(* Custody and Kept make them exclusive.                                    *)
LEMMA LifeIs == IInv /\ Kept => LifeCases
<1> SUFFICES ASSUME IInv, Kept, NEW t \in EventType, NEW n \in Id
             PROVE  /\ n > last[t] => Life(t, n) = "unsent"
                    /\ n \in acked[t] => Life(t, n) = "acked" /\ n <= cursor[t]
                    /\ Held(t, n) => /\ Life(t, n) = "held"
                                     /\ n \in pending[t] /\ n \notin acked[t]
                    /\ n \in pending[t] /\ n \notin acked[t] /\ ~Held(t, n)
                          => Life(t, n) = "left"
                    /\ n \in Undelivered(t) => Life(t, n) = "queued"
                    /\ n <= last[t] /\ n \notin acked[t] /\ n \notin pending[t]
                          /\ n \notin Undelivered(t) => Life(t, n) = "trimmed"
    BY DEF LifeCases
<1>1. last[t] \in Nat /\ cursor[t] \in Nat /\ n \in Nat
  BY SizesAssumption DEF IInv, TypeOK, RedisTypeOK, Id
<1>2. n \in acked[t] => n <= cursor[t]
  BY <1>1 DEF IInv, Custody, Untouched
<1>3. cursor[t] <= last[t] /\ (n \in pending[t] => n <= cursor[t])
  BY DEF Kept
<1>4. Held(t, n) => n \in pending[t] /\ n \notin acked[t]
  <2> SUFFICES ASSUME NEW p \in Process, Holds(p, t, n)
               PROVE  n \in pending[t] /\ n \notin acked[t]
      BY DEF Held
  <2>1. HeldInOrder(p, t) /\ consumer[p][t] \in Consumer
    BY HeldId DEF IInv, Holds
  <2>2. n = consumer[p][t].at
           \/ (consumer[p][t].at < n /\ n <= consumer[p][t].hi)
    BY <1>1, <2>1 DEF Holds, Consumer
  <2> QED BY <2>1, <2>2 DEF Kept, HeldInOrder, Untouched
<1>5. n \in Undelivered(t) => cursor[t] < n /\ n <= last[t]
  BY DEF Undelivered
<1>6. CASE n > last[t]
  <2>1. ~(n \in acked[t]) /\ ~Held(t, n) /\ ~(n \in pending[t] \ acked[t])
           /\ ~(n \in Undelivered(t))
    BY <1>1, <1>2, <1>3, <1>4, <1>5, <1>6
  <2>2. Life(t, n) = "unsent"
    BY <1>6, <2>1 DEF Life
  <2> QED BY <1>1, <1>6, <2>1, <2>2
<1>7. CASE n \in acked[t]
  <2>1. ~(n > last[t]) /\ ~Held(t, n) /\ ~(n \in pending[t] \ acked[t])
           /\ ~(n \in Undelivered(t))
    BY <1>1, <1>2, <1>3, <1>4, <1>5, <1>7
  <2>2. Life(t, n) = "acked"
    BY <1>7, <2>1 DEF Life
  <2> QED BY <1>1, <1>2, <1>7, <2>1, <2>2
<1>8. CASE Held(t, n)
  <2>1. /\ ~(n > last[t]) /\ ~(n \in acked[t]) /\ n \in pending[t]
        /\ ~(n \in Undelivered(t)) /\ ~(~Held(t, n))
    BY <1>1, <1>3, <1>4, <1>5, <1>8
  <2>2. Life(t, n) = "held"
    BY <1>8, <2>1 DEF Life
  <2> QED BY <1>1, <1>8, <2>1, <2>2
<1>9. CASE n \in pending[t] /\ n \notin acked[t] /\ ~Held(t, n)
  <2>1. ~(n > last[t]) /\ ~(n \in Undelivered(t)) /\ n \in pending[t] \ acked[t]
    BY <1>1, <1>3, <1>5, <1>9
  <2>2. Life(t, n) = "left"
    BY <1>9, <2>1 DEF Life
  <2> QED BY <1>1, <1>9, <2>1, <2>2
<1>10. CASE n \in Undelivered(t)
  <2>1. /\ ~(n > last[t]) /\ ~(n \in acked[t]) /\ ~Held(t, n)
        /\ ~(n \in pending[t] \ acked[t])
    BY <1>1, <1>2, <1>3, <1>4, <1>5, <1>10
  <2>2. Life(t, n) = "queued"
    BY <1>10, <2>1 DEF Life
  <2> QED BY <1>1, <1>10, <2>1, <2>2
<1>11. CASE /\ n <= last[t] /\ n \notin acked[t] /\ n \notin pending[t]
            /\ n \notin Undelivered(t)
  <2>1. ~(n > last[t]) /\ ~Held(t, n) /\ ~(n \in pending[t] \ acked[t])
    BY <1>1, <1>4, <1>11
  <2>2. Life(t, n) = "trimmed"
    BY <1>11, <2>1 DEF Life
  <2> QED BY <1>1, <1>11, <2>1, <2>2
<1>12. \/ n > last[t] \/ n <= last[t]
  BY <1>1
<1> QED BY <1>6, <1>7, <1>8, <1>9, <1>10, <1>11, <1>12

(* The same after a step.                                                   *)
LEMMA LifeIsNext == IInv' /\ Kept' => LifeCases'
  BY LifeIs, PTL

-----------------------------------------------------------------------------
(* The refinement mapping, by name.                                         *)
Calls(t, n) == Cardinality({k \in HandlerNo : runs[t][n][k] > 0})
LifeMap == [t \in EventType |-> [n \in Id |-> Life(t, n)]]
CallsMap == [t \in EventType |-> [n \in Id |-> Calls(t, n)]]

(* A step that leaves the streams as they are and can only make consumers   *)
(* let go of events leaves those events behind, or is a stutter.            *)
LEMMA LettingGo ==
  ASSUME IInv, Kept, LifeCases, LifeCases', TypeOK,
         UNCHANGED <<last, first, cursor, pending, acked, runs>>,
         \A q \in Process, u \in EventType, n \in Id :
            Holds(q, u, n)' => Holds(q, u, n)
  PROVE  Delivery!LeaveBehind \/ UNCHANGED <<LifeMap, CallsMap>>
<1> DEFINE S == {e \in EventType \X Id : Held(e[1], e[2]) /\ ~Held(e[1], e[2])'}
<1>1. \A t \in EventType : Undelivered(t)' = Undelivered(t)
  BY DEF Undelivered
<1>2. \A t \in EventType, n \in Id : Held(t, n)' => Held(t, n)
  BY DEF Held
<1>3. ASSUME NEW t \in EventType, NEW n \in Id
      PROVE  Life(t, n)' = IF <<t, n>> \in S THEN "left" ELSE Life(t, n)
  <2>1. CASE <<t, n>> \in S
    BY <2>1 DEF LifeCases
  <2>2. CASE <<t, n>> \notin S
    <3>1. Held(t, n)' <=> Held(t, n)
      BY <1>2, <2>2
    <3>2. last[t] \in Nat /\ n \in Nat
      BY DEF TypeOK, RedisTypeOK, Id
    <3> QED BY <1>1, <2>2, <3>1, <3>2 DEF LifeCases
  <2> QED BY <2>1, <2>2
<1>4. UNCHANGED CallsMap
  BY DEF CallsMap, Calls
<1>5. CASE S = {}
  BY <1>3, <1>4, <1>5 DEF LifeMap
<1>6. CASE S # {}
  <2>1. S \in SUBSET (EventType \X Id)
    OBVIOUS
  <2>2. \A e \in S : LifeMap[e[1]][e[2]] = "held"
    BY DEF LifeMap, LifeCases
  <2>3. LifeMap' = [t \in EventType |-> [n \in Id |->
                      IF <<t, n>> \in S THEN "left" ELSE LifeMap[t][n]]]
    BY <1>3 DEF LifeMap
  <2> HIDE DEF S
  <2> QED BY <1>4, <1>6, <2>1, <2>2, <2>3
          DEF Delivery!LeaveBehind, Delivery!Id, Id, LifeMap, CallsMap, Calls
<1> QED BY <1>5, <1>6

(* XADD queues the next event and trims the front of the stream.            *)
LEMMA PublishSends ==
  ASSUME IInv, Kept, LifeCases, LifeCases', Kept',
         NEW t \in EventType, Publish(t)
  PROVE  Delivery!Send(t)
<1>0. RedisTypeOK
  BY DEF IInv, TypeOK
<1> DEFINE n == last[t] + 1
           S == {m \in Id : m \in Undelivered(t) /\ m < first'[t]}
<1>1. /\ n \in Id /\ last'[t] = n /\ UNCHANGED <<cursor, pending, acked, runs>>
      /\ first[t] <= first'[t] /\ first'[t] <= n
      /\ \A u \in EventType : u # t => last'[u] = last[u] /\ first'[u] = first[u]
  BY <1>0, SizesAssumption DEF Publish, RedisTypeOK, Id, effects
<1>2. \A u \in EventType, m \in Id : Held(u, m)' <=> Held(u, m)
  BY DEF Publish, Held, Holds, Holding
<1>3. \A m \in Id : m \in Undelivered(t)' <=>
                       m = n \/ (m \in Undelivered(t) /\ m \notin S)
  <2> SUFFICES ASSUME NEW m \in Id
               PROVE  (cursor'[t] < m /\ first'[t] <= m /\ m <= last'[t]) <=>
                         \/ m = n
                         \/ /\ cursor[t] < m /\ first[t] <= m /\ m <= last[t]
                            /\ ~(m < first'[t])
      BY DEF Undelivered
  <2>1. /\ last[t] \in Nat /\ first[t] \in Nat /\ cursor[t] \in Nat /\ m \in Nat
        /\ first'[t] \in Nat /\ cursor[t] <= last[t] /\ cursor'[t] = cursor[t]
    BY <1>0, <1>1 DEF RedisTypeOK, Kept, Id, Publish
  <2> QED BY <1>1, <2>1
<1>4. \A u \in EventType : u # t => Undelivered(u)' = Undelivered(u)
  BY <1>1 DEF Undelivered
<1>5. ASSUME NEW m \in Id
      PROVE  Life(t, m)' = IF m = n THEN "queued"
                           ELSE IF m \in S THEN "trimmed" ELSE Life(t, m)
  <2>0. last[t] \in Nat /\ m \in Nat
    BY <1>0 DEF RedisTypeOK, Id
  <2>1. CASE m = n
    BY <1>3, <2>1 DEF LifeCases
  <2>2. CASE m # n /\ m \in S
    <3>1. m <= last'[t] /\ m \notin acked'[t] /\ m \notin pending'[t]
             /\ m \notin Undelivered(t)'
      BY <1>0, <1>1, <1>3, <2>0, <2>2
      DEF Undelivered, Kept, LifeCases, RedisTypeOK
    <3> QED BY <2>2, <3>1 DEF LifeCases
  <2>3. CASE m # n /\ m \notin S
    <3>1. /\ m \in Undelivered(t)' <=> m \in Undelivered(t)
          /\ m > last'[t] <=> m > last[t]
          /\ m <= last'[t] <=> m <= last[t]
      BY <1>1, <1>3, <2>0, <2>3
    <3>2. (m \in acked'[t] <=> m \in acked[t])
             /\ (m \in pending'[t] <=> m \in pending[t])
             /\ (Held(t, m)' <=> Held(t, m))
             /\ (m > last[t] \/ m <= last[t])
      BY <1>1, <1>2, <2>0
    <3> QED BY <2>3, <3>1, <3>2 DEF LifeCases
  <2> QED BY <2>1, <2>2, <2>3
<1>6. ASSUME NEW u \in EventType, u # t, NEW m \in Id
      PROVE  Life(u, m)' = Life(u, m)
  <2>1. last'[u] = last[u] /\ last[u] \in Nat /\ m \in Nat
    BY <1>0, <1>1, <1>6 DEF RedisTypeOK, Id
  <2> QED BY <1>1, <1>2, <1>4, <1>6, <2>1 DEF LifeCases
<1>7. UNCHANGED CallsMap
  BY <1>1 DEF CallsMap, Calls
<1>8. /\ LifeMap[t][n] = "unsent"
      /\ \A m \in Id : m < n => LifeMap[t][m] # "unsent"
  <2>1. ASSUME NEW m \in Id, m < n PROVE Life(t, m) # "unsent"
    <3>1. m <= last[t]
      BY <1>0, <2>1 DEF RedisTypeOK, Id
    <3> QED BY <3>1 DEF LifeCases
  <2>2. n > last[t]
    BY <1>0 DEF RedisTypeOK
  <2> QED BY <1>1, <2>1, <2>2 DEF LifeMap, LifeCases
<1>9. S \in SUBSET Id /\ (S = {} \/ Delivery!Front(t, S))
  <2>1. ASSUME NEW k \in S, NEW m \in Id, m < k, LifeMap[t][m] = "queued"
        PROVE  m \in S
    <3>1. last[t] \in Nat /\ m \in Nat /\ Life(t, m) = "queued"
      BY <1>0, <2>1 DEF RedisTypeOK, Id, LifeMap
    <3>2. m \in Undelivered(t)
      BY <3>1 DEF LifeCases
    <3>3. first'[t] \in Nat /\ k \in Nat /\ k < first'[t]
      BY <1>0 DEF Publish, RedisTypeOK, Id
    <3>4. m < first'[t]
      BY <2>1, <3>1, <3>3
    <3> QED BY <3>2, <3>4
  <2>2. \A k \in S : LifeMap[t][k] = "queued"
    BY DEF LifeMap, LifeCases
  <2> HIDE DEF S
  <2>3. S # {} => Delivery!Front(t, S)
    BY <2>1, <2>2 DEF Delivery!Front, Delivery!Id, Id, LifeMap
  <2>4. S \in SUBSET Id
    BY DEF S
  <2> QED BY <2>3, <2>4
<1>10. LifeMap' = [LifeMap EXCEPT ![t] =
                     [m \in Id |-> IF m = n THEN "queued"
                                   ELSE IF m \in S THEN "trimmed" ELSE @[m]]]
  BY <1>5, <1>6 DEF LifeMap
<1> HIDE DEF n, S
<1> QED BY <1>1, <1>7, <1>8, <1>9, <1>10
        DEF Delivery!Send, Delivery!Id, Id, LifeMap, CallsMap, Calls

(* XREADGROUP hands out the front of the stream, to a consumer or to none.  *)
LEMMA DeliverHandsOut ==
  ASSUME IInv, Kept, Kept', LifeCases, LifeCases',
         NEW t \in EventType, NEW lo \in Id, NEW hi \in Id,
         NEW there \in {"held", "left"},
         Deliver(t, lo, hi), UNCHANGED <<last, first, acked, runs>>,
         \A u \in EventType, n \in Id :
            Held(u, n)' <=>
               Held(u, n) \/ (there = "held" /\ u = t /\ n \in lo .. hi)
  PROVE  Delivery!HandOut(t)
<1>0. RedisTypeOK
  BY DEF IInv, TypeOK
<1> DEFINE S == lo .. hi
<1>1. /\ cursor[t] < lo /\ first[t] <= lo /\ lo <= hi /\ hi <= last[t]
      /\ cursor'[t] = hi /\ pending'[t] = pending[t] \union S
      /\ \A u \in EventType : u # t =>
            cursor'[u] = cursor[u] /\ pending'[u] = pending[u]
      /\ \A n \in Undelivered(t) : lo <= n
  BY DeliverMoves
<1>2. /\ last[t] \in Nat /\ first[t] \in Nat /\ cursor[t] \in Nat
      /\ lo \in Nat /\ hi \in Nat
      /\ \A u \in EventType : last[u] \in Nat
  BY <1>0 DEF RedisTypeOK, Id
<1>3. S \subseteq Undelivered(t)
  BY <1>1, <1>2, <1>0, SizesAssumption DEF Undelivered, Id
<1>4. \A n \in Id : n \in Undelivered(t)' <=> n \in Undelivered(t) /\ n \notin S
  <2> SUFFICES ASSUME NEW n \in Id
               PROVE  (hi < n /\ first[t] <= n /\ n <= last[t]) <=>
                         /\ cursor[t] < n /\ first[t] <= n /\ n <= last[t]
                         /\ ~(lo <= n /\ n <= hi)
      BY <1>1, <1>2 DEF Undelivered, Id
  <2>1. cursor[t] < n /\ first[t] <= n /\ n <= last[t] => lo <= n
    BY <1>1 DEF Undelivered
  <2>2. n \in Nat
    BY DEF Id
  <2> QED BY <1>1, <1>2, <2>1, <2>2
<1>5. \A u \in EventType : u # t => Undelivered(u)' = Undelivered(u)
  BY <1>1 DEF Undelivered
<1>6. ASSUME NEW n \in Id
      PROVE  Life(t, n)' = IF n \in S THEN there ELSE Life(t, n)
  <2>1. CASE n \in S
    <3>1. n \in pending'[t] /\ n \notin acked'[t] /\ ~Held(t, n)
      <4>1. Life(t, n) = "queued"
        BY <1>3, <2>1 DEF LifeCases
      <4> QED BY <1>1, <2>1, <4>1 DEF LifeCases
    <3> QED BY <2>1, <3>1 DEF LifeCases
  <2>2. CASE n \notin S
    <3>1. /\ n \in Undelivered(t)' <=> n \in Undelivered(t)
          /\ n \in pending'[t] <=> n \in pending[t]
          /\ Held(t, n)' <=> Held(t, n)
          /\ n > last[t] \/ n <= last[t]
      BY <1>1, <1>2, <1>4, <2>2 DEF Id
    <3> QED BY <2>2, <3>1 DEF LifeCases
  <2> QED BY <2>1, <2>2
<1>7. ASSUME NEW u \in EventType, u # t, NEW n \in Id
      PROVE  Life(u, n)' = Life(u, n)
  <2>1. /\ n > last[u] \/ n <= last[u]
        /\ Held(u, n)' <=> Held(u, n)
        /\ pending'[u] = pending[u]
        /\ Undelivered(u)' = Undelivered(u)
    BY <1>1, <1>2, <1>5, <1>7 DEF Id
  <2> QED BY <2>1 DEF LifeCases
<1>8. UNCHANGED CallsMap
  BY DEF CallsMap, Calls
<1>9. Delivery!Front(t, S)
  <2>1. ASSUME NEW k \in S, NEW m \in Id, m < k, LifeMap[t][m] = "queued"
        PROVE  m \in S
    <3>1. m \in Nat /\ Life(t, m) = "queued"
      BY <2>1 DEF Id, LifeMap
    <3>2. m \in Undelivered(t)
      BY <1>2, <3>1 DEF LifeCases
    <3>3. lo <= m
      BY <1>1, <3>2
    <3> QED BY <1>2, <2>1, <3>1, <3>3
  <2>2. \A k \in S : LifeMap[t][k] = "queued"
    BY <1>3 DEF LifeMap, LifeCases, Undelivered
  <2>3. S # {}
    BY <1>1, <1>2
  <2> HIDE DEF S
  <2> QED BY <2>1, <2>2, <2>3 DEF Delivery!Front, Delivery!Id, Id, LifeMap
<1>10. LifeMap' = [LifeMap EXCEPT ![t] =
                     [m \in Id |-> IF m \in S THEN there ELSE @[m]]]
  BY <1>6, <1>7 DEF LifeMap
<1>11. S \in SUBSET Id
  BY <1>2, SizesAssumption DEF Id
<1> HIDE DEF S
<1> QED BY <1>8, <1>9, <1>10, <1>11
        DEF Delivery!HandOut, Delivery!Id, Id, LifeMap, CallsMap, Calls

(* The handlers called with the first event of a batch, counted.            *)
LEMMA CallsOfFirst ==
  ASSUME IInv, NEW p \in Process, NEW t \in EventType,
         consumer[p][t].pc = "batch"
  PROVE  /\ Held(t, consumer[p][t].at) /\ consumer[p][t].at \in Id
         /\ consumer[p][t].next - 1 \in 0 .. Handlers[t]
         /\ IsFiniteSet({k \in HandlerNo : runs[t][consumer[p][t].at][k] > 0})
         /\ Calls(t, consumer[p][t].at) = consumer[p][t].next - 1
<1> DEFINE c == consumer[p][t]
           K == {k \in HandlerNo : runs[t][c.at][k] > 0}
<1>1. Holding(p, t)
  BY DEF Holding
<1>2. c \in Consumer /\ c.at \in Id /\ c.hi \in Id /\ HeldInOrder(p, t)
  BY <1>1, HeldId DEF IInv
<1>3. Held(t, c.at)
  BY <1>1, <1>2 DEF Held, Holds, HeldInOrder, Id, Consumer
<1>4. Handlers[t] \in 0 .. MaxHandlers
  BY HandlersAssumption
<1>5. c.next - 1 \in 0 .. Handlers[t]
  BY <1>2, <1>4, SizesAssumption DEF HeldInOrder, Consumer
<1>6. K = 1 .. (c.next - 1)
  BY <1>2, <1>4, <1>5, SizesAssumption DEF HeldInOrder, HandlerNo, Consumer
<1>7. /\ IsFiniteSet(1 .. (c.next - 1))
      /\ Cardinality(1 .. (c.next - 1)) = c.next - 1
  <2>1. PICK b \in Nat : b = c.next - 1
    BY <1>4, <1>5, SizesAssumption
  <2>2. IsFiniteSet(1 .. b) /\ Cardinality(1 .. b) = b
    BY FS_Interval
  <2> QED BY <2>1, <2>2
<1> QED BY <1>2, <1>3, <1>5, <1>6, <1>7 DEF Calls

(* A handler that is called is one more call of a held event.               *)
LEMMA HandlerCalls ==
  ASSUME IInv, Kept, Kept', LifeCases, LifeCases',
         NEW p \in Process, NEW t \in EventType, CallHandler(p, t)
  PROVE  \E n \in Id : Delivery!Call(t, n)
<1>0. RedisTypeOK /\ EffectsTypeOK
  BY DEF IInv, TypeOK
<1>1. /\ consumer[p][t].pc = "batch"
      /\ consumer[p][t].at \notin Undecodable[t]
      /\ consumer[p][t].next <= Handlers[t]
      /\ UNCHANGED <<last, first, cursor, pending, acked>>
  BY DEF CallHandler, redis
<1>2. consumer[p][t] \in Consumer /\ HeldInOrder(p, t)
  BY <1>1, HeldId DEF IInv, Holding
<1>3. /\ consumer[p][t].at \in Id
      /\ consumer[p][t].next \in HandlerNo /\ Handlers[t] \in Nat
  <2>1. /\ consumer[p][t].at \in Id
        /\ consumer[p][t].next \in Nat /\ consumer[p][t].next >= 1
    BY <1>1, <1>2, CallsOfFirst DEF HeldInOrder, Consumer
  <2>2. Handlers[t] \in Nat /\ Handlers[t] <= MaxHandlers
    BY HandlersAssumption, SizesAssumption
  <2> QED BY <1>1, <2>1, <2>2, SizesAssumption DEF HandlerNo
<1>4. PICK n \in Id, k \in HandlerNo :
         n = consumer[p][t].at /\ k = consumer[p][t].next
  BY <1>3
<1>5. /\ Held(t, n)
      /\ IsFiniteSet({j \in HandlerNo : runs[t][n][j] > 0})
      /\ Calls(t, n) = k - 1
  BY <1>1, <1>4, CallsOfFirst
<1>6. /\ runs'[t][n][k] = runs[t][n][k] + 1
      /\ \A u \in EventType, m \in Id, j \in HandlerNo :
            u # t \/ m # n \/ j # k => runs'[u][m][j] = runs[u][m][j]
  <2>1. runs' = [runs EXCEPT ![t][n][k] = @ + 1]
    BY <1>4 DEF CallHandler
  <2> QED BY <1>0, <2>1, CountRun DEF EffectsTypeOK
<1>7. runs[t][n][k] \in Nat /\ ~(runs[t][n][k] > 0)
  BY <1>0, <1>1, <1>2, <1>4 DEF EffectsTypeOK, HeldInOrder, HandlerNo, Consumer
<1>8. {j \in HandlerNo : runs'[t][n][j] > 0} =
         {j \in HandlerNo : runs[t][n][j] > 0} \union {k}
  <2>1. ASSUME NEW j \in HandlerNo
        PROVE  runs'[t][n][j] > 0 <=> runs[t][n][j] > 0 \/ j = k
    BY <1>6, <1>7
  <2> QED BY <2>1
<1>9. Calls(t, n)' = Calls(t, n) + 1
  <2>1. Cardinality({j \in HandlerNo : runs[t][n][j] > 0} \union {k}) =
           Cardinality({j \in HandlerNo : runs[t][n][j] > 0}) + 1
    BY <1>5, <1>7, FS_AddElement
  <2> QED BY <1>8, <2>1 DEF Calls
<1>10. ASSUME NEW u \in EventType, NEW m \in Id, u # t \/ m # n
       PROVE  Calls(u, m)' = Calls(u, m)
  <2>1. {j \in HandlerNo : runs'[u][m][j] > 0} =
           {j \in HandlerNo : runs[u][m][j] > 0}
    BY <1>6, <1>10
  <2> QED BY <2>1 DEF Calls
<1>11. UNCHANGED LifeMap
  <2>1. \A u \in EventType, m \in Id : Held(u, m)' <=> Held(u, m)
    BY HandlerHolds DEF Held
  <2>2. \A u \in EventType : Undelivered(u)' = Undelivered(u)
    BY <1>1 DEF Undelivered
  <2>3. ASSUME NEW u \in EventType, NEW m \in Id PROVE Life(u, m)' = Life(u, m)
    <3>1. m > last[u] \/ m <= last[u]
      BY <1>0 DEF RedisTypeOK, Id
    <3> QED BY <1>1, <2>1, <2>2, <3>1 DEF LifeCases
  <2> QED BY <2>3 DEF LifeMap
<1>12. LifeMap[t][n] = "held" /\ CallsMap[t][n] = k - 1
  BY <1>5 DEF LifeMap, LifeCases, CallsMap
<1>13. CallsMap' = [CallsMap EXCEPT ![t][n] = @ + 1]
  BY <1>9, <1>10 DEF CallsMap
<1>14. k - 1 < Handlers[t] /\ n \notin Undecodable[t]
  BY <1>1, <1>3, <1>4 DEF HandlerNo
<1>15. Delivery!Call(t, n)
  BY <1>11, <1>12, <1>13, <1>14
  DEF Delivery!Call, LifeMap, CallsMap, Calls, Delivery!Id, Id
<1> QED BY <1>15

(* XACK acknowledges an event that every handler accepted, or that holds    *)
(* none; if it fails, the event is left behind.                             *)
LEMMA AckAcknowledges ==
  ASSUME IInv, Kept, Kept', LifeCases, LifeCases',
         NEW p \in Process, NEW t \in EventType,
         SkipUndecodable(p, t) \/ AckHandled(p, t)
  PROVE  [Delivery!Next]_(Delivery!vars)
<1>0. RedisTypeOK /\ TypeOK
  BY DEF IInv, TypeOK
<1>1. /\ consumer[p][t].pc = "batch" /\ Holding(p, t)
      /\ consumer' = [consumer EXCEPT ![p][t] = Advance(@)]
      /\ UNCHANGED <<last, first, cursor, runs>>
      /\ \/ /\ pending' = [pending EXCEPT ![t] = @ \ {consumer[p][t].at}]
            /\ acked' = [acked EXCEPT ![t] = @ \union {consumer[p][t].at}]
         \/ UNCHANGED <<pending, acked>>
  BY DEF SkipUndecodable, AckHandled, Acknowledge, Holding, effects
<1>2. \A q \in Process, u \in EventType, n \in Id :
         Holds(q, u, n)' <=>
            Holds(q, u, n) /\ ~(q = p /\ u = t /\ n = consumer[p][t].at)
  BY <1>1, AdvanceHolds
<1>3. CASE UNCHANGED <<pending, acked>>
  <2>1. Delivery!LeaveBehind \/ UNCHANGED <<LifeMap, CallsMap>>
    BY <1>0, <1>1, <1>2, <1>3, LettingGo
  <2> QED BY <2>1 DEF Delivery!Next, Delivery!vars, LifeMap, CallsMap, Calls
<1>4. CASE /\ pending' = [pending EXCEPT ![t] = @ \ {consumer[p][t].at}]
           /\ acked' = [acked EXCEPT ![t] = @ \union {consumer[p][t].at}]
  <2>1. PICK n \in Id : n = consumer[p][t].at
    BY <1>1, CallsOfFirst
  <2>2. Holds(p, t, n)
    BY <1>1, <2>1, HeldId DEF IInv, Holds, HeldInOrder, Consumer, Id
  <2>3. Held(t, n) /\ LifeMap[t][n] = "held"
    BY <2>2 DEF Held, LifeMap, LifeCases
  <2>4. \A u \in EventType, m \in Id : Held(u, m)' <=>
           Held(u, m) /\ ~(u = t /\ m = n)
    BY <1>2, <2>1, <2>2 DEF Held, IInv, Safety, ExclusiveDelivery
  <2>5. \A u \in EventType : Undelivered(u)' = Undelivered(u)
    BY <1>1 DEF Undelivered
  <2>6. /\ n \in acked'[t]
        /\ \A u \in EventType, m \in Id : u # t \/ m # n =>
              /\ m \in acked'[u] <=> m \in acked[u]
              /\ m \in pending'[u] <=> m \in pending[u]
    BY <1>0, <1>4, <2>1 DEF RedisTypeOK
  <2>7. Life(t, n)' = "acked"
    BY <2>6 DEF LifeCases
  <2>8. ASSUME NEW u \in EventType, NEW m \in Id, u # t \/ m # n
        PROVE  Life(u, m)' = Life(u, m)
    <3>1. m > last[u] \/ m <= last[u]
      BY <1>0 DEF RedisTypeOK, Id
    <3> QED BY <1>1, <2>4, <2>5, <2>6, <2>8, <3>1 DEF LifeCases
  <2>9. LifeMap' = [LifeMap EXCEPT ![t][n] = "acked"]
    BY <2>7, <2>8 DEF LifeMap
  <2>10. UNCHANGED CallsMap
    BY <1>1 DEF CallsMap, Calls
  <2>11. n \in Undecodable[t] \/ CallsMap[t][n] = Handlers[t]
    <3>1. CASE SkipUndecodable(p, t)
      BY <2>1, <3>1 DEF SkipUndecodable
    <3>2. CASE AckHandled(p, t)
      <4>1. consumer[p][t].next > Handlers[t]
        BY <3>2 DEF AckHandled
      <4>2. /\ consumer[p][t].next - 1 \in 0 .. Handlers[t]
            /\ Calls(t, n) = consumer[p][t].next - 1
        BY <1>1, <2>1, CallsOfFirst
      <4>3. Handlers[t] \in Nat /\ consumer[p][t].next \in Nat
        BY <1>0, HandlersAssumption DEF TypeOK, ConsumerTypeOK, Consumer
      <4> QED BY <4>1, <4>2, <4>3 DEF CallsMap
    <3> QED BY <3>1, <3>2
  <2>12. Delivery!Acknowledge(t, n)
    BY <2>3, <2>9, <2>10, <2>11
    DEF Delivery!Acknowledge, LifeMap, CallsMap, Calls, Delivery!Id, Id
  <2> QED BY <2>12 DEF Delivery!Next, Delivery!Id, Id
<1> QED BY <1>1, <1>3, <1>4

(* A fresh bus is a fresh contract.                                         *)
LEMMA DeliveryInit == Init => Delivery!Init
<1> SUFFICES ASSUME Init PROVE Delivery!Init
    OBVIOUS
<1>1. ASSUME NEW t \in EventType, NEW n \in Id
      PROVE  Life(t, n) = "unsent" /\ Calls(t, n) = 0
  <2>1. /\ n > last[t] /\ n \notin acked[t] /\ n \notin pending[t]
        /\ n \notin Undelivered(t) /\ ~Held(t, n)
    BY DEF Init, Id, Undelivered, Held, Holds, Holding, NoConsumer
  <2>2. Life(t, n) = "unsent"
    BY <2>1 DEF Life
  <2>3. {k \in HandlerNo : runs[t][n][k] > 0} = {}
    BY DEF Init
  <2> QED BY <2>2, <2>3, FS_EmptySet DEF Calls
<1> QED BY <1>1 DEF Delivery!Init, Delivery!Id, Id, Calls

(* Every step of the bus is a step of the contract, or none.                *)
LEMMA DeliveryStep ==
  IInv /\ Kept /\ LifeCases /\ Kept' /\ LifeCases' /\ [Next]_vars
     => [Delivery!Next]_(Delivery!vars)
<1> SUFFICES ASSUME IInv, Kept, LifeCases, Kept', LifeCases', [Next]_vars
             PROVE  [Delivery!Next]_(Delivery!vars)
    OBVIOUS
<1>1. ASSUME UNCHANGED <<last, first, cursor, pending, acked, runs>>,
             \A q \in Process, u \in EventType, n \in Id :
                Holds(q, u, n)' => Holds(q, u, n)
      PROVE  [Delivery!Next]_(Delivery!vars)
  <2>1. Delivery!LeaveBehind \/ UNCHANGED <<LifeMap, CallsMap>>
    BY <1>1, LettingGo DEF IInv
  <2> QED BY <2>1 DEF Delivery!Next, Delivery!vars, LifeMap, CallsMap, Calls
<1>2. CASE UNCHANGED vars
  BY <1>1, <1>2 DEF vars, redis, effects, Holds, Holding
<1>3. CASE Quiet
  BY <1>1, <1>3, QuietHolds
<1>4. ASSUME NEW t \in EventType, Publish(t)
      PROVE  [Delivery!Next]_(Delivery!vars)
  BY <1>4, PublishSends DEF Delivery!Next
<1>5. ASSUME NEW p \in Process, NEW t \in EventType, Read(p, t)
      PROVE  [Delivery!Next]_(Delivery!vars)
  <2>1. PICK lo \in Id, hi \in Id :
           /\ Deliver(t, lo, hi)
           /\ consumer' = [consumer EXCEPT ![p][t] =
                              [pc |-> "batch", at |-> lo, hi |-> hi, next |-> 1]]
    BY <1>5 DEF Read
  <2>2. consumer[p][t].pc = "read" /\ UNCHANGED <<last, first, acked, runs>>
    BY <1>5 DEF Read, effects
  <2>3. \A u \in EventType, n \in Id :
           Held(u, n)' <=>
              Held(u, n) \/ ("held" = "held" /\ u = t /\ n \in lo .. hi)
    <3>1. \A q \in Process, u \in EventType, n \in Id :
             Holds(q, u, n)' <=>
                Holds(q, u, n) \/ (q = p /\ u = t /\ n \in lo .. hi)
      BY <2>1, <2>2, ReadHolds
    <3> QED BY <3>1 DEF Held
  <2>4. Deliver(t, lo, hi)
    BY <2>1
  <2>5. Delivery!HandOut(t)
    BY <2>2, <2>3, <2>4, DeliverHandsOut
  <2> QED BY <2>5 DEF Delivery!Next
<1>6. ASSUME NEW p \in Process, NEW t \in EventType, ReadReplyLost(p, t)
      PROVE  [Delivery!Next]_(Delivery!vars)
  <2>1. PICK lo \in Id, hi \in Id : Deliver(t, lo, hi)
    BY <1>6 DEF ReadReplyLost
  <2>2. /\ Goto(p, t, "poll") /\ "poll" \in Pc
        /\ consumer[p][t].pc = "read" /\ UNCHANGED <<last, first, acked, runs>>
    BY <1>6 DEF ReadReplyLost, Pc, effects
  <2>3. \A q \in Process, u \in EventType, n \in Id :
           Holds(q, u, n)' <=> Holds(q, u, n)
    BY <2>2, GotoHolds DEF Holds, Holding
  <2>4. \A u \in EventType, n \in Id :
           Held(u, n)' <=>
              Held(u, n) \/ ("left" = "held" /\ u = t /\ n \in lo .. hi)
    BY <2>3 DEF Held
  <2>5. Delivery!HandOut(t)
    BY <2>1, <2>2, <2>4, DeliverHandsOut
  <2> QED BY <2>5 DEF Delivery!Next
<1>7. ASSUME NEW p \in Process, NEW t \in EventType, CallHandler(p, t)
      PROVE  [Delivery!Next]_(Delivery!vars)
  BY <1>7, HandlerCalls DEF Delivery!Next, Delivery!Id, Id
<1>8. ASSUME NEW p \in Process, NEW t \in EventType,
             SkipUndecodable(p, t) \/ AckHandled(p, t)
      PROVE  [Delivery!Next]_(Delivery!vars)
  BY <1>8, AckAcknowledges
<1> QED BY <1>2, <1>3, <1>4, <1>5, <1>6, <1>7, <1>8 DEF Next, Consume, Quiet

(* The event bus promises no more than at-most-once delivery, and keeps     *)
(* that promise: every behaviour of the streams, consumers, deaths and      *)
(* restarts is a behaviour of EventDelivery (bus.go, 96-269).               *)
THEOREM AtMostOnceContract == Spec => DeliveryContract
<1>1. IInv /\ Kept => LifeCases
  BY LifeIs
<1> QED BY <1>1, InitInv, NextInv, KeptInit, KeptStep, DeliveryInit,
           DeliveryStep, PTL DEF Spec, DeliveryContract, Delivery!Spec
=============================================================================
