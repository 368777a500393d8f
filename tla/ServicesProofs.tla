-------------------------- MODULE ServicesProofs ----------------------------
(***************************************************************************)
(* The services behind the shop: the theorems of CircuitBreaker, LLMRouter,*)
(* TryOn, Metrics and Gateway.                                             *)
(***************************************************************************)
EXTENDS CircuitBreaker, LLMRouter, TryOn, Metrics, Gateway, Integers,
        FiniteSetTheorems, TLAPS

(***************************************************************************)
(* The breaker's safety properties for any number of callers, threshold    *)
(* and timeout.  Every caller may be in flight with a call that an earlier *)
(* state admitted, so no step may rely on who records the result.          *)
(***************************************************************************)
(* What every step preserves: the counter of a closed breaker is exact, and *)
(* exactness is what keeps it under the threshold when the counter          *)
(* saturates.                                                               *)
BreakerInv == TypeOK /\ ClosedBelowThreshold /\ CountsConsecutiveFailures

(* A new breaker satisfies the invariant (New, 57-63).                      *)
LEMMA InitInv == Init => BreakerInv
  BY ThresholdAssumption, TimeoutAssumption
  DEF Init, BreakerInv, TypeOK, State, Expired, ClosedBelowThreshold,
      CountsConsecutiveFailures

(* Admitting a call (allowRequest, 87-105) and recording its result         *)
(* (recordResult, 108-135) preserve it in any state.                        *)
LEMMA CallInv ==
  ASSUME BreakerInv, NEW c \in Caller,
         Allow(c) \/ RecordSuccess(c) \/ RecordFailure(c) \/ Panic(c)
  PROVE  BreakerInv'
<1> USE ThresholdAssumption, TimeoutAssumption
    DEF BreakerInv, TypeOK, State, Expired, ClosedBelowThreshold,
        CountsConsecutiveFailures
<1>1. CASE Allow(c)
  BY <1>1 DEF Allow, AllowClosed, AllowAfterTimeout, AllowHalfOpen, Begin,
              service
<1>2. CASE RecordSuccess(c)
  BY <1>2 DEF RecordSuccess, End, service
<1>3. CASE RecordFailure(c)
  <2>1. CASE state = "half-open"
    BY <1>3, <2>1 DEF RecordFailure, End, service
  <2>2. CASE state = "closed"
    BY <1>3, <2>2 DEF RecordFailure, End, service
  <2>3. CASE state = "open"
    BY <1>3, <2>3 DEF RecordFailure, End, service
  <2> QED BY <2>1, <2>2, <2>3
<1>4. CASE Panic(c)
  BY <1>4 DEF Panic, End, breaker, service
<1> QED BY <1>1, <1>2, <1>3, <1>4

(* BreakerInv is inductive.                                                        *)
LEMMA NextInv == BreakerInv /\ [Next]_vars => BreakerInv'
<1> SUFFICES ASSUME BreakerInv, [Next]_vars PROVE BreakerInv'
    OBVIOUS
<1>1. ASSUME NEW c \in Caller,
             Allow(c) \/ RecordSuccess(c) \/ RecordFailure(c) \/ Panic(c)
      PROVE  BreakerInv'
  BY <1>1, CallInv
<1> USE ThresholdAssumption, TimeoutAssumption
    DEF BreakerInv, TypeOK, State, Expired, ClosedBelowThreshold,
        CountsConsecutiveFailures
<1>2. CASE Reset
  BY <1>2 DEF Reset, service
<1>3. CASE Tick
  BY <1>3 DEF Tick, service
<1>4. CASE Flip
  BY <1>4 DEF Flip, breaker
<1>5. CASE UNCHANGED vars
  BY <1>5 DEF vars, breaker, service
<1> QED BY <1>1, <1>2, <1>3, <1>4, <1>5 DEF Next

(* Type correctness of the breaker.                                         *)
THEOREM TypeCorrect == Spec => []TypeOK
<1>1. BreakerInv => TypeOK
  BY DEF BreakerInv
<1> QED BY <1>1, InitInv, NextInv, PTL DEF Spec

(* Stale results never leave the breaker closed at its threshold.           *)
THEOREM BelowThreshold == Spec => []ClosedBelowThreshold
<1>1. BreakerInv => ClosedBelowThreshold
  BY DEF BreakerInv
<1> QED BY <1>1, InitInv, NextInv, PTL DEF Spec

(* A closed breaker counts exactly the consecutive failures.                *)
THEOREM ExactCount == Spec => []CountsConsecutiveFailures
<1>1. BreakerInv => CountsConsecutiveFailures
  BY DEF BreakerInv
<1> QED BY <1>1, InitInv, NextInv, PTL DEF Spec

(* The breaker opens on the Threshold-th consecutive failure or on a failed *)
(* trial, and on nothing else (recordResult, 121-134).                      *)
THEOREM OpensOnlyOnFailures == Spec => OpensOnFailuresOnly
<1> DEFINE Opens == state # "open" /\ state' = "open" =>
                       /\ sinceFailure' = 0
                       /\ state = "half-open" \/ streak' = Threshold
<1>1. BreakerInv /\ [Next]_vars => [Opens]_vars
  <2> SUFFICES ASSUME BreakerInv, Next PROVE Opens
      BY DEF vars
  <2> USE ThresholdAssumption
      DEF BreakerInv, TypeOK, State, ClosedBelowThreshold, CountsConsecutiveFailures
  <2>1. ASSUME NEW c \in Caller, Allow(c) PROVE Opens
    BY <2>1 DEF Allow, AllowClosed, AllowAfterTimeout, AllowHalfOpen, Begin
  <2>2. ASSUME NEW c \in Caller, RecordSuccess(c) PROVE Opens
    BY <2>2 DEF RecordSuccess
  <2>3. ASSUME NEW c \in Caller, RecordFailure(c) PROVE Opens
    BY <2>3 DEF RecordFailure
  <2>4. CASE \/ \E c \in Caller : Panic(c)
             \/ Reset \/ Tick \/ Flip
    BY <2>4 DEF Panic, Reset, Tick, Flip, breaker
  <2> QED BY <2>1, <2>2, <2>3, <2>4 DEF Next
<1> QED BY <1>1, InitInv, NextInv, PTL DEF Spec, OpensOnFailuresOnly

(***************************************************************************)
(* The router serves the configuration of the shop that asks, with the key *)
(* of that shop and a model of its plan, for any number of shops, requests *)
(* and updates.                                                            *)
(***************************************************************************)
(* A copy that is not the row is about to be deleted, or may be stale; so   *)
(* may be what a request is about to copy.                                  *)
Deleting(s) == \E u \in Updates : update[u].pc = "invalidate" /\ update[u].shop = s
CopyInv ==
    /\ \A s \in Shops : copy[s] \notin {NoConfig, row[s]} => s \in raced \/ Deleting(s)
    /\ \A c \in Calls : call[c].pc = "fill" =>
          call[c].cfg = row[call[c].shop] \/ call[c].shop \in raced

(* Clients are pooled by provider and key; a request has none until it has  *)
(* taken the one of its configuration.                                      *)
PoolInv ==
    /\ \A p \in pool : p.hash = p.key
    /\ \A p, q \in pool : p.provider = q.provider /\ p.hash = q.hash => p = q
    /\ \A c \in Calls :
          /\ call[c].pc # "done" => call[c].client = NoClient
          /\ call[c].client # NoClient => call[c].client.key = KeyOf(call[c].cfg)

(* A row without a key has a model of the plan, and so has the row that an  *)
(* update is about to save.                                                 *)
Passes(s, cfg) == cfg.key = "" /\ cfg # NoConfig => Allows(plan[s], cfg.model)
PlanInv ==
    /\ \A s \in Shops \ kept : Passes(s, row[s])
    /\ \A u \in Updates : update[u].pc = "save" /\ update[u].shop \notin kept =>
          Passes(update[u].shop, update[u].cfg)

RouterInv == RouterTypeOK /\ CopyInv /\ PoolInv /\ PlanInv

-----------------------------------------------------------------------------
(* Configurations.                                                          *)

LEMMA Defaults ==
  /\ NoConfig \in Config /\ DefaultConfig \in Config /\ NoClient \in Client
  /\ NoConfig.key = "" /\ NoConfig.model = ""
  /\ DefaultConfig.provider = "deepseek" /\ DefaultConfig.model = "deepseek-chat"
  BY DEF NoConfig, DefaultConfig, NoClient, Config, Client, Providers, Models, Keys

LEMMA KeyIsKey ==
  ASSUME NEW cfg \in Config
  PROVE  KeyOf(cfg) \in Keys
  BY DEF KeyOf, Config, Keys

(* What an update saves: the key of its body, and a model that the body     *)
(* names, that the row had, or that the database fills in.                  *)
LEMMA Saved ==
  ASSUME NEW old \in Config, NEW b \in Config
  PROVE  /\ Stored(Merge(old, b)) \in Config
         /\ Stored(Merge(old, b)).key = b.key
         /\ b.model # "" => Stored(Merge(old, b)).model = b.model
         /\ b.model = "" => Stored(Merge(old, b)).model \in {old.model, "deepseek-chat"}
<1>1. PICK m : m = Merge(old, b)
  OBVIOUS
<1>2. /\ m \in Config /\ m.key = b.key
      /\ m.model = IF b.model # "" THEN b.model ELSE old.model
  BY <1>1 DEF Merge, Config
<1>3. PICK n : n = Stored(m)
  OBVIOUS
<1>4. /\ n \in Config /\ n.key = m.key
      /\ n.model = IF m.model = "" THEN "deepseek-chat" ELSE m.model
  BY <1>2, <1>3, Defaults DEF Stored, Config, Providers, Models
<1> QED
  BY <1>1, <1>2, <1>3, <1>4

LEMMA CheapModel ==
  ASSUME NEW p \in {"free", "growth"}
  PROVE  Allows(p, "deepseek-chat")
  BY DEF Allows

(* One request, one update moves.                                           *)
LEMMA CallReplaces ==
  ASSUME RouterTypeOK, NEW c \in Calls, NEW d \in CallRecord, call' = [call EXCEPT ![c] = d]
  PROVE  /\ call' \in [Calls -> CallRecord] /\ call'[c] = d
         /\ \A x \in Calls : x # c => call'[x] = call[x]
  BY DEF RouterTypeOK

LEMMA UpdateReplaces ==
  ASSUME RouterTypeOK, NEW u \in Updates, NEW d \in UpdateRecord,
         update' = [update EXCEPT ![u] = d]
  PROVE  /\ update' \in [Updates -> UpdateRecord] /\ update'[u] = d
         /\ \A x \in Updates : x # u => update'[x] = update[x]
  BY DEF RouterTypeOK

LEMMA Idles ==
  ASSUME RouterConstants
  PROVE  /\ IdleCall \in CallRecord /\ IdleCall.pc = "idle" /\ IdleCall.client = NoClient
         /\ IdleUpdate \in UpdateRecord /\ IdleUpdate.pc = "idle"
<1>1. Nobody \in Shops
  BY DEF RouterConstants, Nobody
<1> QED
  BY <1>1, Defaults DEF IdleCall, IdleUpdate, CallRecord, UpdateRecord

(* The bounds are kept.                                                     *)
LEMMA OneMoreChange ==
  ASSUME RouterConstants, RouterTypeOK, changes < MaxChanges, changes' = changes + 1
  PROVE  changes' \in 0 .. MaxChanges
<1>1. \A p, q \in Nat : p \in 0 .. q /\ p < q => p + 1 \in 0 .. q
  OBVIOUS
<1>2. MaxChanges \in Nat /\ changes \in 0 .. MaxChanges
  BY DEF RouterConstants, RouterTypeOK
<1>3. changes \in Nat
  BY <1>2
<1> QED
  BY <1>1, <1>2, <1>3

LEMMA OneMoreFailure ==
  ASSUME RouterConstants, RouterTypeOK, failures' = failures \/ Fail
  PROVE  failures' \in 0 .. MaxFailures
<1>1. \A p, q \in Nat : p \in 0 .. q /\ p < q => p + 1 \in 0 .. q
  OBVIOUS
<1>2. MaxFailures \in Nat /\ failures \in 0 .. MaxFailures
  BY DEF RouterConstants, RouterTypeOK
<1>3. failures \in Nat
  BY <1>2
<1> QED
  BY <1>1, <1>2, <1>3 DEF Fail

(* A request that moves and leaves the pool alone.                          *)
LEMMA PoolStays ==
  ASSUME RouterTypeOK, PoolInv, NEW c \in Calls, NEW d \in CallRecord,
         call' = [call EXCEPT ![c] = d], pool \subseteq pool',
         pool' = pool, d.client = NoClient
  PROVE  PoolInv'
<1>1. /\ call'[c] = d
      /\ \A x \in Calls : x # c => call'[x] = call[x]
  BY CallReplaces
<1>2. ASSUME NEW x \in Calls
      PROVE  /\ call'[x].pc # "done" => call'[x].client = NoClient
             /\ call'[x].client # NoClient => call'[x].client.key = KeyOf(call'[x].cfg)
  BY <1>1 DEF PoolInv
<1> QED
  BY <1>2 DEF PoolInv, KeyOf

LEMMA PoolSame == ASSUME PoolInv, UNCHANGED <<pool, call>> PROVE PoolInv'
  BY DEF PoolInv, KeyOf

LEMMA PlanSame ==
  ASSUME PlanInv, UNCHANGED <<plan, row, update, kept>>
  PROVE  PlanInv'
  BY DEF PlanInv, Passes, Allows

LEMMA CopySame ==
  ASSUME CopyInv, UNCHANGED <<row, copy, call, update, raced>>
  PROVE  CopyInv'
  BY DEF CopyInv, Deleting

-----------------------------------------------------------------------------
(* Updates.                                                                 *)

(* The saved row will have a model of the plan, unless the shop is excused. *)
LEMMA UpdateConfigKeeps ==
  ASSUME RouterConstants, RouterInv, NEW u \in Updates, NEW s \in Shops,
         NEW b \in Changes, UpdateConfig(u, s, b)
  PROVE  RouterInv'
<1>0. RouterTypeOK /\ CopyInv /\ PoolInv /\ PlanInv
  BY DEF RouterInv
<1>1. PICK d : d = [pc |-> "save", shop |-> s, cfg |-> Stored(Merge(row[s], b)),
                    create |-> row[s] = NoConfig]
  OBVIOUS
<1>2. /\ update[u].pc = "idle" /\ changes < MaxChanges
      /\ b.key = "" /\ b.model # "" => Allows(plan[s], b.model)
      /\ update' = [update EXCEPT ![u] = d]
      /\ kept' = IF Unchecked(s, b) THEN kept \cup {s} ELSE kept
      /\ changes' = changes + 1
      /\ UNCHANGED <<plan, row, copy, pool, call, raced, failures>>
  BY <1>1 DEF UpdateConfig
<1>3. b \in Config /\ row[s] \in Config /\ plan[s] \in {"free", "growth"}
  <2>1. b \in Config
    BY DEF RouterConstants
  <2> QED
    BY <1>0, <2>1 DEF RouterTypeOK
<1>4. PICK cfg : cfg = Stored(Merge(row[s], b))
  OBVIOUS
<1>5. /\ cfg \in Config /\ cfg.key = b.key
      /\ b.model # "" => cfg.model = b.model
      /\ b.model = "" => cfg.model \in {row[s].model, "deepseek-chat"}
  BY <1>3, <1>4, Saved
<1>6. d \in UpdateRecord /\ d.pc = "save" /\ d.shop = s /\ d.cfg = cfg
  BY <1>1, <1>4, <1>5 DEF UpdateRecord
<1>7. /\ update' \in [Updates -> UpdateRecord] /\ update'[u] = d
      /\ \A x \in Updates : x # u => update'[x] = update[x]
  BY <1>0, <1>2, <1>6, UpdateReplaces
<1>8. RouterTypeOK'
  <2>1. kept' \subseteq Shops
    BY <1>0, <1>2 DEF RouterTypeOK
  <2>2. changes' \in 0 .. MaxChanges
    BY <1>0, <1>2, OneMoreChange
  <2> QED
    BY <1>0, <1>2, <1>7, <2>1, <2>2 DEF RouterTypeOK
<1>9. CopyInv'
  BY <1>0, <1>2, <1>6, <1>7 DEF CopyInv, Deleting
<1>10. PoolInv'
  BY <1>0, <1>2, PoolSame
<1>11. s \notin kept' => (cfg.key = "" => Allows(plan[s], cfg.model))
  <2> SUFFICES ASSUME s \notin kept', cfg.key = "" PROVE Allows(plan[s], cfg.model)
    OBVIOUS
  <2>1. ~Unchecked(s, b) /\ s \notin kept /\ b.key = ""
    BY <1>2, <1>5
  <2>2. CASE b.model # ""
    BY <1>2, <1>5, <2>1, <2>2
  <2>3. CASE b.model = "" /\ row[s] = NoConfig
    <3>1. cfg.model = "deepseek-chat"
      <4>1. cfg = Stored(Merge(NoConfig, b))
        BY <1>4, <2>3
      <4>2. PICK m : m = Merge(NoConfig, b)
        OBVIOUS
      <4>3. m \in Config /\ m.model = ""
        BY <1>3, <2>3, <4>2, Defaults DEF Merge, Config
      <4> QED
        BY <4>1, <4>2, <4>3, Defaults DEF Stored, Config
    <3> QED
      BY <1>3, <3>1, CheapModel
  <2>4. CASE b.model = "" /\ row[s] # NoConfig
    <3>1. row[s].key = ""
      BY <2>1, <2>4 DEF Unchecked
    <3>2. Allows(plan[s], row[s].model)
      BY <1>0, <2>1, <2>4, <3>1 DEF PlanInv, Passes
    <3> QED
      BY <1>3, <1>5, <2>4, <3>2, CheapModel
  <2> QED
    BY <2>2, <2>3, <2>4
<1>12. PlanInv'
  <2>1. \A x \in Shops \ kept' : Passes(x, row[x])'
    BY <1>0, <1>2 DEF PlanInv, Passes, Allows
  <2>2. ASSUME NEW x \in Updates, update'[x].pc = "save", update'[x].shop \notin kept'
        PROVE  Passes(update[x].shop, update[x].cfg)'
    <3>1. CASE x = u
      BY <1>2, <1>6, <1>7, <1>11, <2>2, <3>1 DEF Passes, Allows
    <3>2. CASE x # u
      BY <1>0, <1>2, <1>7, <2>2, <3>2 DEF PlanInv, Passes, Allows
    <3> QED
      BY <3>1, <3>2
  <2>3. (\A x \in Shops \ kept : Passes(x, row[x]))'
    BY <2>1
  <2> QED
    BY <2>2, <2>3 DEF PlanInv
<1> QED
  BY <1>8, <1>9, <1>10, <1>12 DEF RouterInv

(* The new row is not what a request was about to copy; until the copy is   *)
(* deleted the update accounts for it.                                      *)
LEMMA SaveConfigKeeps ==
  ASSUME RouterConstants, RouterInv, NEW u \in Updates, SaveConfig(u)
  PROVE  RouterInv'
<1>0. RouterTypeOK /\ CopyInv /\ PoolInv /\ PlanInv
  BY DEF RouterInv
<1>1. PICK s, cfg : s = update[u].shop /\ cfg = update[u].cfg
  OBVIOUS
<1>2. /\ update[u] \in UpdateRecord /\ s \in Shops /\ cfg \in Config
  BY <1>0, <1>1 DEF RouterTypeOK, UpdateRecord
<1>3. /\ update[u].pc = "save"
      /\ UNCHANGED <<plan, copy, pool, call, kept, changes>>
  BY DEF SaveConfig
<1>4. CASE /\ row' = [row EXCEPT ![s] = cfg] /\ failures' = failures
           /\ update' = [update EXCEPT ![u].pc = "invalidate"]
           /\ raced' = IF \E c \in Calls : call[c].pc = "fill" /\ call[c].shop = s
                       THEN raced \cup {s} ELSE raced
  <2>1. PICK d : d = [update[u] EXCEPT !.pc = "invalidate"]
    OBVIOUS
  <2>2. /\ d \in UpdateRecord /\ d.pc = "invalidate" /\ d.shop = s
        /\ update' = [update EXCEPT ![u] = d]
    BY <1>1, <1>2, <1>4, <2>1 DEF UpdateRecord
  <2>3. /\ update' \in [Updates -> UpdateRecord] /\ update'[u] = d
        /\ \A x \in Updates : x # u => update'[x] = update[x]
    BY <1>0, <2>2, UpdateReplaces
  <2>4. /\ row' \in [Shops -> Config] /\ row'[s] = cfg
        /\ \A x \in Shops : x # s => row'[x] = row[x]
        /\ raced \subseteq raced' /\ raced' \subseteq Shops
    BY <1>0, <1>2, <1>4 DEF RouterTypeOK
  <2>5. RouterTypeOK'
    BY <1>0, <1>3, <1>4, <2>3, <2>4 DEF RouterTypeOK
  <2>6. CopyInv'
    <3>1. ASSUME NEW x \in Shops, copy'[x] \notin {NoConfig, row'[x]}
          PROVE  x \in raced' \/ Deleting(x)'
      <4>1. CASE x = s
        BY <2>2, <2>3, <4>1 DEF Deleting
      <4>2. CASE x # s
        <5>1. x \in raced \/ Deleting(x)
          BY <1>0, <1>3, <2>4, <3>1, <4>2 DEF CopyInv
        <5>2. Deleting(x) => Deleting(x)'
          BY <1>3, <2>3 DEF Deleting
        <5> QED
          BY <2>4, <5>1, <5>2
      <4> QED
        BY <4>1, <4>2
    <3>2. ASSUME NEW c \in Calls, call'[c].pc = "fill"
          PROVE  call'[c].cfg = row'[call'[c].shop] \/ call'[c].shop \in raced'
      <4>1. call'[c] = call[c] /\ call[c].shop \in Shops
        BY <1>0, <1>3 DEF RouterTypeOK, CallRecord
      <4>2. CASE call[c].shop = s
        BY <1>4, <3>2, <4>1, <4>2
      <4>3. CASE call[c].shop # s
        BY <1>0, <2>4, <3>2, <4>1, <4>3 DEF CopyInv
      <4> QED
        BY <4>2, <4>3
    <3> QED
      BY <3>1, <3>2 DEF CopyInv
  <2>7. PoolInv'
    BY <1>0, <1>3, PoolSame
  <2>8. PlanInv'
    <3>1. s \notin kept => Passes(s, cfg)
      BY <1>0, <1>1, <1>3 DEF PlanInv
    <3>2. ASSUME NEW x \in Shops \ kept'
          PROVE  Passes(x, row[x])'
      <4>1. CASE x = s
        BY <1>3, <2>4, <3>1, <3>2, <4>1 DEF Passes, Allows
      <4>2. CASE x # s
        BY <1>0, <1>3, <2>4, <3>2, <4>2 DEF PlanInv, Passes, Allows
      <4> QED
        BY <4>1, <4>2
    <3>3. ASSUME NEW x \in Updates, update'[x].pc = "save", update'[x].shop \notin kept'
          PROVE  Passes(update[x].shop, update[x].cfg)'
      <4>1. x # u /\ update'[x] = update[x]
        BY <2>2, <2>3, <3>3
      <4> QED
        BY <1>0, <1>3, <3>3, <4>1 DEF PlanInv, Passes, Allows
    <3> QED
      BY <3>2, <3>3 DEF PlanInv
  <2> QED
    BY <2>5, <2>6, <2>7, <2>8 DEF RouterInv
<1>5. CASE /\ failures' = failures \/ Fail
           /\ update' = [update EXCEPT ![u] = IdleUpdate]
           /\ row' = row /\ raced' = raced
  <2>1. /\ update' \in [Updates -> UpdateRecord] /\ update'[u] = IdleUpdate
        /\ \A x \in Updates : x # u => update'[x] = update[x]
    BY <1>0, <1>5, Idles, UpdateReplaces
  <2>2. failures' \in 0 .. MaxFailures
    BY <1>0, <1>5, OneMoreFailure
  <2>3. RouterTypeOK'
    BY <1>0, <1>3, <1>5, <2>1, <2>2 DEF RouterTypeOK
  <2>4. CopyInv'
    <3>1. ASSUME NEW x \in Shops, Deleting(x) PROVE Deleting(x)'
      BY <1>3, <2>1, <3>1 DEF Deleting
    <3> QED
      BY <1>0, <1>3, <1>5, <3>1 DEF CopyInv
  <2>5. PoolInv'
    BY <1>0, <1>3, PoolSame
  <2>6. PlanInv'
    BY <1>0, <1>3, <1>5, <2>1, Idles DEF PlanInv, Passes, Allows
  <2> QED
    BY <2>3, <2>4, <2>5, <2>6 DEF RouterInv
<1> QED
  BY <1>1, <1>4, <1>5 DEF SaveConfig

LEMMA InvalidateKeeps ==
  ASSUME RouterConstants, RouterInv, NEW u \in Updates, InvalidateCache(u)
  PROVE  RouterInv'
<1>0. RouterTypeOK /\ CopyInv /\ PoolInv /\ PlanInv
  BY DEF RouterInv
<1>1. PICK s : s = update[u].shop
  OBVIOUS
<1>2. /\ update[u] \in UpdateRecord /\ s \in Shops
  BY <1>0, <1>1 DEF RouterTypeOK, UpdateRecord
<1>3. /\ update[u].pc = "invalidate" /\ update' = [update EXCEPT ![u] = IdleUpdate]
      /\ \/ copy' = [copy EXCEPT ![s] = NoConfig] /\ raced' = raced /\ failures' = failures
         \/ Fail /\ raced' = raced \cup {s} /\ copy' = copy
      /\ UNCHANGED <<plan, row, pool, call, kept, changes>>
  BY <1>1 DEF InvalidateCache
<1>4. /\ update' \in [Updates -> UpdateRecord] /\ update'[u] = IdleUpdate
      /\ \A x \in Updates : x # u => update'[x] = update[x]
  BY <1>0, <1>3, Idles, UpdateReplaces
<1>5. /\ copy' \in [Shops -> Config] /\ raced' \subseteq Shops
      /\ \A x \in Shops : x # s => copy'[x] = copy[x]
      /\ copy'[s] = NoConfig \/ s \in raced'
      /\ raced \subseteq raced'
  BY <1>0, <1>2, <1>3, Defaults DEF RouterTypeOK
<1>6. RouterTypeOK'
  <2>1. failures' \in 0 .. MaxFailures
    BY <1>0, <1>3, OneMoreFailure
  <2> QED
    BY <1>0, <1>3, <1>4, <1>5, <2>1 DEF RouterTypeOK
<1>7. CopyInv'
  <2>1. ASSUME NEW x \in Shops, copy'[x] \notin {NoConfig, row'[x]}
        PROVE  x \in raced' \/ Deleting(x)'
    <3>1. CASE x = s
      BY <1>5, <2>1, <3>1
    <3>2. CASE x # s
      <4>1. x \in raced \/ Deleting(x)
        BY <1>0, <1>3, <1>5, <2>1, <3>2 DEF CopyInv
      <4>2. Deleting(x) => Deleting(x)'
        BY <1>1, <1>4, <3>2 DEF Deleting
      <4> QED
        BY <1>5, <4>1, <4>2
    <3> QED
      BY <3>1, <3>2
  <2> QED
    BY <1>0, <1>3, <1>5, <2>1 DEF CopyInv
<1>8. PoolInv'
  BY <1>0, <1>3, PoolSame
<1>9. PlanInv'
  BY <1>0, <1>3, <1>4, Idles DEF PlanInv, Passes, Allows
<1> QED
  BY <1>6, <1>7, <1>8, <1>9 DEF RouterInv

(* A shop that moves to another plan with a configuration is excused.       *)
LEMMA PlanChangesKeeps ==
  ASSUME RouterConstants, RouterInv, NEW s \in Shops, NEW p \in {"free", "growth"},
         PlanChanges(s, p)
  PROVE  RouterInv'
<1>0. RouterTypeOK /\ CopyInv /\ PoolInv /\ PlanInv
  BY DEF RouterInv
<1>1. /\ changes < MaxChanges /\ changes' = changes + 1
      /\ plan' = [plan EXCEPT ![s] = p]
      /\ kept' = IF row[s] # NoConfig \/ \E u \in Updates : update[u].pc = "save"
                 THEN kept \cup {s} ELSE kept
      /\ UNCHANGED <<row, copy, pool, call, update, raced, failures>>
  BY DEF PlanChanges
<1>2. /\ plan' \in [Shops -> {"free", "growth"}]
      /\ \A x \in Shops : x # s => plan'[x] = plan[x]
      /\ kept' \subseteq Shops
  BY <1>0, <1>1 DEF RouterTypeOK
<1>3. RouterTypeOK'
  <2>1. changes' \in 0 .. MaxChanges
    BY <1>0, <1>1, OneMoreChange
  <2> QED
    BY <1>0, <1>1, <1>2, <2>1 DEF RouterTypeOK
<1>4. CopyInv' /\ PoolInv'
  BY <1>0, <1>1, CopySame, PoolSame
<1>5. ASSUME NEW x \in Shops \ kept'
      PROVE  Passes(x, row[x])'
  <2>1. CASE x = s
    BY <1>1, <1>5, <2>1 DEF Passes
  <2>2. CASE x # s
    BY <1>0, <1>1, <1>2, <1>5, <2>2 DEF PlanInv, Passes, Allows
  <2> QED
    BY <2>1, <2>2
<1>6. ASSUME NEW u \in Updates, update'[u].pc = "save", update'[u].shop \notin kept'
      PROVE  Passes(update[u].shop, update[u].cfg)'
  <2>1. update[u].pc = "save" /\ s \in kept' /\ update[u].shop \notin kept
    BY <1>1, <1>6
  <2>2. update[u].shop \in Shops /\ update[u].shop # s
    BY <1>0, <1>1, <1>6, <2>1 DEF RouterTypeOK, UpdateRecord
  <2> QED
    BY <1>0, <1>1, <1>2, <2>1, <2>2 DEF PlanInv, Passes, Allows
<1>7. PlanInv'
  BY <1>5, <1>6 DEF PlanInv
<1> QED
  BY <1>3, <1>4, <1>7 DEF RouterInv

-----------------------------------------------------------------------------
(* Requests.                                                                *)

(* What a request that leaves the copies alone may be about to copy.        *)
LEMMA CopyStays ==
  ASSUME RouterTypeOK, CopyInv, NEW c \in Calls, NEW d \in CallRecord,
         call' = [call EXCEPT ![c] = d], UNCHANGED <<row, copy, update, raced>>,
         d.pc = "fill" => d.cfg = row[d.shop]
  PROVE  CopyInv'
<1>1. /\ call'[c] = d
      /\ \A x \in Calls : x # c => call'[x] = call[x]
  BY CallReplaces
<1>2. ASSUME NEW x \in Calls, call'[x].pc = "fill"
      PROVE  call'[x].cfg = row'[call'[x].shop] \/ call'[x].shop \in raced'
  BY <1>1, <1>2 DEF CopyInv
<1>3. \A x \in Shops : Deleting(x)' <=> Deleting(x)
  BY DEF Deleting
<1> QED
  BY <1>2, <1>3 DEF CopyInv

LEMMA CopyExpiresKeeps ==
  ASSUME RouterConstants, RouterInv, NEW s \in Shops, CopyExpires(s)
  PROVE  RouterInv'
<1>0. RouterTypeOK /\ CopyInv /\ PoolInv /\ PlanInv
  BY DEF RouterInv
<1>1. /\ copy' = [copy EXCEPT ![s] = NoConfig]
      /\ UNCHANGED <<plan, row, kept, changes, pool, call, update, raced, failures>>
  BY DEF CopyExpires, configVars
<1>2. /\ copy' \in [Shops -> Config] /\ copy'[s] = NoConfig
      /\ \A x \in Shops : x # s => copy'[x] = copy[x]
  BY <1>0, <1>1, Defaults DEF RouterTypeOK
<1>3. RouterTypeOK'
  BY <1>0, <1>1, <1>2 DEF RouterTypeOK
<1>4. CopyInv'
  <2>1. \A x \in Shops : Deleting(x)' <=> Deleting(x)
    BY <1>1 DEF Deleting
  <2>2. ASSUME NEW x \in Shops, copy'[x] \notin {NoConfig, row'[x]}
        PROVE  x \in raced' \/ Deleting(x)'
    BY <1>0, <1>1, <1>2, <2>1, <2>2 DEF CopyInv
  <2> QED
    BY <1>0, <1>1, <2>2 DEF CopyInv
<1> QED
  BY <1>0, <1>1, <1>3, <1>4, PoolSame, PlanSame DEF RouterInv

LEMMA ReadCopyKeeps ==
  ASSUME RouterConstants, RouterInv, NEW c \in Calls, NEW s \in Shops, ReadCopy(c, s)
  PROVE  RouterInv'
<1>0. RouterTypeOK /\ CopyInv /\ PoolInv /\ PlanInv
  BY DEF RouterInv
<1>1. /\ UNCHANGED <<plan, row, kept, changes, copy, pool, update, raced>>
      /\ failures' = failures \/ Fail
  BY DEF ReadCopy, configVars
<1>2. PICK d \in CallRecord : /\ call' = [call EXCEPT ![c] = d]
                              /\ d.client = NoClient /\ d.pc # "fill"
  <2>1. CASE call' = [call EXCEPT ![c] = [pc |-> "take", shop |-> s, cfg |-> copy[s],
                                          client |-> NoClient]]
    <3>1. PICK d : d = [pc |-> "take", shop |-> s, cfg |-> copy[s], client |-> NoClient]
      OBVIOUS
    <3>2. copy[s] \in Config
      BY <1>0 DEF RouterTypeOK
    <3>3. d \in CallRecord /\ d.client = NoClient /\ d.pc # "fill"
      BY <3>1, <3>2, Defaults DEF CallRecord
    <3> QED
      BY <2>1, <3>1, <3>3
  <2>2. CASE call' = [call EXCEPT ![c] = [IdleCall EXCEPT !.pc = "read", !.shop = s]]
    <3>1. PICK d : d = [IdleCall EXCEPT !.pc = "read", !.shop = s]
      OBVIOUS
    <3>2. d \in CallRecord /\ d.client = NoClient /\ d.pc # "fill"
      BY <3>1, Idles DEF CallRecord
    <3> QED
      BY <2>2, <3>1, <3>2
  <2> QED
    BY <2>1, <2>2 DEF ReadCopy
<1>3. RouterTypeOK'
  <2>1. call' \in [Calls -> CallRecord]
    BY <1>0, <1>2, CallReplaces
  <2>2. failures' \in 0 .. MaxFailures
    BY <1>0, <1>1, OneMoreFailure
  <2> QED
    BY <1>0, <1>1, <2>1, <2>2 DEF RouterTypeOK
<1>4. CopyInv'
  BY <1>0, <1>1, <1>2, CopyStays
<1>5. PoolInv'
  BY <1>0, <1>1, <1>2, PoolStays
<1> QED
  BY <1>0, <1>1, <1>3, <1>4, <1>5, PlanSame DEF RouterInv

(* What the request is about to copy is the row, for now.                   *)
LEMMA ReadRowKeeps ==
  ASSUME RouterConstants, RouterInv, NEW c \in Calls, ReadRow(c)
  PROVE  RouterInv'
<1>0. RouterTypeOK /\ CopyInv /\ PoolInv /\ PlanInv
  BY DEF RouterInv
<1>1. /\ call[c].pc = "read"
      /\ UNCHANGED <<plan, row, kept, changes, copy, pool, update, raced>>
      /\ failures' = failures \/ Fail
  BY DEF ReadRow, configVars
<1>2. /\ call[c] \in CallRecord /\ call[c].client = NoClient
      /\ call[c].shop \in Shops /\ row[call[c].shop] \in Config
  BY <1>0, <1>1 DEF RouterTypeOK, CallRecord, PoolInv
<1>3. PICK d \in CallRecord : /\ call' = [call EXCEPT ![c] = d] /\ d.client = NoClient
                              /\ d.pc = "fill" => d.cfg = row[d.shop]
  <2>1. CASE call' = [call EXCEPT ![c] = [call[c] EXCEPT !.pc = "fill",
                                                         !.cfg = row[call[c].shop]]]
    <3>1. PICK d : d = [call[c] EXCEPT !.pc = "fill", !.cfg = row[call[c].shop]]
      OBVIOUS
    <3>2. d \in CallRecord /\ d.client = NoClient /\ d.cfg = row[d.shop]
      BY <1>2, <3>1 DEF CallRecord
    <3> QED
      BY <2>1, <3>1, <3>2
  <2>2. CASE call' = [call EXCEPT ![c] = [call[c] EXCEPT !.pc = "take",
                                                         !.cfg = DefaultConfig]]
    <3>1. PICK d : d = [call[c] EXCEPT !.pc = "take", !.cfg = DefaultConfig]
      OBVIOUS
    <3>2. d \in CallRecord /\ d.client = NoClient /\ d.pc = "take"
      BY <1>2, <3>1, Defaults DEF CallRecord
    <3> QED
      BY <2>2, <3>1, <3>2
  <2> QED
    BY <1>0, <2>1, <2>2 DEF ReadRow, RouterTypeOK
<1>4. RouterTypeOK'
  <2>1. call' \in [Calls -> CallRecord]
    BY <1>0, <1>3, CallReplaces
  <2>2. failures' \in 0 .. MaxFailures
    BY <1>0, <1>1, OneMoreFailure
  <2> QED
    BY <1>0, <1>1, <2>1, <2>2 DEF RouterTypeOK
<1>5. CopyInv'
  BY <1>0, <1>1, <1>3, CopyStays
<1>6. PoolInv'
  BY <1>0, <1>1, <1>3, PoolStays
<1> QED
  BY <1>0, <1>1, <1>4, <1>5, <1>6, PlanSame DEF RouterInv

(* A request that copies an older row has been overtaken by an update.      *)
LEMMA FillCopyKeeps ==
  ASSUME RouterConstants, RouterInv, NEW c \in Calls, FillCopy(c)
  PROVE  RouterInv'
<1>0. RouterTypeOK /\ CopyInv /\ PoolInv /\ PlanInv
  BY DEF RouterInv
<1>1. PICK s, cfg : s = call[c].shop /\ cfg = call[c].cfg
  OBVIOUS
<1>2. /\ call[c].pc = "fill" /\ call' = [call EXCEPT ![c].pc = "take"]
      /\ UNCHANGED <<plan, row, kept, changes, pool, update, raced>>
      /\ \/ copy' = [copy EXCEPT ![s] = cfg] /\ failures' = failures
         \/ copy' = copy /\ Fail
  BY <1>1 DEF FillCopy, configVars
<1>3. /\ call[c] \in CallRecord /\ s \in Shops /\ cfg \in Config
      /\ cfg = row[s] \/ s \in raced
      /\ call[c].client = NoClient
  BY <1>0, <1>1, <1>2 DEF RouterTypeOK, CallRecord, CopyInv, PoolInv
<1>4. PICK d : d = [call[c] EXCEPT !.pc = "take"]
  OBVIOUS
<1>5. /\ d \in CallRecord /\ d.pc = "take" /\ d.client = NoClient
      /\ call' = [call EXCEPT ![c] = d]
  BY <1>0, <1>2, <1>3, <1>4 DEF CallRecord, RouterTypeOK
<1>6. /\ call' \in [Calls -> CallRecord] /\ call'[c] = d
      /\ \A x \in Calls : x # c => call'[x] = call[x]
  BY <1>0, <1>5, CallReplaces
<1>7. /\ copy' \in [Shops -> Config]
      /\ copy'[s] \in {copy[s], cfg}
      /\ \A x \in Shops : x # s => copy'[x] = copy[x]
  BY <1>0, <1>2, <1>3 DEF RouterTypeOK
<1>8. RouterTypeOK'
  <2>1. failures' \in 0 .. MaxFailures
    BY <1>0, <1>2, OneMoreFailure
  <2> QED
    BY <1>0, <1>2, <1>6, <1>7, <2>1 DEF RouterTypeOK
<1>9. CopyInv'
  <2>1. \A x \in Shops : Deleting(x)' <=> Deleting(x)
    BY <1>2 DEF Deleting
  <2>2. ASSUME NEW x \in Shops, copy'[x] \notin {NoConfig, row'[x]}
        PROVE  x \in raced' \/ Deleting(x)'
    <3>1. CASE copy'[x] = copy[x]
      BY <1>0, <1>2, <2>1, <2>2, <3>1 DEF CopyInv
    <3>2. CASE x = s /\ copy'[x] = cfg
      BY <1>2, <1>3, <2>2, <3>2
    <3> QED
      BY <1>7, <3>1, <3>2
  <2>3. ASSUME NEW x \in Calls, call'[x].pc = "fill"
        PROVE  call'[x].cfg = row'[call'[x].shop] \/ call'[x].shop \in raced'
    BY <1>0, <1>2, <1>5, <1>6, <2>3 DEF CopyInv
  <2> QED
    BY <2>2, <2>3 DEF CopyInv
<1>10. PoolInv'
  BY <1>0, <1>2, <1>5, PoolStays
<1> QED
  BY <1>0, <1>2, <1>8, <1>9, <1>10, PlanSame DEF RouterInv

(* A new client is made only when the pool has none for the provider and    *)
(* the key; whoever takes one finds his own key in it.                      *)
LEMMA GetOrCreateProviderKeeps ==
  ASSUME RouterConstants, RouterInv, NEW c \in Calls, GetOrCreateProvider(c)
  PROVE  RouterInv'
<1>0. RouterTypeOK /\ CopyInv /\ PoolInv /\ PlanInv
  BY DEF RouterInv
<1>1. PICK cfg, key : cfg = call[c].cfg /\ key = KeyOf(call[c].cfg)
  OBVIOUS
<1>2. /\ call[c].pc = "take" /\ call[c] \in CallRecord /\ call[c].client = NoClient
      /\ cfg \in Config /\ key \in Keys
      /\ UNCHANGED <<plan, row, kept, changes, copy, update, raced, failures>>
  <2>1. call[c].pc = "take" /\ UNCHANGED <<plan, row, kept, changes, copy, update, raced,
                                           failures>>
    BY DEF GetOrCreateProvider, configVars
  <2>2. call[c] \in CallRecord /\ call[c].client = NoClient /\ cfg \in Config
    BY <1>0, <1>1, <2>1 DEF RouterTypeOK, CallRecord, PoolInv
  <2> QED
    BY <1>1, <2>1, <2>2, KeyIsKey
<1>3. PICK new : new = [provider |-> cfg.provider, hash |-> key, key |-> key,
                        model |-> cfg.model]
  OBVIOUS
<1>4. /\ new \in Client /\ new.key = key /\ new.hash = key /\ new.provider = cfg.provider
  BY <1>2, <1>3 DEF Client, Config
<1>5. PICK found : found = {p \in pool : p.provider = cfg.provider /\ p.hash = key}
  OBVIOUS
<1>6. Pooled(cfg) = found
  BY <1>1, <1>5 DEF Pooled, PoolHash
<1>7. CASE key = ""
  <2>1. PICK d : d = [call[c] EXCEPT !.pc = "done"]
    OBVIOUS
  <2>2. /\ call' = [call EXCEPT ![c] = d] /\ pool' = pool
        /\ d \in CallRecord /\ d.pc = "done" /\ d.client = NoClient
    <3>1. call' = [call EXCEPT ![c].pc = "done"] /\ pool' = pool
      BY <1>1, <1>7 DEF GetOrCreateProvider
    <3> QED
      BY <1>0, <1>2, <2>1, <3>1 DEF CallRecord, RouterTypeOK
  <2>3. call' \in [Calls -> CallRecord]
    BY <1>0, <2>2, CallReplaces
  <2>4. RouterTypeOK'
    BY <1>0, <1>2, <2>2, <2>3 DEF RouterTypeOK
  <2>5. CopyInv'
    BY <1>0, <1>2, <2>2, CopyStays
  <2>6. PoolInv'
    BY <1>0, <2>2, PoolStays
  <2> QED
    BY <1>0, <1>2, <2>4, <2>5, <2>6, PlanSame DEF RouterInv
<1>8. CASE key # ""
  <2>1. /\ pool' = IF found = {} THEN pool \cup {new} ELSE pool
        /\ \E p \in IF found = {} THEN {new} ELSE found :
              call' = [call EXCEPT ![c] = [call[c] EXCEPT !.pc = "done", !.client = p]]
    <3>1. new = [provider |-> call[c].cfg.provider, hash |-> PoolHash(KeyOf(call[c].cfg)),
                 key |-> KeyOf(call[c].cfg), model |-> call[c].cfg.model]
      BY <1>1, <1>3 DEF PoolHash
    <3>2. /\ pool' = IF Pooled(call[c].cfg) = {} THEN pool \cup {new} ELSE pool
          /\ \E p \in IF Pooled(call[c].cfg) = {} THEN {new} ELSE Pooled(call[c].cfg) :
                call' = [call EXCEPT ![c] = [call[c] EXCEPT !.pc = "done", !.client = p]]
      BY <1>0, <1>1, <1>8, <3>1 DEF GetOrCreateProvider, RouterTypeOK
    <3> QED
      BY <1>1, <1>6, <3>2
  <2>2. PICK p : /\ p \in IF found = {} THEN {new} ELSE found
                 /\ call' = [call EXCEPT ![c] = [call[c] EXCEPT !.pc = "done",
                                                                !.client = p]]
    BY <2>1
  <2>3. p \in Client /\ p.key = key
    BY <1>0, <1>4, <1>5, <2>2 DEF RouterTypeOK, PoolInv
  <2>4. PICK d : d = [call[c] EXCEPT !.pc = "done", !.client = p]
    OBVIOUS
  <2>5. /\ d \in CallRecord /\ d.pc = "done" /\ d.client = p /\ d.cfg = cfg
        /\ call' = [call EXCEPT ![c] = d]
    BY <1>1, <1>2, <2>2, <2>3, <2>4 DEF CallRecord
  <2>6. /\ call' \in [Calls -> CallRecord] /\ call'[c] = d
        /\ \A x \in Calls : x # c => call'[x] = call[x]
    BY <1>0, <2>5, CallReplaces
  <2>7. RouterTypeOK'
    <3>1. pool' \subseteq Client /\ \A q \in pool' : q.key # ""
      BY <1>0, <1>4, <1>8, <2>1 DEF RouterTypeOK
    <3> QED
      BY <1>0, <1>2, <2>6, <3>1 DEF RouterTypeOK
  <2>8. CopyInv'
    BY <1>0, <1>2, <2>5, CopyStays
  <2>9. PoolInv'
    <3>1. \A q \in pool' : q.hash = q.key
      BY <1>0, <1>4, <2>1 DEF PoolInv
    <3>2. \A q, r \in pool' : q.provider = r.provider /\ q.hash = r.hash => q = r
      BY <1>0, <1>4, <1>5, <2>1 DEF PoolInv
    <3>3. ASSUME NEW x \in Calls
          PROVE  /\ call'[x].pc # "done" => call'[x].client = NoClient
                 /\ call'[x].client # NoClient => call'[x].client.key = KeyOf(call'[x].cfg)
      <4>1. CASE x = c
        BY <1>1, <2>3, <2>5, <2>6, <4>1
      <4>2. CASE x # c
        BY <1>0, <2>6, <4>2 DEF PoolInv
      <4> QED
        BY <4>1, <4>2
    <3> QED
      BY <3>1, <3>2, <3>3 DEF PoolInv, KeyOf
  <2> QED
    BY <1>0, <1>2, <2>7, <2>8, <2>9, PlanSame DEF RouterInv
<1> QED
  BY <1>7, <1>8

LEMMA CallEndsKeeps ==
  ASSUME RouterConstants, RouterInv, NEW c \in Calls, CallEnds(c)
  PROVE  RouterInv'
<1>0. RouterTypeOK /\ CopyInv /\ PoolInv /\ PlanInv
  BY DEF RouterInv
<1>1. /\ call' = [call EXCEPT ![c] = IdleCall]
      /\ UNCHANGED <<plan, row, kept, changes, copy, pool, update, raced, failures>>
  BY DEF CallEnds, configVars
<1>2. call' \in [Calls -> CallRecord]
  BY <1>0, <1>1, Idles, CallReplaces
<1>3. RouterTypeOK'
  BY <1>0, <1>1, <1>2 DEF RouterTypeOK
<1>4. CopyInv'
  BY <1>0, <1>1, Idles, CopyStays
<1>5. PoolInv'
  BY <1>0, <1>1, Idles, PoolStays
<1> QED
  BY <1>0, <1>1, <1>3, <1>4, <1>5, PlanSame DEF RouterInv

-----------------------------------------------------------------------------
LEMMA InitSatisfies ==
  ASSUME RouterConstants, RouterInit
  PROVE  RouterInv
<1>1. RouterTypeOK
  <2>1. 0 \in 0 .. MaxChanges /\ 0 \in 0 .. MaxFailures
    BY DEF RouterConstants
  <2> QED
    BY <2>1, Defaults, Idles DEF RouterInit, RouterTypeOK
<1>2. CopyInv
  BY Idles DEF RouterInit, CopyInv
<1>3. PoolInv
  BY Idles DEF RouterInit, PoolInv
<1>4. PlanInv
  BY Idles DEF RouterInit, PlanInv, Passes
<1> QED
  BY <1>1, <1>2, <1>3, <1>4 DEF RouterInv

LEMMA NextKeeps ==
  ASSUME RouterConstants, RouterInv, [RouterNext]_routerVars
  PROVE  RouterInv'
<1>1. CASE RouterNext
  <2>1. CASE \E u \in Updates, s \in Shops, b \in Changes : UpdateConfig(u, s, b)
    BY <2>1, UpdateConfigKeeps
  <2>2. CASE \E u \in Updates : SaveConfig(u) \/ InvalidateCache(u)
    BY <2>2, SaveConfigKeeps, InvalidateKeeps
  <2>3. CASE \E s \in Shops : CopyExpires(s)
    BY <2>3, CopyExpiresKeeps
  <2>4. CASE \E s \in Shops, p \in {"free", "growth"} : PlanChanges(s, p)
    BY <2>4, PlanChangesKeeps
  <2>5. CASE \E c \in Calls, s \in Shops : ReadCopy(c, s)
    BY <2>5, ReadCopyKeeps
  <2>6. CASE \E c \in Calls : ReadRow(c) \/ FillCopy(c)
    BY <2>6, ReadRowKeeps, FillCopyKeeps
  <2>7. CASE \E c \in Calls : GetOrCreateProvider(c) \/ CallEnds(c)
    BY <2>7, GetOrCreateProviderKeeps, CallEndsKeeps
  <2> QED
    BY <1>1, <2>1, <2>2, <2>3, <2>4, <2>5, <2>6, <2>7 DEF RouterNext
<1>2. CASE UNCHANGED routerVars
  <2>1. RouterTypeOK /\ CopyInv /\ PoolInv /\ PlanInv
    BY DEF RouterInv
  <2>2. UNCHANGED <<plan, row, copy, pool, call, update, kept, raced, changes, failures>>
    BY <1>2 DEF routerVars
  <2>3. RouterTypeOK'
    BY <2>1, <2>2 DEF RouterTypeOK
  <2> QED
    BY <2>1, <2>2, <2>3, CopySame, PoolSame, PlanSame DEF RouterInv
<1> QED
  BY <1>1, <1>2

(* Every variable stays of its type.                                        *)
THEOREM RouterTypes == RouterConstants => (RouterSpec => []RouterTypeOK)
<1> SUFFICES ASSUME RouterConstants PROVE RouterSpec => []RouterTypeOK
  OBVIOUS
<1>1. RouterInit => RouterInv
  BY InitSatisfies
<1>2. RouterInv /\ [RouterNext]_routerVars => RouterInv'
  BY NextKeeps
<1>3. RouterInv => RouterTypeOK
  BY DEF RouterInv
<1> QED
  BY <1>1, <1>2, <1>3, PTL DEF RouterSpec

(* RouterSound: the copy in Redis is the row of the shop unless its delete  *)
(* is under way, was overtaken or failed; no request works with a key that  *)
(* is not its configuration's or the platform's; and a shop without a key   *)
(* of its own has a model of its plan, unless the plan changed under it or  *)
(* its own key was taken away.                                              *)
THEOREM RouterIsSound == RouterConstants => (RouterSpec => []RouterSound)
<1> SUFFICES ASSUME RouterConstants PROVE RouterSpec => []RouterSound
  OBVIOUS
<1>1. RouterInit => RouterInv
  BY InitSatisfies
<1>2. RouterInv /\ [RouterNext]_routerVars => RouterInv'
  BY NextKeeps
<1>3. RouterInv => RouterSound
  <2> SUFFICES ASSUME RouterInv PROVE RouterSound
    OBVIOUS
  <2>1. CopyAgrees
    BY DEF RouterInv, CopyInv, CopyAgrees, Deleting
  <2>2. KeysApart
    BY DEF RouterInv, PoolInv, KeysApart
  <2>3. PlanRespected
    BY DEF RouterInv, PlanInv, Passes, PlanRespected
  <2> QED
    BY <2>1, <2>2, <2>3 DEF RouterSound
<1> QED
  BY <1>1, <1>2, <1>3, PTL DEF RouterSpec

(***************************************************************************)
(* A try-on is paid for once, but for the races and the losses that are    *)
(* counted: only the first task to miss a look is no rival, and until the  *)
(* result is stored one that has paid is at work.                          *)
(***************************************************************************)
Waits == {"off", "stored", "refused", "load", "validate", "lookup"}
Unpaid == {"preprocess", "parse", "submit"}
Paid == {"poll", "check", "refine", "remember"}
Words == {"none", "pending", "validating", "parsing", "generating", "refining", "uploading",
          "completed", "cached", "failed"}
TaskType == [pc: Waits \cup Unpaid \cup Paid \cup {"enhance", "complete", "done"}, look: Looks]
KeysType == [data: Words, status: Words, result: BOOLEAN]

TryOnTyped ==
    /\ task \in [Tasks -> TaskType] /\ redis \in [Tasks -> KeysType]
    /\ late \in [Tasks -> BOOLEAN] /\ stream \in [Tasks -> Words \cup {"open"}]
    /\ results \subseteq Looks /\ paid \in [Looks -> Nat] /\ lost \subseteq Looks
    /\ torn \subseteq Tasks /\ rivals \subseteq Tasks
    /\ faults \in 0..MaxFaults /\ dayCount \in Nat

\* A task whose writes all arrived: both keys agree until one expires, a result is
\* there from the end on, and no stream has been told anything but an end.
Honest(t) ==
    /\ redis[t].status \in {redis[t].data, "none"}
    /\ task[t].pc # "done" => ~redis[t].result
    /\ task[t].pc = "done" => /\ redis[t].data \in Terminal
                              /\ redis[t].result = (redis[t].data # "failed")
    /\ stream[t] \in Terminal \cup {"none", "open"}
HonestInv == \A t \in Tasks \ torn : Honest(t)

\* Tasks that may still pay for the look, and tasks that have paid and not yet
\* stored what they paid for.
MayPay(k) == {t \in Tasks : task[t].look = k /\ task[t].pc \in Unpaid /\ ~late[t]}
HavePaid(k) == {t \in Tasks : task[t].look = k /\ task[t].pc \in Paid}

\* Only the first task to miss is not a rival; until the result is stored, one that
\* has paid is at work, so that whoever misses next is a rival.
PaidFits(k) ==
    /\ paid[k] + Cardinality(MayPay(k)) <= 1 + Cardinality(Rivals(k))
    /\ paid[k] > 0 => k \in results \/ HavePaid(k) # {}
PaidInv == \A k \in Looks \ lost : PaidFits(k)
RivalsInv == \A t \in rivals : task[t].pc \notin Waits

TryOnInv == TryOnTyped /\ HonestInv /\ PaidInv /\ RivalsInv

LEMMA TryOnInitSatisfies == ASSUME TryOnConstants, TryOnInit PROVE TryOnInv
<1>1. TryOnTyped
  BY DEF TryOnConstants, TryOnInit, TryOnTyped, Off, NoKeys, TaskType, KeysType, Waits, Words
<1>2. HonestInv BY DEF TryOnInit, HonestInv, Honest, Off, NoKeys
<1>3. \A k \in Looks : MayPay(k) = {} /\ Rivals(k) = {}
  BY DEF TryOnInit, MayPay, Rivals, Off, Unpaid
<1>4. PaidInv BY <1>3, FS_EmptySet DEF TryOnInit, PaidInv, PaidFits
<1> QED BY <1>1, <1>2, <1>4 DEF TryOnInv, RivalsInv, TryOnInit

LEMMA TryOnSets ==
    ASSUME TryOnConstants, NEW S \in SUBSET Tasks
    PROVE  IsFiniteSet(S) /\ Cardinality(S) \in Nat
BY FS_Subset, FS_CardinalityType DEF TryOnConstants

\* What a step does to the keys of its task.
LEMMA WriteKeysType ==
    ASSUME TryOnConstants, TryOnTyped, NEW t \in Tasks, NEW d \in Words, NEW s \in Words,
           NEW r \in BOOLEAN, WriteKeys(t, d, s, r)
    PROVE  /\ redis' \in [Tasks -> KeysType] /\ faults' \in 0..MaxFaults
           /\ torn \subseteq torn' /\ torn' \subseteq torn \cup {t}
           /\ \A x \in Tasks \ {t} : redis'[x] = redis[x]
           /\ t \notin torn' => redis'[t] = [data |-> d, status |-> s, result |-> r]
<1>0. /\ redis \in [Tasks -> KeysType] /\ faults \in 0..MaxFaults /\ MaxFaults \in Nat
      /\ redis[t] \in KeysType
  BY DEF TryOnTyped, TryOnConstants
<1>1. CASE /\ ~late[t] /\ UNCHANGED <<torn, faults>>
           /\ redis' = [redis EXCEPT ![t] = [data |-> d, status |-> s, result |-> r]]
  <2>1. [data |-> d, status |-> s, result |-> r] \in KeysType BY DEF KeysType
  <2> HIDE DEF KeysType
  <2> QED BY <1>0, <1>1, <2>1
<1>2. CASE late[t] /\ UNCHANGED <<redis, faults>> /\ torn' = torn \cup {t}
  BY <1>0, <1>2
<1>3. CASE /\ ~late[t] /\ RedisFails /\ torn' = torn \cup {t}
           /\ redis' \in {[redis EXCEPT ![t].data = d, ![t].result = r],
                          [redis EXCEPT ![t].status = s], redis}
  <2>1. faults' \in 0..MaxFaults BY <1>0, <1>3 DEF RedisFails
  <2>2. PICK keys \in KeysType : redis' = [redis EXCEPT ![t] = keys]
    <3>1. CASE redis' = [redis EXCEPT ![t].data = d, ![t].result = r]
      <4>1. [redis[t] EXCEPT !.data = d, !.result = r] \in KeysType BY <1>0 DEF KeysType
      <4>2. redis' = [redis EXCEPT ![t] = [redis[t] EXCEPT !.data = d, !.result = r]]
        BY <3>1
      <4> QED BY <4>1, <4>2
    <3>2. CASE redis' = [redis EXCEPT ![t].status = s]
      <4>1. [redis[t] EXCEPT !.status = s] \in KeysType BY <1>0 DEF KeysType
      <4>2. redis' = [redis EXCEPT ![t] = [redis[t] EXCEPT !.status = s]] BY <3>2
      <4> QED BY <4>1, <4>2
    <3>3. CASE redis' = redis
      <4>1. redis' = [redis EXCEPT ![t] = redis[t]] BY <3>3, <1>0
      <4> QED BY <4>1, <1>0
    <3> QED BY <1>3, <3>1, <3>2, <3>3
  <2> QED BY <1>0, <1>3, <2>1, <2>2
<1> QED BY <1>1, <1>2, <1>3 DEF WriteKeys

\* A step moves one task.
LEMMA AdvanceType ==
    ASSUME TryOnTyped, NEW t \in Tasks,
           NEW pc \in Unpaid \cup Paid \cup Waits \cup {"enhance", "complete", "done"},
           Advance(t, pc)
    PROVE  /\ task' \in [Tasks -> TaskType]
           /\ \A x \in Tasks : task'[x].look = task[x].look
           /\ \A x \in Tasks \ {t} : task'[x] = task[x]
           /\ task'[t].pc = pc
<1>1. task \in [Tasks -> TaskType] /\ task[t] \in TaskType BY DEF TryOnTyped
<1>2. task' = [task EXCEPT ![t] = [task[t] EXCEPT !.pc = pc]] BY DEF Advance
<1>3. /\ [task[t] EXCEPT !.pc = pc] \in TaskType
      /\ [task[t] EXCEPT !.pc = pc].look = task[t].look
      /\ [task[t] EXCEPT !.pc = pc].pc = pc
  BY <1>1 DEF TaskType
<1> HIDE DEF TaskType
<1> QED BY <1>1, <1>2, <1>3

\* Nothing is paid, nobody begins, and what was paid for stays at work or is stored.
LEMMA PaidFitsKept ==
    ASSUME TryOnConstants, NEW k \in Looks, PaidFits(k), paid \in [Looks -> Nat],
           paid'[k] = paid[k], rivals' \subseteq Tasks,
           MayPay(k)' \subseteq MayPay(k), Rivals(k) \subseteq Rivals(k)',
           (k \in results \/ HavePaid(k) # {}) => (k \in results' \/ HavePaid(k)' # {})
    PROVE  PaidFits(k)'
<1>1. MayPay(k) \subseteq Tasks BY DEF MayPay
<1>2. Rivals(k)' \subseteq Tasks BY DEF Rivals
<1>3. Cardinality(MayPay(k)') <= Cardinality(MayPay(k)) /\ Cardinality(MayPay(k)) \in Nat
      /\ Cardinality(MayPay(k)') \in Nat
  BY <1>1, TryOnSets, FS_Subset
<1>4. Cardinality(Rivals(k)) <= Cardinality(Rivals(k)') /\ Cardinality(Rivals(k)) \in Nat
      /\ Cardinality(Rivals(k)') \in Nat
  BY <1>2, TryOnSets, FS_Subset
<1>5. paid[k] \in Nat OBVIOUS
<1> QED BY <1>3, <1>4, <1>5 DEF PaidFits

\* Every other task is as honest as before.
LEMMA HonestKept ==
    ASSUME HonestInv, NEW t \in Tasks, torn \subseteq torn',
           \A x \in Tasks \ {t} : task'[x] = task[x] /\ redis'[x] = redis[x]
                                  /\ stream'[x] = stream[x],
           t \notin torn' => Honest(t)'
    PROVE  HonestInv'
<1>1. ASSUME NEW x \in Tasks \ torn', x # t PROVE Honest(x)'
  BY <1>1 DEF HonestInv, Honest, Terminal
<1> QED BY <1>1 DEF HonestInv

StepPairs == {<<"validate", "lookup">>, <<"preprocess", "parse">>, <<"parse", "submit">>,
              <<"poll", "check">>, <<"check", "refine">>, <<"refine", "remember">>,
              <<"enhance", "complete">>}

\* A step that reports progress, and goes on whether or not the report arrived.
LEMMA StepKeeps ==
    ASSUME TryOnConstants, TryOnInv, slots' = slots, NEW t \in Tasks, NEW from, NEW to,
           <<from, to>> \in StepPairs, NEW status \in Words \ Terminal,
           Step(t, from, to, status)
    PROVE  TryOnInv'
<1>0. /\ TryOnTyped /\ HonestInv /\ PaidInv /\ RivalsInv /\ redis[t] \in KeysType
      /\ redis[t].result \in BOOLEAN
  BY DEF TryOnInv, TryOnTyped, KeysType
<1>1. /\ task[t].pc = from /\ Advance(t, to) /\ WriteKeys(t, status, status, redis[t].result)
      /\ UNCHANGED <<late, stream, dayCount, results, paid, rivals, lost>>
  BY DEF Step, Progress
<1>2. /\ to \in Unpaid \cup Paid \cup Waits \cup {"enhance", "complete", "done"}
      /\ from # "done" /\ to # "done" /\ (from \in Unpaid <=> to \in Unpaid)
      /\ (from \in Paid <=> to \in Paid) /\ (to \in Waits => from \in Waits)
  BY DEF StepPairs, Unpaid, Paid, Waits
<1>3. /\ task' \in [Tasks -> TaskType] /\ task'[t].pc = to
      /\ \A x \in Tasks : task'[x].look = task[x].look
      /\ \A x \in Tasks \ {t} : task'[x] = task[x]
  BY <1>0, <1>1, <1>2, AdvanceType
<1>4. /\ redis' \in [Tasks -> KeysType] /\ faults' \in 0..MaxFaults
      /\ torn \subseteq torn' /\ torn' \subseteq torn \cup {t}
      /\ \A x \in Tasks \ {t} : redis'[x] = redis[x]
      /\ t \notin torn' =>
            redis'[t] = [data |-> status, status |-> status, result |-> redis[t].result]
  BY <1>0, <1>1, WriteKeysType
<1>5. TryOnTyped' BY <1>0, <1>1, <1>3, <1>4 DEF TryOnTyped
<1>6. t \notin torn' => Honest(t)'
  BY <1>0, <1>1, <1>2, <1>3, <1>4 DEF HonestInv, Honest, Terminal
<1>7. HonestInv' BY <1>0, <1>1, <1>3, <1>4, <1>6, HonestKept
<1>8. ASSUME NEW k \in Looks \ lost PROVE PaidFits(k)'
  <2>1. MayPay(k)' = MayPay(k) /\ HavePaid(k)' = HavePaid(k) /\ Rivals(k)' = Rivals(k)
    BY <1>0, <1>1, <1>2, <1>3 DEF MayPay, HavePaid, Rivals, TryOnTyped
  <2> QED BY <2>1, <1>0, <1>1, PaidFitsKept DEF PaidInv, TryOnTyped
<1>9. PaidInv' BY <1>1, <1>8 DEF PaidInv
<1>10. RivalsInv' BY <1>0, <1>1, <1>2, <1>3 DEF RivalsInv, TryOnTyped
<1> QED BY <1>5, <1>7, <1>9, <1>10 DEF TryOnInv

\* The end of a failed task: who gave a submitted job up has lost its result.
LEMMA FailureKeeps ==
    ASSUME TryOnConstants, TryOnInv, slots' = slots, NEW t \in Tasks, NEW losing \in BOOLEAN,
           task[t].pc \notin {"done"} \cup Waits \/ task[t].pc = "validate",
           task[t].pc \in Paid => losing, HandleFailure(t, losing)
    PROVE  TryOnInv'
<1>0. /\ TryOnTyped /\ HonestInv /\ PaidInv /\ RivalsInv
      /\ redis[t].result \in BOOLEAN /\ task[t].look \in Looks
  BY DEF TryOnInv, TryOnTyped, KeysType, TaskType
<1>1. /\ Advance(t, "done") /\ WriteKeys(t, "failed", "failed", redis[t].result)
      /\ lost' = IF losing THEN lost \cup {task[t].look} ELSE lost
      /\ UNCHANGED <<late, stream, dayCount, results, paid, rivals>>
  BY DEF HandleFailure
<1>2. "failed" \in Words BY DEF Words
<1>3. /\ task' \in [Tasks -> TaskType] /\ task'[t].pc = "done"
      /\ \A x \in Tasks : task'[x].look = task[x].look
      /\ \A x \in Tasks \ {t} : task'[x] = task[x]
  BY <1>0, <1>1, AdvanceType
<1>4. /\ redis' \in [Tasks -> KeysType] /\ faults' \in 0..MaxFaults
      /\ torn \subseteq torn' /\ torn' \subseteq torn \cup {t}
      /\ \A x \in Tasks \ {t} : redis'[x] = redis[x]
      /\ t \notin torn' =>
            redis'[t] = [data |-> "failed", status |-> "failed", result |-> redis[t].result]
  BY <1>0, <1>1, <1>2, WriteKeysType
<1>5. TryOnTyped' BY <1>0, <1>1, <1>3, <1>4 DEF TryOnTyped
<1>6. task[t].pc # "done" BY DEF Waits
<1>7. t \notin torn' => Honest(t)'
  BY <1>0, <1>1, <1>3, <1>4, <1>6 DEF HonestInv, Honest, Terminal
<1>8. HonestInv' BY <1>0, <1>1, <1>3, <1>4, <1>7, HonestKept
<1>9. ASSUME NEW k \in Looks \ lost' PROVE PaidFits(k)'
  <2>1. k \notin lost /\ (task[t].pc \in Paid => task[t].look # k) BY <1>1, <1>9
  <2>2. MayPay(k)' \subseteq MayPay(k) /\ Rivals(k)' = Rivals(k)
    BY <1>0, <1>1, <1>3 DEF MayPay, Rivals, TryOnTyped, Unpaid
  <2>3. HavePaid(k) \subseteq HavePaid(k)'
    BY <1>0, <1>1, <1>3, <2>1 DEF HavePaid, TryOnTyped
  <2> QED BY <2>1, <2>2, <2>3, <1>0, <1>1, PaidFitsKept DEF PaidInv, TryOnTyped
<1>10. PaidInv' BY <1>9 DEF PaidInv
<1>11. RivalsInv' BY <1>0, <1>1, <1>3 DEF RivalsInv, TryOnTyped, Waits
<1> QED BY <1>5, <1>8, <1>10, <1>11 DEF TryOnInv

\* A task begins, is refused, or is missing when its pipeline begins.
LEMMA BeginKeeps ==
    ASSUME TryOnConstants, TryOnInv, slots' = slots, NEW t \in Tasks, NEW k \in Looks,
           Create(t, k) \/ Dispatch(t) \/ Load(t)
    PROVE  TryOnInv'
<1>0. /\ TryOnTyped /\ HonestInv /\ PaidInv /\ RivalsInv
      /\ task[t] \in TaskType /\ redis[t] \in KeysType /\ MaxFaults \in Nat
  BY DEF TryOnInv, TryOnTyped, TryOnConstants
<1>1. /\ UNCHANGED <<late, stream, results, paid, rivals, lost>>
      /\ dayCount' \in Nat /\ faults' \in 0..MaxFaults /\ task[t].pc \in Waits
      /\ torn \subseteq torn' /\ torn' \subseteq torn \cup {t}
  BY <1>0 DEF Create, Dispatch, Load, RedisFails, TryOnTyped, Waits
<1>2. PICK r \in TaskType : /\ task' = [task EXCEPT ![t] = r]
                            /\ r.pc \in {"stored", "refused", "load", "validate", "done"}
                            /\ r.pc = "done" => t \in torn'
  <2>1. CASE Create(t, k) /\ task' = [task EXCEPT ![t] = [pc |-> "stored", look |-> k]]
    <3>1. [pc |-> "stored", look |-> k] \in TaskType BY DEF TaskType, Waits
    <3> QED BY <2>1, <3>1
  <2>2. ASSUME NEW pc \in {"refused", "load", "validate", "done"}, Advance(t, pc),
               pc = "done" => t \in torn'
        PROVE  \E r \in TaskType : /\ task' = [task EXCEPT ![t] = r]
                                   /\ r.pc \in {"stored", "refused", "load", "validate", "done"}
                                   /\ r.pc = "done" => t \in torn'
    <3>1. [task[t] EXCEPT !.pc = pc] \in TaskType /\ [task[t] EXCEPT !.pc = pc].pc = pc
      BY <1>0 DEF TaskType, Waits
    <3>2. task' = [task EXCEPT ![t] = [task[t] EXCEPT !.pc = pc]] BY <2>2 DEF Advance
    <3> QED BY <2>2, <3>1, <3>2
  <2> QED BY <2>1, <2>2 DEF Create, Dispatch, Load
<1>3. PICK q \in KeysType : /\ redis' = [redis EXCEPT ![t] = q]
                            /\ (q.status \in {q.data, "none"} /\ ~q.result) \/ q = redis[t]
  <2>1. NoKeys \in KeysType /\ NoKeys.status = NoKeys.data /\ NoKeys.result = FALSE
    BY DEF NoKeys, KeysType, Words
  <2>2. LET n == [data |-> "pending", status |-> "pending", result |-> FALSE]
        IN  n \in KeysType /\ n.status = n.data /\ n.result = FALSE
    BY DEF KeysType, Words
  <2>3. redis = [redis EXCEPT ![t] = redis[t]] BY <1>0 DEF TryOnTyped
  <2>4. CASE redis' = redis BY <2>3, <2>4, <1>0
  <2>5. CASE redis' = [redis EXCEPT ![t] = NoKeys] BY <2>1, <2>5
  <2>6. CASE redis' = [redis EXCEPT ![t] = [data |-> "pending", status |-> "pending",
                                            result |-> FALSE]]
    BY <2>2, <2>6
  <2> QED BY <2>4, <2>5, <2>6 DEF Create, Dispatch, Load
<1>4. /\ task' \in [Tasks -> TaskType] /\ redis' \in [Tasks -> KeysType]
      /\ task'[t] = r /\ redis'[t] = q
      /\ \A x \in Tasks \ {t} : task'[x] = task[x] /\ redis'[x] = redis[x]
  BY <1>0, <1>2, <1>3 DEF TryOnTyped
<1>5. TryOnTyped' BY <1>0, <1>1, <1>4 DEF TryOnTyped
<1>6. task[t].pc # "done" BY <1>1 DEF Waits
<1>7. t \notin torn' => Honest(t)'
  BY <1>0, <1>1, <1>2, <1>3, <1>4, <1>6 DEF HonestInv, Honest, Terminal
<1>8. HonestInv' BY <1>0, <1>1, <1>4, <1>7, HonestKept
<1>9. t \notin rivals BY <1>0, <1>1 DEF RivalsInv
<1>10. r.pc \notin Unpaid /\ r.pc \notin Paid /\ task[t].pc \notin Unpaid /\ task[t].pc \notin Paid
  BY <1>1, <1>2 DEF Unpaid, Paid, Waits
<1>11. ASSUME NEW n \in Looks \ lost PROVE PaidFits(n)'
  <2>1. MayPay(n)' = MayPay(n) /\ HavePaid(n)' = HavePaid(n) /\ Rivals(n)' = Rivals(n)
    BY <1>0, <1>1, <1>4, <1>9, <1>10 DEF MayPay, HavePaid, Rivals, TryOnTyped
  <2> QED BY <2>1, <1>0, <1>1, PaidFitsKept DEF PaidInv, TryOnTyped
<1>12. PaidInv' BY <1>1, <1>11 DEF PaidInv
<1>13. RivalsInv' BY <1>0, <1>1, <1>4, <1>9 DEF RivalsInv, TryOnTyped
<1> QED BY <1>5, <1>8, <1>12, <1>13 DEF TryOnInv

\* A miss: whoever else is at work on the look makes the task a rival.
LEMMA MissKeeps ==
    ASSUME TryOnConstants, TryOnInv, slots' = slots, NEW t \in Tasks,
           task[t].pc = "lookup", Advance(t, "preprocess"),
           lost \subseteq lost', lost' \subseteq Looks, faults' \in 0..MaxFaults,
           task[t].look \in results => late[t] \/ task[t].look \in lost',
           rivals' = IF Working(task[t].look) = {} THEN rivals ELSE rivals \cup {t},
           UNCHANGED <<redis, torn, late, stream, dayCount, results, paid>>
    PROVE  TryOnInv'
<1>0. /\ TryOnTyped /\ HonestInv /\ PaidInv /\ RivalsInv /\ task[t].look \in Looks
  BY DEF TryOnInv, TryOnTyped, TaskType
<1>1. /\ task' \in [Tasks -> TaskType] /\ task'[t].pc = "preprocess"
      /\ \A x \in Tasks : task'[x].look = task[x].look
      /\ \A x \in Tasks \ {t} : task'[x] = task[x]
  BY <1>0, AdvanceType DEF Unpaid
<1>2. rivals \subseteq rivals' /\ rivals' \subseteq Tasks /\ t \notin rivals
  BY <1>0 DEF TryOnTyped, RivalsInv, Waits
<1>3. TryOnTyped' BY <1>0, <1>1, <1>2 DEF TryOnTyped
<1>4. HonestInv'
  BY <1>0, <1>1 DEF HonestInv, Honest, Terminal
<1>5. ASSUME NEW k \in Looks \ lost' PROVE PaidFits(k)'
  <2>0. k \notin lost /\ PaidFits(k) BY <1>0, <1>5 DEF PaidInv
  <2>1. Rivals(k) \subseteq Rivals(k)' BY <1>0, <1>1, <1>2 DEF Rivals, TryOnTyped
  <2>2. HavePaid(k)' = HavePaid(k) BY <1>0, <1>1 DEF HavePaid, Paid
  <2>3. CASE task[t].look # k \/ late[t]
    <3>1. MayPay(k)' \subseteq MayPay(k) BY <2>3, <1>0, <1>1 DEF MayPay, TryOnTyped
    <3> QED BY <2>0, <2>1, <2>2, <3>1, <1>0, <1>2, PaidFitsKept DEF TryOnTyped
  <2>4. CASE task[t].look = k /\ ~late[t]
    <3>0. k \notin results BY <2>4, <1>5
    <3>1. /\ MayPay(k) \subseteq Tasks /\ Rivals(k) \subseteq Tasks /\ Rivals(k)' \subseteq Tasks
      BY <1>2 DEF MayPay, Rivals
    <3>2. MayPay(k)' = MayPay(k) \cup {t} /\ t \notin MayPay(k)
      BY <2>4, <1>0, <1>1 DEF MayPay, TryOnTyped, Unpaid
    <3>3. IsFiniteSet(MayPay(k)) /\ Cardinality(MayPay(k)) \in Nat
          /\ IsFiniteSet(Rivals(k)) /\ Cardinality(Rivals(k)) \in Nat
      BY <3>1, TryOnSets
    <3>4. Cardinality(MayPay(k)') = Cardinality(MayPay(k)) + 1
      BY <3>2, <3>3, FS_AddElement
    <3>5. CASE Working(k) = {}
      <4>1. MayPay(k) = {} /\ HavePaid(k) = {}
        BY <3>5 DEF MayPay, HavePaid, Working, Unpaid, Paid
      <4>2. Cardinality(MayPay(k)) = 0 BY <4>1, FS_EmptySet
      <4>3. paid[k] = 0 BY <2>0, <3>0, <4>1, <1>0 DEF PaidFits, TryOnTyped
      <4>4. rivals' = rivals BY <3>5, <2>4
      <4>5. Rivals(k)' = Rivals(k) BY <4>4, <1>0, <1>1 DEF Rivals, TryOnTyped
      <4> QED BY <3>3, <3>4, <4>2, <4>3, <4>5 DEF PaidFits
    <3>6. CASE Working(k) # {}
      <4>1. Rivals(k)' = Rivals(k) \cup {t} /\ t \notin Rivals(k)
        BY <3>6, <2>4, <1>1, <1>2 DEF Rivals
      <4>2. Cardinality(Rivals(k)') = Cardinality(Rivals(k)) + 1
        BY <4>1, <3>3, FS_AddElement
      <4>3. paid[k] \in Nat BY <1>0 DEF TryOnTyped
      <4> QED BY <2>0, <2>2, <3>3, <3>4, <4>2, <4>3 DEF PaidFits
    <3> QED BY <3>5, <3>6
  <2> QED BY <2>3, <2>4
<1>6. PaidInv' BY <1>5 DEF PaidInv
<1>7. RivalsInv' BY <1>0, <1>1, <1>2 DEF RivalsInv, TryOnTyped, Waits
<1> QED BY <1>3, <1>4, <1>6, <1>7 DEF TryOnInv

\* A result that is at hand: the task ends with it.
LEMMA EndKeeps ==
    ASSUME TryOnConstants, TryOnInv, slots' = slots, NEW t \in Tasks,
           NEW word \in {"cached", "completed"}, task[t].pc \in {"lookup", "complete"},
           Advance(t, "done"), WriteKeys(t, word, word, TRUE),
           UNCHANGED <<late, stream, dayCount, results, paid, rivals, lost>>
    PROVE  TryOnInv'
<1>0. TryOnTyped /\ HonestInv /\ PaidInv /\ RivalsInv BY DEF TryOnInv
<1>1. word \in Words /\ word \in Terminal /\ word # "failed" /\ TRUE \in BOOLEAN
  <2>1. CASE word = "cached" BY <2>1 DEF Words, Terminal
  <2>2. CASE word = "completed" BY <2>2 DEF Words, Terminal
  <2> QED BY <2>1, <2>2
<1>2. /\ task' \in [Tasks -> TaskType] /\ task'[t].pc = "done"
      /\ \A x \in Tasks : task'[x].look = task[x].look
      /\ \A x \in Tasks \ {t} : task'[x] = task[x]
  BY <1>0, AdvanceType
<1>3. /\ redis' \in [Tasks -> KeysType] /\ faults' \in 0..MaxFaults
      /\ torn \subseteq torn' /\ torn' \subseteq torn \cup {t}
      /\ \A x \in Tasks \ {t} : redis'[x] = redis[x]
      /\ t \notin torn' => redis'[t] = [data |-> word, status |-> word, result |-> TRUE]
  <2> DEFINE Kept(r) ==
        /\ redis' \in [Tasks -> KeysType] /\ faults' \in 0..MaxFaults
        /\ torn \subseteq torn' /\ torn' \subseteq torn \cup {t}
        /\ \A x \in Tasks \ {t} : redis'[x] = redis[x]
        /\ t \notin torn' => redis'[t] = [data |-> word, status |-> word, result |-> r]
  <2>1. \A r \in BOOLEAN : WriteKeys(t, word, word, r) => Kept(r)
    BY <1>0, <1>1, WriteKeysType
  <2> HIDE DEF Kept
  <2>2. Kept(TRUE) BY <2>1
  <2> QED BY <2>2 DEF Kept
<1>4. TryOnTyped' BY <1>0, <1>2, <1>3 DEF TryOnTyped
<1>5. ASSUME t \notin torn' PROVE Honest(t)'
  <2>1. t \notin torn /\ stream[t] \in Terminal \cup {"none", "open"}
    BY <1>0, <1>3, <1>5 DEF HonestInv, Honest
  <2>2. redis'[t].data = word /\ redis'[t].status = word /\ redis'[t].result = TRUE
    BY <1>3, <1>5
  <2> QED BY <2>1, <2>2, <1>1, <1>2 DEF Honest
<1>6. HonestInv' BY <1>0, <1>2, <1>3, <1>5, HonestKept
<1>7. ASSUME NEW k \in Looks \ lost PROVE PaidFits(k)'
  <2>1. MayPay(k)' = MayPay(k) /\ HavePaid(k)' = HavePaid(k) /\ Rivals(k)' = Rivals(k)
    BY <1>0, <1>2 DEF MayPay, HavePaid, Rivals, TryOnTyped, Paid, Unpaid
  <2> QED BY <2>1, <1>0, PaidFitsKept DEF PaidInv, TryOnTyped
<1>8. PaidInv' BY <1>7 DEF PaidInv
<1>9. RivalsInv' BY <1>0, <1>2 DEF RivalsInv, TryOnTyped, Waits
<1> QED BY <1>4, <1>6, <1>8, <1>9 DEF TryOnInv

LEMMA LookUpKeeps ==
    ASSUME TryOnConstants, TryOnInv, slots' = slots, NEW t \in Tasks, LookUp(t)
    PROVE  TryOnInv'
<1>0. TryOnTyped /\ task[t].look \in Looks /\ MaxFaults \in Nat /\ task[t].pc = "lookup"
      /\ UNCHANGED <<late, stream, dayCount, results, paid>>
  BY DEF TryOnInv, TryOnTyped, TaskType, TryOnConstants, LookUp
<1>1. CASE /\ task[t].look \in results /\ ~late[t] /\ Advance(t, "done")
           /\ WriteKeys(t, "cached", "cached", TRUE) /\ UNCHANGED <<rivals, lost>>
  BY <1>0, <1>1, EndKeeps
<1>2. CASE /\ Advance(t, "preprocess") /\ UNCHANGED <<redis, torn>>
           /\ IF task[t].look \notin results \/ late[t] THEN UNCHANGED <<lost, faults>>
              ELSE RedisFails /\ lost' = lost \cup {task[t].look}
           /\ rivals' = IF Working(task[t].look) = {} THEN rivals ELSE rivals \cup {t}
  <2>1. /\ lost \subseteq lost' /\ lost' \subseteq Looks /\ faults' \in 0..MaxFaults
        /\ task[t].look \in results => late[t] \/ task[t].look \in lost'
    BY <1>0, <1>2 DEF RedisFails, TryOnTyped
  <2> QED BY <1>0, <1>2, <2>1, MissKeeps
<1> QED BY <1>1, <1>2 DEF LookUp

\* One that may pay pays.
LEMMA PayKeeps ==
    ASSUME TryOnConstants, TryOnInv, slots' = slots, NEW t \in Tasks,
           task[t].pc = "submit", ~late[t], Advance(t, "poll"), Progress(t, "generating"),
           paid' = [paid EXCEPT ![task[t].look] = @ + 1],
           UNCHANGED <<late, stream, dayCount, results, rivals, lost>>
    PROVE  TryOnInv'
<1>0. /\ TryOnTyped /\ HonestInv /\ PaidInv /\ RivalsInv
      /\ redis[t].result \in BOOLEAN /\ task[t].look \in Looks /\ "generating" \in Words
  BY DEF TryOnInv, TryOnTyped, KeysType, TaskType, Words
<1>1. /\ task' \in [Tasks -> TaskType] /\ task'[t].pc = "poll"
      /\ \A x \in Tasks : task'[x].look = task[x].look
      /\ \A x \in Tasks \ {t} : task'[x] = task[x]
  BY <1>0, AdvanceType DEF Paid
<1>2. /\ redis' \in [Tasks -> KeysType] /\ faults' \in 0..MaxFaults
      /\ torn \subseteq torn' /\ torn' \subseteq torn \cup {t}
      /\ \A x \in Tasks \ {t} : redis'[x] = redis[x]
      /\ t \notin torn' => redis'[t] = [data |-> "generating", status |-> "generating",
                                        result |-> redis[t].result]
  BY <1>0, WriteKeysType DEF Progress
<1>3. /\ paid' \in [Looks -> Nat] /\ paid'[task[t].look] = paid[task[t].look] + 1
      /\ \A k \in Looks : k # task[t].look => paid'[k] = paid[k]
  BY <1>0 DEF TryOnTyped
<1>4. TryOnTyped' BY <1>0, <1>1, <1>2, <1>3 DEF TryOnTyped
<1>5. t \notin torn' => Honest(t)'
  BY <1>0, <1>1, <1>2 DEF HonestInv, Honest, Terminal
<1>6. HonestInv' BY <1>0, <1>1, <1>2, <1>5, HonestKept
<1>7. ASSUME NEW k \in Looks \ lost PROVE PaidFits(k)'
  <2>0. PaidFits(k) BY <1>0 DEF PaidInv
  <2>1. Rivals(k)' = Rivals(k) BY <1>0, <1>1 DEF Rivals, TryOnTyped
  <2>2. CASE task[t].look # k
    <3>1. MayPay(k)' = MayPay(k) /\ HavePaid(k)' = HavePaid(k)
      BY <1>0, <1>1, <2>2 DEF MayPay, HavePaid
    <3> QED BY <2>0, <2>1, <2>2, <3>1, <1>0, <1>3, PaidFitsKept DEF TryOnTyped
  <2>3. CASE task[t].look = k
    <3>1. MayPay(k)' = MayPay(k) \ {t} /\ t \in MayPay(k)
      BY <1>0, <1>1, <2>3 DEF MayPay, Unpaid
    <3>2. t \in HavePaid(k)' BY <1>1, <2>3 DEF HavePaid, Paid
    <3>3. MayPay(k) \subseteq Tasks /\ Rivals(k) \subseteq Tasks
      BY <1>0 DEF MayPay, Rivals, TryOnTyped
    <3>4. IsFiniteSet(MayPay(k)) /\ Cardinality(MayPay(k)) \in Nat /\ Cardinality(Rivals(k)) \in Nat
      BY <3>3, TryOnSets
    <3>5. Cardinality(MayPay(k)') = Cardinality(MayPay(k)) - 1
      BY <3>1, <3>4, FS_RemoveElement
    <3>6. paid[k] \in Nat BY <1>0 DEF TryOnTyped
    <3> QED BY <2>0, <2>1, <2>3, <3>2, <3>4, <3>5, <3>6, <1>3 DEF PaidFits
  <2> QED BY <2>2, <2>3
<1>8. PaidInv' BY <1>7 DEF PaidInv
<1>9. RivalsInv' BY <1>0, <1>1 DEF RivalsInv, TryOnTyped, Waits
<1> QED BY <1>4, <1>6, <1>8, <1>9 DEF TryOnInv

\* The result is stored, or lost.
LEMMA RememberKeeps ==
    ASSUME TryOnConstants, TryOnInv, slots' = slots, NEW t \in Tasks, Remember(t)
    PROVE  TryOnInv'
<1>0. /\ TryOnTyped /\ HonestInv /\ PaidInv /\ RivalsInv /\ task[t].look \in Looks
      /\ MaxFaults \in Nat
  BY DEF TryOnInv, TryOnTyped, TaskType, TryOnConstants
<1>1. /\ task[t].pc = "remember"
      /\ UNCHANGED <<redis, late, stream, dayCount, paid, rivals, torn>>
      /\ \/ results' = results \cup {task[t].look} /\ UNCHANGED <<lost, faults>>
         \/ /\ lost' = lost \cup {task[t].look} /\ UNCHANGED results
            /\ faults' \in 0..MaxFaults
  BY <1>0 DEF Remember, RedisFails, TryOnTyped
<1>2. PICK pc \in {"enhance", "complete"} : Advance(t, pc) BY DEF Remember
<1>3. /\ task' \in [Tasks -> TaskType] /\ task'[t].pc = pc
      /\ \A x \in Tasks : task'[x].look = task[x].look
      /\ \A x \in Tasks \ {t} : task'[x] = task[x]
  BY <1>0, <1>2, AdvanceType
<1>4. TryOnTyped' BY <1>0, <1>1, <1>3 DEF TryOnTyped
<1>5. HonestInv'
  BY <1>0, <1>1, <1>3 DEF HonestInv, Honest, Terminal
<1>6. ASSUME NEW k \in Looks \ lost' PROVE PaidFits(k)'
  <2>0. k \notin lost /\ PaidFits(k) BY <1>0, <1>1, <1>6 DEF PaidInv
  <2>1. MayPay(k)' = MayPay(k) /\ Rivals(k)' = Rivals(k)
    BY <1>0, <1>1, <1>3 DEF MayPay, Rivals, TryOnTyped, Unpaid
  <2>2. results \subseteq results' BY <1>1
  <2>3. CASE task[t].look = k
    <3>1. k \in results' BY <1>1, <1>6, <2>3
    <3> QED BY <2>0, <2>1, <3>1, <1>0, <1>1, PaidFitsKept DEF TryOnTyped
  <2>4. CASE task[t].look # k
    <3>1. HavePaid(k)' = HavePaid(k) BY <2>4, <1>3 DEF HavePaid
    <3> QED BY <2>0, <2>1, <2>2, <3>1, <1>0, <1>1, PaidFitsKept DEF TryOnTyped
  <2> QED BY <2>3, <2>4
<1>7. PaidInv' BY <1>6 DEF PaidInv
<1>8. RivalsInv' BY <1>0, <1>1, <1>3 DEF RivalsInv, TryOnTyped, Waits
<1> QED BY <1>4, <1>5, <1>7, <1>8 DEF TryOnInv

\* A deadline passes, a key expires, a stream opens or ends.
LEMMA StreamKeeps ==
    ASSUME TryOnConstants, TryOnInv, slots' = slots, NEW t \in Tasks,
           \/ Deadline(t) \/ StatusExpires(t) \/ StreamProgress(t) \/ StreamEnds(t)
    PROVE  TryOnInv'
<1>0. TryOnTyped /\ HonestInv /\ PaidInv /\ RivalsInv /\ redis[t] \in KeysType
  BY DEF TryOnInv, TryOnTyped
<1>1. /\ UNCHANGED <<task, dayCount, results, paid, rivals, lost, torn, faults>>
      /\ late' \in [Tasks -> BOOLEAN] /\ \A x \in Tasks : late[x] => late'[x]
  BY <1>0 DEF Deadline, StatusExpires, StreamProgress, StreamEnds, TryOnTyped
<1>2. /\ redis' \in [Tasks -> KeysType]
      /\ \A x \in Tasks \ {t} : redis'[x] = redis[x]
      /\ redis'[t] \in {redis[t], [redis[t] EXCEPT !.status = "none"]}
  <2>1. [redis[t] EXCEPT !.status = "none"] \in KeysType BY <1>0 DEF KeysType, Words
  <2>2. CASE redis' = redis BY <2>2, <1>0 DEF TryOnTyped
  <2>3. CASE redis' = [redis EXCEPT ![t].status = "none"]
    <3>1. redis' = [redis EXCEPT ![t] = [redis[t] EXCEPT !.status = "none"]] BY <2>3
    <3> QED BY <2>1, <3>1, <1>0 DEF TryOnTyped
  <2> QED BY <2>2, <2>3 DEF Deadline, StatusExpires, StreamProgress, StreamEnds
<1>3. /\ stream' \in [Tasks -> Words \cup {"open"}]
      /\ \A x \in Tasks \ {t} : stream'[x] = stream[x]
      /\ \/ stream'[t] \in {stream[t], "open"}
         \/ stream'[t] = redis[t].data /\ redis[t].status \in Terminal
  BY <1>0 DEF Deadline, StatusExpires, StreamProgress, StreamEnds, TryOnTyped, KeysType, Words
<1>4. TryOnTyped' BY <1>0, <1>1, <1>2, <1>3 DEF TryOnTyped
<1>5. t \notin torn' => Honest(t)'
  <2>1. redis'[t].data = redis[t].data /\ redis'[t].result = redis[t].result
        /\ redis'[t].status \in {redis[t].status, "none"}
    BY <1>0, <1>2 DEF KeysType
  <2> QED BY <2>1, <1>0, <1>1, <1>3 DEF HonestInv, Honest, Terminal
<1>6. HonestInv' BY <1>0, <1>1, <1>2, <1>3, <1>5, HonestKept
<1>7. ASSUME NEW k \in Looks \ lost PROVE PaidFits(k)'
  <2>1. MayPay(k)' \subseteq MayPay(k) /\ HavePaid(k)' = HavePaid(k) /\ Rivals(k)' = Rivals(k)
    BY <1>1 DEF MayPay, HavePaid, Rivals
  <2> QED BY <2>1, <1>0, <1>1, PaidFitsKept DEF PaidInv, TryOnTyped
<1>8. PaidInv' BY <1>1, <1>7 DEF PaidInv
<1>9. RivalsInv' BY <1>0, <1>1 DEF RivalsInv
<1> QED BY <1>4, <1>6, <1>8, <1>9 DEF TryOnInv

\* What a restart ends is torn, and its look may have lost a result.
LEMMA RestartKeeps ==
    ASSUME TryOnConstants, TryOnInv, slots' = slots, TryOnRestart
    PROVE  TryOnInv'
<1>0. TryOnTyped /\ HonestInv /\ PaidInv /\ RivalsInv BY DEF TryOnInv
<1>1. /\ torn' = torn \cup Running /\ lost' = lost \cup {task[t].look : t \in Running}
      /\ UNCHANGED <<redis, late, dayCount, results, paid, rivals, faults>>
      /\ task' = [t \in Tasks |-> IF t \in Running THEN [task[t] EXCEPT !.pc = "done"]
                                  ELSE task[t]]
      /\ stream' = [t \in Tasks |-> IF stream[t] = "open" THEN "none" ELSE stream[t]]
  BY DEF TryOnRestart
<1>2. /\ task' \in [Tasks -> TaskType]
      /\ \A x \in Tasks : /\ task'[x].look = task[x].look
                          /\ x \in Running => task'[x].pc = "done"
                          /\ x \notin Running => task'[x] = task[x]
  <2>1. ASSUME NEW x \in Tasks
        PROVE  /\ [task[x] EXCEPT !.pc = "done"] \in TaskType
               /\ [task[x] EXCEPT !.pc = "done"].look = task[x].look
               /\ [task[x] EXCEPT !.pc = "done"].pc = "done" /\ task[x] \in TaskType
    BY <1>0 DEF TryOnTyped, TaskType
  <2> HIDE DEF TaskType
  <2> QED BY <1>1, <2>1
<1>3. TryOnTyped'
  <2>1. stream' \in [Tasks -> Words \cup {"open"}] BY <1>0, <1>1 DEF TryOnTyped, Words
  <2>2. torn' \subseteq Tasks BY <1>0, <1>1 DEF TryOnTyped, Running
  <2>3. lost' \subseteq Looks BY <1>0, <1>1 DEF TryOnTyped, Running, TaskType
  <2> QED BY <2>1, <2>2, <2>3, <1>0, <1>1, <1>2 DEF TryOnTyped
<1>4. ASSUME NEW x \in Tasks \ torn' PROVE Honest(x)'
  <2>1. x \notin torn /\ x \notin Running /\ Honest(x) BY <1>0, <1>1, <1>4 DEF HonestInv
  <2>2. task'[x] = task[x] /\ redis'[x] = redis[x] /\ stream'[x] \in {"none", stream[x]}
    BY <1>1, <1>2, <2>1
  <2> QED BY <2>1, <2>2 DEF Honest, Terminal
<1>5. HonestInv' BY <1>4 DEF HonestInv
<1>6. ASSUME NEW k \in Looks \ lost' PROVE PaidFits(k)'
  <2>1. k \notin lost /\ \A x \in Running : task[x].look # k BY <1>1, <1>6
  <2>2. HavePaid(k)' = HavePaid(k)
    <3>1. ASSUME NEW x \in Tasks, task[x].look = k PROVE task'[x] = task[x]
      BY <1>2, <2>1, <3>1
    <3> QED BY <3>1, <1>2 DEF HavePaid
  <2>4. Rivals(k)' = Rivals(k) BY <1>0, <1>1, <1>2 DEF Rivals, TryOnTyped
  <2>3. MayPay(k)' \subseteq MayPay(k)
    BY <1>1, <1>2, <2>1 DEF MayPay, Unpaid
  <2> QED BY <2>1, <2>2, <2>3, <2>4, <1>0, <1>1, PaidFitsKept DEF PaidInv, TryOnTyped
<1>7. PaidInv' BY <1>6 DEF PaidInv
<1>8. RivalsInv' BY <1>0, <1>1, <1>2 DEF RivalsInv, TryOnTyped, Waits
<1> QED BY <1>3, <1>5, <1>7, <1>8 DEF TryOnInv

LEMMA ExpiryKeeps ==
    ASSUME TryOnConstants, TryOnInv, slots' = slots, NEW n \in Looks, ResultExpires(n)
    PROVE  TryOnInv'
<1>0. TryOnTyped /\ HonestInv /\ PaidInv /\ RivalsInv BY DEF TryOnInv
<1>1. /\ results' = results \ {n} /\ lost' = lost \cup {n}
      /\ UNCHANGED <<task, redis, late, stream, dayCount, paid, rivals, torn, faults>>
  BY DEF ResultExpires
<1>2. ASSUME NEW k \in Looks \ lost' PROVE PaidFits(k)'
  <2>1. k # n /\ k \notin lost BY <1>1, <1>2
  <2>2. MayPay(k)' = MayPay(k) /\ HavePaid(k)' = HavePaid(k) /\ Rivals(k)' = Rivals(k)
        /\ (k \in results => k \in results')
    BY <1>1, <2>1 DEF MayPay, HavePaid, Rivals
  <2> QED BY <2>1, <2>2, <1>0, <1>1, PaidFitsKept DEF PaidInv, TryOnTyped
<1>3. PaidInv' BY <1>2 DEF PaidInv
<1>4. TryOnTyped' BY <1>0, <1>1 DEF TryOnTyped
<1>5. HonestInv' /\ RivalsInv' BY <1>0, <1>1 DEF HonestInv, Honest, RivalsInv
<1> QED BY <1>3, <1>4, <1>5 DEF TryOnInv

LEMMA TryOnNextKeeps ==
    ASSUME TryOnConstants, TryOnInv, [TryOnNext]_tryonVars PROVE TryOnInv'
<1>0. slots' = slots BY DEF TryOnNext, tryonVars
<1>1. CASE UNCHANGED tryonVars
  BY <1>1 DEF tryonVars, TryOnInv, TryOnTyped, HonestInv, Honest, PaidInv, PaidFits,
     RivalsInv, MayPay, HavePaid, Rivals
<1>2. ASSUME NEW t \in Tasks, NEW k \in Looks, Create(t, k) PROVE TryOnInv'
  BY <1>0, <1>2, BeginKeeps
<1>3. ASSUME NEW t \in Tasks, Dispatch(t) \/ Load(t) PROVE TryOnInv'
  <2>1. PICK k \in Looks : TRUE BY DEF TryOnConstants
  <2> QED BY <1>0, <1>3, <2>1, BeginKeeps
<1>4. ASSUME NEW t \in Tasks,
             Deadline(t) \/ StatusExpires(t) \/ StreamProgress(t) \/ StreamEnds(t)
      PROVE  TryOnInv'
  BY <1>0, <1>4, StreamKeeps
<1>5. ASSUME NEW t \in Tasks,
             \/ Validate(t) \/ Preprocess(t) \/ Parse(t) \/ PollTask(t) \/ CheckQuality(t)
             \/ Refine(t) \/ Enhance(t)
      PROVE  TryOnInv'
  <2>1. CASE \E pair \in StepPairs, status \in Words \ Terminal :
               Step(t, pair[1], pair[2], status)
    <3>1. PICK pair \in StepPairs, status \in Words \ Terminal :
                 Step(t, pair[1], pair[2], status)
      BY <2>1
    <3>2. <<pair[1], pair[2]>> \in StepPairs BY DEF StepPairs
    <3> QED BY <1>0, <3>1, <3>2, StepKeeps
  <2>2. CASE task[t].pc \in {"validate", "parse"} /\ HandleFailure(t, FALSE)
    BY <1>0, <2>2, FailureKeeps DEF Waits, Paid
  <2>3. CASE task[t].pc = "poll" /\ HandleFailure(t, TRUE)
    BY <1>0, <2>3, FailureKeeps DEF Waits, Paid
  <2>4. /\ <<"validate", "lookup">> \in StepPairs /\ <<"preprocess", "parse">> \in StepPairs
        /\ <<"parse", "submit">> \in StepPairs /\ <<"poll", "check">> \in StepPairs
        /\ <<"check", "refine">> \in StepPairs /\ <<"refine", "remember">> \in StepPairs
        /\ <<"enhance", "complete">> \in StepPairs
        /\ {"validating", "parsing", "generating", "refining", "uploading"}
           \subseteq Words \ Terminal
    BY DEF StepPairs, Words, Terminal
  <2>5. CASE \/ Step(t, "validate", "lookup", "validating")
             \/ Step(t, "preprocess", "parse", "parsing")
             \/ Step(t, "parse", "submit", "parsing")
             \/ Step(t, "poll", "check", "generating")
             \/ Step(t, "check", "refine", "generating")
             \/ Step(t, "refine", "remember", "refining")
             \/ Step(t, "enhance", "complete", "uploading")
    BY <1>0, <2>4, <2>5, StepKeeps
  <2> QED BY <1>5, <2>2, <2>3, <2>5
          DEF Validate, Preprocess, Parse, PollTask, CheckQuality, Refine, Enhance
<1>6. ASSUME NEW t \in Tasks, LookUp(t) PROVE TryOnInv' BY <1>0, <1>6, LookUpKeeps
<1>7. ASSUME NEW t \in Tasks, Submit(t) PROVE TryOnInv'
  <2>1. CASE task[t].pc = "submit" /\ HandleFailure(t, FALSE)
    BY <1>0, <2>1, FailureKeeps DEF Waits, Paid
  <2> QED BY <1>0, <1>7, <2>1, PayKeeps DEF Submit
<1>8. ASSUME NEW t \in Tasks, Remember(t) PROVE TryOnInv' BY <1>0, <1>8, RememberKeeps
<1>9. ASSUME NEW t \in Tasks, Complete(t) PROVE TryOnInv'
  BY <1>0, <1>9, EndKeeps DEF Complete
<1>10. CASE TryOnRestart BY <1>0, <1>10, RestartKeeps
<1>11. ASSUME NEW k \in Looks, ResultExpires(k) PROVE TryOnInv'
  BY <1>0, <1>11, ExpiryKeeps
<1> QED BY <1>1, <1>2, <1>3, <1>4, <1>5, <1>6, <1>7, <1>8, <1>9, <1>10, <1>11 DEF TryOnNext

LEMMA TryOnInvBounds ==
    ASSUME TryOnConstants, TryOnInv PROVE TryOnTypeOK /\ TryOnSound
<1>0. TryOnTyped /\ HonestInv /\ PaidInv BY DEF TryOnInv
<1>1. TryOnTypeOK BY <1>0 DEF TryOnTyped, TryOnTypeOK, TaskType, KeysType
<1>2. TasksSettled BY <1>0 DEF HonestInv, Honest, TasksSettled
<1>3. ASSUME NEW k \in Looks \ lost PROVE paid[k] <= 1 + Cardinality(Rivals(k))
  <2>1. MayPay(k) \subseteq Tasks /\ Rivals(k) \subseteq Tasks
    BY <1>0 DEF MayPay, Rivals, TryOnTyped
  <2>2. Cardinality(MayPay(k)) \in Nat /\ Cardinality(Rivals(k)) \in Nat BY <2>1, TryOnSets
  <2>3. paid[k] \in Nat BY <1>0 DEF TryOnTyped
  <2> QED BY <1>0, <2>2, <2>3 DEF PaidInv, PaidFits
<1> QED BY <1>1, <1>2, <1>3 DEF TryOnSound, PaidOnce

\* Whatever the order of tasks, deadlines, failures, restarts and expiries: a task
\* whose writes arrived ends in both keys and on its stream as it ended, and a look
\* whose result was not lost is paid for once and once more per rival
\* (handler/tryon.go, service/tryon/pipeline.go).
THEOREM TryOnIsSound ==
    ASSUME TryOnConstants PROVE TryOnSpec => [](TryOnTypeOK /\ TryOnSound)
<1>1. TryOnInit => TryOnInv BY TryOnInitSatisfies
<1>2. TryOnInv /\ [TryOnNext]_tryonVars => TryOnInv' BY TryOnNextKeeps
<1>3. TryOnInv => TryOnTypeOK /\ TryOnSound BY TryOnInvBounds
<1> QED BY <1>1, <1>2, <1>3, PTL DEF TryOnSpec

(***************************************************************************)
(* A page of the collector is one state of its counters: the maps stay as  *)
(* they are while somebody reads, and between two places a worker is one   *)
(* that has counted and not filed.                                         *)
(***************************************************************************)
WorkerType == [pc: {"idle", "atomics", "lock", "wait", "file", "hist", "module", "moduleWait"},
               kind: RecordKinds, bad: BOOLEAN]
Reading == {"totals", "maps", "llm", "module", "sync", "hist", "cron", "jobs"}
PageType == [total: Nat, errors: Nat, byStatus: Nat, badStatus: Nat, ext: Nat, llm: Nat,
             byModule: Nat, samples: Nat]
AtomicsType == [active: Nat, total: Nat, errors: Nat, ext: Nat, db: Nat]
MapsType == [byStatus: Nat, badStatus: Nat, llm: Nat, byModule: Nat]

MetricsTyped ==
    /\ writer \in Workers \cup {"none"} /\ holds \in BOOLEAN
    /\ readers \in [Scrapers -> 0..2] /\ worker \in [Workers -> WorkerType]
    /\ scraper \in [Scrapers -> Reading \cup {"idle"}] /\ page \in [Scrapers -> PageType]
    /\ atomics \in AtomicsType /\ maps \in MapsType /\ durations \in Nat
    /\ calls \in 0..MaxCalls /\ scrapes \in 0..MaxScrapes

\* The writer is the one worker that has announced itself; it files only with the lock,
\* and then nobody reads.
LockInv ==
    /\ \A w \in Workers : /\ writer = w <=> worker[w].pc \in {"wait", "file", "moduleWait"}
                          /\ worker[w].pc = "file" => holds
    /\ holds => writer # "none" /\ \A s \in Scrapers : readers[s] = 0
ReadersInv == \A s \in Scrapers : /\ scraper[s] = "idle" <=> readers[s] = 0
                                  /\ readers[s] = 2 => scraper[s] \in Nested

\* Workers of a kind between two places: what they have counted and not filed.
Filing == {"lock", "wait", "file"}
Timing == {"lock", "wait", "file", "hist"}
Naming == {"hist", "module", "moduleWait"}
At(f, places, kind) == {w \in Workers : f[w].pc \in places /\ f[w].kind = kind}
Num(f, places, kind) == Cardinality(At(f, places, kind))
Has(r, places, kind) == IF r.pc \in places /\ r.kind = kind THEN 1 ELSE 0

CountsInv ==
    /\ atomics.active = Num(worker, {"atomics"}, "request")
    /\ atomics.total = maps.byStatus + Num(worker, Filing, "request")
    /\ atomics.errors = maps.badStatus
    /\ atomics.ext = maps.llm + Num(worker, Filing, "call")
    /\ maps.llm = maps.byModule + Num(worker, Naming, "call")
    /\ atomics.total + atomics.ext + atomics.db =
           durations + Num(worker, Filing, "request") + Num(worker, Timing, "call")
           + Num(worker, {"hist"}, "query")
RolesInv == \A w \in Workers :
    /\ worker[w].pc \in Filing => worker[w].kind # "query"
    /\ worker[w].pc = "hist" => worker[w].kind # "request"
    /\ worker[w].pc \in {"module", "moduleWait"} => worker[w].kind = "call"

\* What a scraper has read agrees with what it will read: the maps stay as they are
\* while it holds the lock, and the atomic counters never lag behind them.
PageFits(s) ==
    /\ scraper[s] = "maps" => /\ maps.byStatus <= page[s].total
                              /\ page[s].errors = maps.badStatus
    /\ scraper[s] \in {"llm", "module", "sync", "hist", "cron", "jobs"} =>
           page[s].byStatus <= page[s].total /\ page[s].errors = page[s].badStatus
    /\ scraper[s] = "llm" => maps.llm <= page[s].ext
    /\ scraper[s] = "module" => page[s].llm = maps.llm /\ page[s].llm <= page[s].ext
    /\ scraper[s] \in {"sync", "hist", "cron", "jobs"} =>
           page[s].byModule <= page[s].llm /\ page[s].llm <= page[s].ext
PagesInv == \A s \in Scrapers : PageFits(s)

MetricsInv == MetricsTyped /\ LockInv /\ ReadersInv /\ RolesInv /\ CountsInv /\ PagesInv

LEMMA NumType ==
    ASSUME MetricsConstants, NEW f, NEW places, NEW kind
    PROVE  /\ Num(f, places, kind) \in Nat
           /\ At(f, places, kind) = {} => Num(f, places, kind) = 0
<1>1. IsFiniteSet(At(f, places, kind)) BY FS_Subset DEF MetricsConstants, At
<1> QED BY <1>1, FS_CardinalityType, FS_EmptySet DEF Num

\* A worker that goes from one record to another leaves the places of the first and
\* comes to those of the second.
LEMMA NumMoves ==
    ASSUME MetricsConstants, NEW f, NEW g, NEW w \in Workers, NEW places, NEW kind,
           \A x \in Workers \ {w} : g[x] = f[x]
    PROVE  Num(g, places, kind) + Has(f[w], places, kind)
               = Num(f, places, kind) + Has(g[w], places, kind)
<1> DEFINE Rest == At(f, places, kind) \ {w}
<1>1. IsFiniteSet(Rest) /\ w \notin Rest /\ Cardinality(Rest) \in Nat
  <2>1. IsFiniteSet(Rest) BY FS_Subset DEF MetricsConstants, At
  <2> QED BY <2>1, FS_CardinalityType
<1>2. Cardinality(Rest \cup {w}) = Cardinality(Rest) + 1 BY <1>1, FS_AddElement
<1>3. /\ Has(f[w], places, kind) = 1 => At(f, places, kind) = Rest \cup {w}
      /\ Has(f[w], places, kind) = 0 => At(f, places, kind) = Rest
  BY DEF At, Has
<1>4. /\ Has(g[w], places, kind) = 1 => At(g, places, kind) = Rest \cup {w}
      /\ Has(g[w], places, kind) = 0 => At(g, places, kind) = Rest
  BY DEF At, Has
<1>5. Has(f[w], places, kind) \in {0, 1} /\ Has(g[w], places, kind) \in {0, 1} BY DEF Has
<1> HIDE DEF Rest
<1>6. Num(f, places, kind) = Cardinality(Rest) + Has(f[w], places, kind)
  <2>1. CASE Has(f[w], places, kind) = 1 BY <2>1, <1>1, <1>2, <1>3 DEF Num
  <2>2. CASE Has(f[w], places, kind) = 0 BY <2>2, <1>1, <1>3 DEF Num
  <2> QED BY <2>1, <2>2, <1>5
<1>7. Num(g, places, kind) = Cardinality(Rest) + Has(g[w], places, kind)
  <2>1. CASE Has(g[w], places, kind) = 1 BY <2>1, <1>1, <1>2, <1>4 DEF Num
  <2>2. CASE Has(g[w], places, kind) = 0 BY <2>2, <1>1, <1>4 DEF Num
  <2> QED BY <2>1, <2>2, <1>5
<1> QED BY <1>1, <1>5, <1>6, <1>7

\* The same for the counts of the invariant.
Moved(old, new) ==
    /\ Num(worker', {"atomics"}, "request") + Has(old, {"atomics"}, "request")
         = Num(worker, {"atomics"}, "request") + Has(new, {"atomics"}, "request")
    /\ Num(worker', Filing, "request") + Has(old, Filing, "request")
         = Num(worker, Filing, "request") + Has(new, Filing, "request")
    /\ Num(worker', Filing, "call") + Has(old, Filing, "call")
         = Num(worker, Filing, "call") + Has(new, Filing, "call")
    /\ Num(worker', Timing, "call") + Has(old, Timing, "call")
         = Num(worker, Timing, "call") + Has(new, Timing, "call")
    /\ Num(worker', Naming, "call") + Has(old, Naming, "call")
         = Num(worker, Naming, "call") + Has(new, Naming, "call")
    /\ Num(worker', {"hist"}, "query") + Has(old, {"hist"}, "query")
         = Num(worker, {"hist"}, "query") + Has(new, {"hist"}, "query")
LEMMA WorkerMoves ==
    ASSUME MetricsConstants, worker \in [Workers -> WorkerType], NEW w \in Workers,
           NEW r \in WorkerType, worker' = [worker EXCEPT ![w] = r]
    PROVE  /\ worker' \in [Workers -> WorkerType] /\ worker'[w] = r /\ worker[w] \in WorkerType
           /\ \A x \in Workers \ {w} : worker'[x] = worker[x]
           /\ Moved(worker[w], r)
<1>1. /\ worker' \in [Workers -> WorkerType] /\ worker'[w] = r /\ worker[w] \in WorkerType
      /\ \A x \in Workers \ {w} : worker'[x] = worker[x]
  OBVIOUS
<1>2. ASSUME NEW places, NEW kind
      PROVE  Num(worker', places, kind) + Has(worker[w], places, kind)
               = Num(worker, places, kind) + Has(r, places, kind)
  <2>1. Num(worker', places, kind) + Has(worker[w], places, kind)
          = Num(worker, places, kind) + Has(worker'[w], places, kind)
    <3>1. \A x \in Workers \ {w} : worker'[x] = worker[x] BY <1>1
    <3> QED BY ONLY MetricsConstants, <3>1, w \in Workers, NumMoves
  <2> QED BY <2>1, <1>1
<1> QED BY <1>1, <1>2 DEF Moved

LEMMA CountsType ==
    ASSUME MetricsConstants, NEW f
    PROVE  /\ Num(f, {"atomics"}, "request") \in Nat /\ Num(f, Filing, "request") \in Nat
           /\ Num(f, Filing, "call") \in Nat /\ Num(f, Timing, "call") \in Nat
           /\ Num(f, Naming, "call") \in Nat /\ Num(f, {"hist"}, "query") \in Nat
BY NumType

LEMMA MetricsInitSatisfies == ASSUME MetricsConstants, MetricsInit PROVE MetricsInv
<1>1. IdleWorker \in WorkerType /\ NoPage \in PageType
  BY DEF IdleWorker, NoPage, WorkerType, PageType, RecordKinds
<1>2. MetricsTyped
  <2>1. atomics \in AtomicsType /\ maps \in MapsType
    BY DEF MetricsInit, AtomicsType, MapsType
  <2>2. worker \in [Workers -> WorkerType] /\ page \in [Scrapers -> PageType]
    BY <1>1 DEF MetricsInit
  <2>3. /\ readers \in [Scrapers -> 0..2] /\ scraper \in [Scrapers -> Reading \cup {"idle"}]
        /\ calls \in 0..MaxCalls /\ scrapes \in 0..MaxScrapes
    BY DEF MetricsInit, MetricsConstants
  <2> QED BY <2>1, <2>2, <2>3 DEF MetricsInit, MetricsTyped
<1>3. LockInv /\ ReadersInv /\ RolesInv /\ PagesInv
  BY DEF MetricsInit, MetricsConstants, LockInv, ReadersInv, RolesInv, PagesInv, PageFits,
     IdleWorker, Filing
<1>4. \A places, kind : "idle" \notin places => At(worker, places, kind) = {}
  BY DEF MetricsInit, At, IdleWorker
<1>5. \A places, kind : "idle" \notin places => Num(worker, places, kind) = 0
  BY <1>4, NumType
<1>6. /\ Num(worker, {"atomics"}, "request") = 0 /\ Num(worker, Filing, "request") = 0
      /\ Num(worker, Filing, "call") = 0 /\ Num(worker, Timing, "call") = 0
      /\ Num(worker, Naming, "call") = 0 /\ Num(worker, {"hist"}, "query") = 0
  BY <1>5 DEF Filing, Timing, Naming
<1>7. CountsInv BY <1>6 DEF MetricsInit, CountsInv
<1> QED BY <1>2, <1>3, <1>7 DEF MetricsInv

\* A page fits as long as the maps do.
LEMMA PagesKept ==
    ASSUME PagesInv, UNCHANGED <<scraper, page, maps>> PROVE PagesInv'
BY DEF PagesInv, PageFits
\* The maps change only when nobody reads.
LEMMA NobodyReads ==
    ASSUME ReadersInv, \A s \in Scrapers : readers[s] = 0, scraper' = scraper PROVE PagesInv'
<1>1. \A s \in Scrapers : scraper'[s] = "idle" BY DEF ReadersInv
<1> QED BY <1>1 DEF PagesInv, PageFits

\* A worker that moves without the lock stays off the places that need it.
LEMMA MovesUnlocked ==
    ASSUME MetricsConstants, MetricsInv, NEW w \in Workers, NEW r \in WorkerType,
           worker' = [worker EXCEPT ![w] = r], UNCHANGED <<lockVars, scraper, page, maps>>,
           worker[w].pc \notin {"wait", "file", "moduleWait"},
           r.pc \notin {"wait", "file", "moduleWait"},
           r.pc \in Filing => r.kind # "query", r.pc = "hist" => r.kind # "request",
           r.pc = "module" => r.kind = "call"
    PROVE  LockInv' /\ ReadersInv' /\ RolesInv' /\ PagesInv'
<1>1. /\ worker'[w] = r /\ \A x \in Workers \ {w} : worker'[x] = worker[x]
  BY WorkerMoves DEF MetricsInv, MetricsTyped
<1>2. LockInv /\ ReadersInv /\ RolesInv /\ PagesInv BY DEF MetricsInv
<1>3. LockInv' /\ ReadersInv' BY <1>1, <1>2 DEF LockInv, ReadersInv, lockVars
<1>4. RolesInv' BY <1>1, <1>2 DEF RolesInv
<1> QED BY <1>2, <1>3, <1>4, PagesKept

LEMMA BeginRecordKeeps ==
    ASSUME MetricsConstants, MetricsInv, NEW w \in Workers, NEW kind \in RecordKinds,
           NEW bad \in BOOLEAN, BeginRecord(w, kind, bad)
    PROVE  MetricsInv'
<1> DEFINE r == [pc |-> "atomics", kind |-> kind, bad |-> bad]
<1>0. /\ MetricsTyped /\ CountsInv /\ worker[w].pc = "idle" /\ calls < MaxCalls
      /\ calls' = calls + 1 /\ worker' = [worker EXCEPT ![w] = r]
      /\ atomics' = [atomics EXCEPT !.active = Plus(@, kind = "request")]
      /\ UNCHANGED <<lockVars, scraper, page, maps, durations, scrapes>>
  BY DEF MetricsInv, BeginRecord
<1>1. r \in WorkerType /\ r.pc = "atomics" /\ r.kind = kind BY DEF WorkerType
<1> HIDE DEF r
<1>2. LockInv' /\ ReadersInv' /\ RolesInv' /\ PagesInv'
  BY <1>0, <1>1, MovesUnlocked DEF Filing
<1>3. /\ atomics' \in AtomicsType /\ atomics'.active = Plus(atomics.active, kind = "request")
      /\ atomics'.total = atomics.total /\ atomics'.errors = atomics.errors
      /\ atomics'.ext = atomics.ext /\ atomics'.db = atomics.db
  BY <1>0 DEF MetricsTyped, AtomicsType, Plus
<1>4. MetricsTyped'
  <2>1. worker' \in [Workers -> WorkerType] BY <1>0, <1>1 DEF MetricsTyped
  <2>2. calls' \in 0..MaxCalls BY <1>0 DEF MetricsTyped, MetricsConstants
  <2> QED BY <2>1, <2>2, <1>0, <1>3 DEF MetricsTyped, lockVars
<1>5. /\ Num(worker', {"atomics"}, "request") = Plus(Num(worker, {"atomics"}, "request"), kind = "request")
      /\ Num(worker', Filing, "request") = Num(worker, Filing, "request")
      /\ Num(worker', Filing, "call") = Num(worker, Filing, "call")
      /\ Num(worker', Timing, "call") = Num(worker, Timing, "call")
      /\ Num(worker', Naming, "call") = Num(worker, Naming, "call")
      /\ Num(worker', {"hist"}, "query") = Num(worker, {"hist"}, "query")
  <2>1. /\ Has(worker[w], {"atomics"}, "request") = 0
        /\ Has(r, {"atomics"}, "request") = Plus(0, kind = "request")
        /\ Has(worker[w], Filing, "request") = 0 /\ Has(r, Filing, "request") = 0
        /\ Has(worker[w], Filing, "call") = 0 /\ Has(r, Filing, "call") = 0
        /\ Has(worker[w], Timing, "call") = 0 /\ Has(r, Timing, "call") = 0
        /\ Has(worker[w], Naming, "call") = 0 /\ Has(r, Naming, "call") = 0
        /\ Has(worker[w], {"hist"}, "query") = 0 /\ Has(r, {"hist"}, "query") = 0
    BY <1>0, <1>1 DEF Has, Filing, Timing, Naming, Plus
  <2>2. worker \in [Workers -> WorkerType] BY <1>0 DEF MetricsTyped
  <2>3. Moved(worker[w], r) BY <1>0, <1>1, <2>2, WorkerMoves
  <2> QED BY <2>1, <2>3, CountsType DEF Moved, Plus
<1>6. CountsInv' BY <1>0, <1>3, <1>5 DEF CountsInv
<1> QED BY <1>2, <1>4, <1>6 DEF MetricsInv

LEMMA MoveType ==
    ASSUME worker \in [Workers -> WorkerType], NEW w \in Workers,
           NEW pc \in {"idle", "atomics", "lock", "wait", "file", "hist", "module", "moduleWait"},
           Move(w, pc)
    PROVE  \E r \in WorkerType : /\ worker' = [worker EXCEPT ![w] = r]
                                 /\ r.pc = pc /\ r.kind = worker[w].kind
<1> DEFINE r == [worker[w] EXCEPT !.pc = pc]
<1>1. worker' = [worker EXCEPT ![w] = r] BY DEF Move
<1>2. r \in WorkerType /\ r.pc = pc /\ r.kind = worker[w].kind BY DEF WorkerType
<1> HIDE DEF r
<1> QED BY <1>1, <1>2

\* A move within the places of each count.
Alike(old, new) == \A places \in {{"atomics"}, Filing, Timing, Naming, {"hist"}}, kind \in RecordKinds :
                       Has(old, places, kind) = Has(new, places, kind)
LEMMA AlikeKeeps ==
    ASSUME MetricsConstants, MetricsTyped, CountsInv, NEW w \in Workers, NEW r \in WorkerType,
           worker' = [worker EXCEPT ![w] = r], Alike(worker[w], r),
           UNCHANGED <<atomics, maps, durations>>
    PROVE  CountsInv'
<1>1. worker \in [Workers -> WorkerType] BY DEF MetricsTyped
<1>2. Moved(worker[w], r) BY <1>1, WorkerMoves
<1>3. /\ Has(worker[w], {"atomics"}, "request") = Has(r, {"atomics"}, "request")
      /\ Has(worker[w], Filing, "request") = Has(r, Filing, "request")
      /\ Has(worker[w], Filing, "call") = Has(r, Filing, "call")
      /\ Has(worker[w], Timing, "call") = Has(r, Timing, "call")
      /\ Has(worker[w], Naming, "call") = Has(r, Naming, "call")
      /\ Has(worker[w], {"hist"}, "query") = Has(r, {"hist"}, "query")
  BY DEF Alike, RecordKinds
<1>4. \A places, kind : Has(r, places, kind) \in Nat BY DEF Has
<1>5. /\ Num(worker', {"atomics"}, "request") = Num(worker, {"atomics"}, "request")
      /\ Num(worker', Filing, "request") = Num(worker, Filing, "request")
      /\ Num(worker', Filing, "call") = Num(worker, Filing, "call")
      /\ Num(worker', Timing, "call") = Num(worker, Timing, "call")
      /\ Num(worker', Naming, "call") = Num(worker, Naming, "call")
      /\ Num(worker', {"hist"}, "query") = Num(worker, {"hist"}, "query")
  BY <1>2, <1>3, <1>4, CountsType DEF Moved
<1> QED BY <1>5 DEF CountsInv

LEMMA CountKeeps ==
    ASSUME MetricsConstants, MetricsInv, NEW w \in Workers, Count(w)
    PROVE  MetricsInv'
<1>0. /\ MetricsTyped /\ CountsInv /\ worker[w].pc = "atomics" /\ worker[w].kind \in RecordKinds
      /\ worker \in [Workers -> WorkerType] /\ atomics \in AtomicsType
      /\ atomics' = CASE worker[w].kind = "request" -> [atomics EXCEPT !.total = @ + 1,
                                                                       !.active = @ - 1]
                      [] worker[w].kind = "call" -> [atomics EXCEPT !.ext = @ + 1]
                      [] OTHER -> [atomics EXCEPT !.db = @ + 1]
      /\ Move(w, IF worker[w].kind = "query" THEN "hist" ELSE "lock")
      /\ UNCHANGED <<lockVars, scraper, page, maps, durations, calls, scrapes>>
  BY DEF MetricsInv, MetricsTyped, WorkerType, Count
<1>1. PICK r \in WorkerType : /\ worker' = [worker EXCEPT ![w] = r]
                              /\ r.pc = IF worker[w].kind = "query" THEN "hist" ELSE "lock"
                              /\ r.kind = worker[w].kind
  BY <1>0, MoveType
<1>2. LockInv' /\ ReadersInv' /\ RolesInv' /\ PagesInv'
  BY <1>0, <1>1, MovesUnlocked DEF Filing
<1>3. /\ Moved(worker[w], r) /\ worker' \in [Workers -> WorkerType]
  BY <1>0, <1>1, WorkerMoves
<1>4. CASE worker[w].kind = "request"
  <2>1. /\ Has(worker[w], {"atomics"}, "request") = 1 /\ Has(r, {"atomics"}, "request") = 0
        /\ Has(worker[w], Filing, "request") = 0 /\ Has(r, Filing, "request") = 1
        /\ Has(worker[w], Filing, "call") = 0 /\ Has(r, Filing, "call") = 0
        /\ Has(worker[w], Timing, "call") = 0 /\ Has(r, Timing, "call") = 0
        /\ Has(worker[w], Naming, "call") = 0 /\ Has(r, Naming, "call") = 0
        /\ Has(worker[w], {"hist"}, "query") = 0 /\ Has(r, {"hist"}, "query") = 0
    BY <1>0, <1>1, <1>4 DEF Has, Filing, Timing, Naming
  <2>2. atomics.active \in Nat \ {0} BY <2>1, <1>0, <1>3, CountsType DEF CountsInv, Moved
  <2>3. /\ atomics' \in AtomicsType /\ atomics'.active = atomics.active - 1
        /\ atomics'.total = atomics.total + 1 /\ atomics'.errors = atomics.errors
        /\ atomics'.ext = atomics.ext /\ atomics'.db = atomics.db
    <3>1. atomics' = [atomics EXCEPT !.total = atomics.total + 1, !.active = atomics.active - 1]
      BY <1>0, <1>4
    <3>2. atomics.active - 1 \in Nat /\ atomics.total + 1 \in Nat BY <1>0, <2>2 DEF AtomicsType
    <3> QED BY <1>0, <3>1, <3>2 DEF AtomicsType
  <2>4. CountsInv'
    BY <1>0, <1>3, <2>1, <2>3, CountsType DEF CountsInv, Moved, AtomicsType, MetricsTyped, MapsType
  <2>5. MetricsTyped' BY <1>0, <1>3, <2>3 DEF MetricsTyped, lockVars
  <2> QED BY <2>4, <2>5, <1>2 DEF MetricsInv
<1>5. CASE worker[w].kind = "call"
  <2>1. /\ Has(worker[w], {"atomics"}, "request") = 0 /\ Has(r, {"atomics"}, "request") = 0
        /\ Has(worker[w], Filing, "request") = 0 /\ Has(r, Filing, "request") = 0
        /\ Has(worker[w], Filing, "call") = 0 /\ Has(r, Filing, "call") = 1
        /\ Has(worker[w], Timing, "call") = 0 /\ Has(r, Timing, "call") = 1
        /\ Has(worker[w], Naming, "call") = 0 /\ Has(r, Naming, "call") = 0
        /\ Has(worker[w], {"hist"}, "query") = 0 /\ Has(r, {"hist"}, "query") = 0
    BY <1>0, <1>1, <1>5 DEF Has, Filing, Timing, Naming
  <2>3. /\ atomics' \in AtomicsType /\ atomics'.active = atomics.active
        /\ atomics'.total = atomics.total /\ atomics'.errors = atomics.errors
        /\ atomics'.ext = atomics.ext + 1 /\ atomics'.db = atomics.db
    BY <1>0, <1>5 DEF AtomicsType
  <2>2. /\ Num(worker', {"atomics"}, "request") = Num(worker, {"atomics"}, "request")
        /\ Num(worker', Filing, "request") = Num(worker, Filing, "request")
        /\ Num(worker', Filing, "call") = Num(worker, Filing, "call") + 1
        /\ Num(worker', Timing, "call") = Num(worker, Timing, "call") + 1
        /\ Num(worker', Naming, "call") = Num(worker, Naming, "call")
        /\ Num(worker', {"hist"}, "query") = Num(worker, {"hist"}, "query")
    BY <1>3, <2>1, CountsType DEF Moved
  <2>4. CountsInv'
    BY <1>0, <2>2, <2>3, CountsType DEF CountsInv, AtomicsType, MetricsTyped, MapsType
  <2>5. MetricsTyped' BY <1>0, <1>3, <2>3 DEF MetricsTyped, lockVars
  <2> QED BY <2>4, <2>5, <1>2 DEF MetricsInv
<1>6. CASE worker[w].kind = "query"
  <2>1. /\ Has(worker[w], {"atomics"}, "request") = 0 /\ Has(r, {"atomics"}, "request") = 0
        /\ Has(worker[w], Filing, "request") = 0 /\ Has(r, Filing, "request") = 0
        /\ Has(worker[w], Filing, "call") = 0 /\ Has(r, Filing, "call") = 0
        /\ Has(worker[w], Timing, "call") = 0 /\ Has(r, Timing, "call") = 0
        /\ Has(worker[w], Naming, "call") = 0 /\ Has(r, Naming, "call") = 0
        /\ Has(worker[w], {"hist"}, "query") = 0 /\ Has(r, {"hist"}, "query") = 1
    BY <1>0, <1>1, <1>6 DEF Has, Filing, Timing, Naming
  <2>3. /\ atomics' \in AtomicsType /\ atomics'.active = atomics.active
        /\ atomics'.total = atomics.total /\ atomics'.errors = atomics.errors
        /\ atomics'.ext = atomics.ext /\ atomics'.db = atomics.db + 1
    BY <1>0, <1>6 DEF AtomicsType
  <2>4. CountsInv'
    BY <1>0, <1>3, <2>1, <2>3, CountsType DEF CountsInv, Moved, AtomicsType, MetricsTyped, MapsType
  <2>5. MetricsTyped' BY <1>0, <1>3, <2>3 DEF MetricsTyped, lockVars
  <2> QED BY <2>4, <2>5, <1>2 DEF MetricsInv
<1> QED BY <1>0, <1>4, <1>5, <1>6 DEF RecordKinds

\* Announcing and taking the lock change no count.
LEMMA LockKeeps ==
    ASSUME MetricsConstants, MetricsInv, NEW w \in Workers,
           LockWaits(w) \/ LockTaken(w) \/ ModuleWaits(w)
    PROVE  MetricsInv'
<1>0. /\ MetricsTyped /\ LockInv /\ ReadersInv /\ RolesInv /\ CountsInv /\ PagesInv
      /\ worker \in [Workers -> WorkerType] /\ worker[w].kind \in RecordKinds
  BY DEF MetricsInv, MetricsTyped, WorkerType
<1>1. PICK pc \in {"wait", "file", "moduleWait"} :
        /\ Move(w, pc) /\ UNCHANGED <<readers, scraper, page, atomics, maps, durations, calls, scrapes>>
        /\ \/ /\ pc \in {"wait", "moduleWait"} /\ writer = "none" /\ writer' = w
              /\ UNCHANGED holds
              /\ worker[w].pc = IF pc = "wait" THEN "lock" ELSE "module"
           \/ /\ pc = "file" /\ writer = w /\ UNCHANGED writer /\ holds' = TRUE
              /\ worker[w].pc = "wait" /\ \A s \in Scrapers : readers[s] = 0
  BY DEF LockWaits, LockTaken, ModuleWaits, Announce, Acquire
<1>2. PICK r \in WorkerType : /\ worker' = [worker EXCEPT ![w] = r]
                              /\ r.pc = pc /\ r.kind = worker[w].kind
  BY <1>0, <1>1, MoveType
<1>3. Alike(worker[w], r)
  BY <1>1, <1>2 DEF Alike, Has, Filing, Timing, Naming
<1>4. CountsInv' BY <1>0, <1>1, <1>2, <1>3, AlikeKeeps
<1>5. /\ worker' \in [Workers -> WorkerType] /\ worker'[w] = r
      /\ \A x \in Workers \ {w} : worker'[x] = worker[x]
  BY <1>0, <1>2, WorkerMoves
<1>6. MetricsTyped' BY <1>0, <1>1, <1>5 DEF MetricsTyped
<1>7. LockInv'
  BY <1>0, <1>1, <1>2, <1>5 DEF LockInv, MetricsConstants
<1>8. ReadersInv' BY <1>0, <1>1 DEF ReadersInv
<1>9. RolesInv' BY <1>0, <1>1, <1>2, <1>5 DEF RolesInv, Filing
<1>10. PagesInv' BY <1>0, <1>1, PagesKept
<1> QED BY <1>4, <1>6, <1>7, <1>8, <1>9, <1>10 DEF MetricsInv

\* A worker that files with the lock, which it gives back: nobody reads meanwhile.
LEMMA FilesUnderLock ==
    ASSUME MetricsConstants, MetricsInv, NEW w \in Workers, NEW r \in WorkerType,
           worker' = [worker EXCEPT ![w] = r], writer = w, \A s \in Scrapers : readers[s] = 0,
           Unlock, UNCHANGED <<scraper, page>>, r.pc \in {"idle", "hist"},
           r.pc = "hist" => r.kind # "request"
    PROVE  LockInv' /\ ReadersInv' /\ RolesInv' /\ PagesInv'
<1>1. /\ worker'[w] = r /\ \A x \in Workers \ {w} : worker'[x] = worker[x]
  BY WorkerMoves DEF MetricsInv, MetricsTyped
<1>2. LockInv /\ ReadersInv /\ RolesInv BY DEF MetricsInv
<1>3. LockInv' /\ ReadersInv'
  BY <1>1, <1>2 DEF LockInv, ReadersInv, Unlock, MetricsConstants
<1>4. RolesInv' BY <1>1, <1>2 DEF RolesInv, Filing
<1> QED BY <1>2, <1>3, <1>4, NobodyReads

LEMMA FileRequestKeeps ==
    ASSUME MetricsConstants, MetricsInv, NEW w \in Workers, FileRequest(w)
    PROVE  MetricsInv'
<1>0. /\ MetricsTyped /\ CountsInv /\ LockInv /\ worker[w].pc = "file" /\ worker[w].kind = "request"
      /\ worker \in [Workers -> WorkerType] /\ atomics \in AtomicsType /\ maps \in MapsType
      /\ durations \in Nat /\ durations' = durations + 1
      /\ maps' = [maps EXCEPT !.byStatus = @ + 1, !.badStatus = Plus(@, worker[w].bad)]
      /\ atomics' = [atomics EXCEPT !.errors = Plus(@, worker[w].bad)]
      /\ Unlock /\ Move(w, "idle") /\ UNCHANGED <<scraper, page, calls, scrapes>>
  BY DEF MetricsInv, MetricsTyped, FileRequest
<1>1. PICK r \in WorkerType : /\ worker' = [worker EXCEPT ![w] = r]
                              /\ r.pc = "idle" /\ r.kind = worker[w].kind
  BY <1>0, MoveType
<1>2. LockInv' /\ ReadersInv' /\ RolesInv' /\ PagesInv'
  <2>1. writer = w /\ \A s \in Scrapers : readers[s] = 0 BY <1>0 DEF LockInv
  <2> QED BY <1>0, <1>1, <2>1, FilesUnderLock
<1>3. Moved(worker[w], r) /\ worker' \in [Workers -> WorkerType] BY <1>0, <1>1, WorkerMoves
<1>4. PICK n \in Nat : \A x \in Nat : Plus(x, worker[w].bad) = x + n BY DEF Plus
<1>5. /\ maps' \in MapsType /\ maps'.byStatus = maps.byStatus + 1
      /\ maps'.badStatus = maps.badStatus + n /\ maps'.llm = maps.llm
      /\ maps'.byModule = maps.byModule
  <2>1. maps' = [maps EXCEPT !.byStatus = maps.byStatus + 1, !.badStatus = maps.badStatus + n]
    BY <1>0, <1>4 DEF MapsType
  <2>2. maps.byStatus + 1 \in Nat /\ maps.badStatus + n \in Nat BY <1>0, <1>4 DEF MapsType
  <2> QED BY <2>1, <2>2, <1>0 DEF MapsType
<1>6. /\ atomics' \in AtomicsType /\ atomics'.active = atomics.active
      /\ atomics'.total = atomics.total /\ atomics'.errors = atomics.errors + n
      /\ atomics'.ext = atomics.ext /\ atomics'.db = atomics.db
  <2>1. atomics' = [atomics EXCEPT !.errors = atomics.errors + n]
    BY <1>0, <1>4 DEF AtomicsType
  <2>2. atomics.errors + n \in Nat BY <1>0, <1>4 DEF AtomicsType
  <2> QED BY <2>1, <2>2, <1>0 DEF AtomicsType
<1>7. CountsInv'
  <2>1. /\ Has(worker[w], {"atomics"}, "request") = 0 /\ Has(r, {"atomics"}, "request") = 0
         /\ Has(worker[w], Filing, "request") = 1 /\ Has(r, Filing, "request") = 0
         /\ Has(worker[w], Filing, "call") = 0 /\ Has(r, Filing, "call") = 0
         /\ Has(worker[w], Timing, "call") = 0 /\ Has(r, Timing, "call") = 0
         /\ Has(worker[w], Naming, "call") = 0 /\ Has(r, Naming, "call") = 0
         /\ Has(worker[w], {"hist"}, "query") = 0 /\ Has(r, {"hist"}, "query") = 0
    BY <1>0, <1>1 DEF Has, Filing, Timing, Naming
  <2>2. /\ Num(worker', {"atomics"}, "request") = Num(worker, {"atomics"}, "request")
         /\ Num(worker', Filing, "request") + 1 = Num(worker, Filing, "request")
         /\ Num(worker', Filing, "call") = Num(worker, Filing, "call")
         /\ Num(worker', Timing, "call") = Num(worker, Timing, "call")
         /\ Num(worker', Naming, "call") = Num(worker, Naming, "call")
         /\ Num(worker', {"hist"}, "query") = Num(worker, {"hist"}, "query")
    BY <1>3, <2>1, CountsType DEF Moved
  <2> QED BY <1>0, <1>5, <1>6, <2>2, CountsType DEF CountsInv, AtomicsType, MapsType
<1>8. MetricsTyped'
  <2>1. durations' \in Nat BY <1>0
  <2>2. writer' = "none" /\ holds' = FALSE /\ readers' = readers BY <1>0 DEF Unlock
  <2> QED BY <2>1, <2>2, <1>0, <1>3, <1>5, <1>6 DEF MetricsTyped
<1> QED BY <1>2, <1>7, <1>8 DEF MetricsInv

LEMMA FileCallKeeps ==
    ASSUME MetricsConstants, MetricsInv, NEW w \in Workers, FileCall(w) PROVE MetricsInv'
<1>0. /\ MetricsTyped /\ CountsInv /\ LockInv /\ worker[w].pc = "file" /\ worker[w].kind = "call"
      /\ worker \in [Workers -> WorkerType] /\ maps \in MapsType /\ atomics \in AtomicsType
      /\ maps' = [maps EXCEPT !.llm = @ + 1] /\ durations \in Nat
      /\ Unlock /\ Move(w, "hist") /\ UNCHANGED <<scraper, page, atomics, durations, calls, scrapes>>
  BY DEF MetricsInv, MetricsTyped, FileCall
<1>1. PICK r \in WorkerType : /\ worker' = [worker EXCEPT ![w] = r]
                              /\ r.pc = "hist" /\ r.kind = worker[w].kind
  BY <1>0, MoveType
<1>2. LockInv' /\ ReadersInv' /\ RolesInv' /\ PagesInv'
  <2>1. writer = w /\ \A s \in Scrapers : readers[s] = 0 BY <1>0 DEF LockInv
  <2> QED BY <1>0, <1>1, <2>1, FilesUnderLock
<1>3. Moved(worker[w], r) /\ worker' \in [Workers -> WorkerType] BY <1>0, <1>1, WorkerMoves
<1>4. /\ maps' \in MapsType /\ maps'.byStatus = maps.byStatus
      /\ maps'.badStatus = maps.badStatus /\ maps'.llm = maps.llm + 1
      /\ maps'.byModule = maps.byModule
  BY <1>0 DEF MapsType
<1>5. CountsInv'
  <2>1. /\ Has(worker[w], {"atomics"}, "request") = 0 /\ Has(r, {"atomics"}, "request") = 0
         /\ Has(worker[w], Filing, "request") = 0 /\ Has(r, Filing, "request") = 0
         /\ Has(worker[w], Filing, "call") = 1 /\ Has(r, Filing, "call") = 0
         /\ Has(worker[w], Timing, "call") = 1 /\ Has(r, Timing, "call") = 1
         /\ Has(worker[w], Naming, "call") = 0 /\ Has(r, Naming, "call") = 1
         /\ Has(worker[w], {"hist"}, "query") = 0 /\ Has(r, {"hist"}, "query") = 0
    BY <1>0, <1>1 DEF Has, Filing, Timing, Naming
  <2>2. /\ Num(worker', {"atomics"}, "request") = Num(worker, {"atomics"}, "request")
         /\ Num(worker', Filing, "request") = Num(worker, Filing, "request")
         /\ Num(worker', Filing, "call") + 1 = Num(worker, Filing, "call")
         /\ Num(worker', Timing, "call") = Num(worker, Timing, "call")
         /\ Num(worker', Naming, "call") = Num(worker, Naming, "call") + 1
         /\ Num(worker', {"hist"}, "query") = Num(worker, {"hist"}, "query")
    BY <1>3, <2>1, CountsType DEF Moved
  <2> QED BY <1>0, <1>4, <2>2, CountsType DEF CountsInv, AtomicsType, MapsType
<1>6. MetricsTyped' BY <1>0, <1>3, <1>4 DEF MetricsTyped, Unlock
<1> QED BY <1>2, <1>5, <1>6 DEF MetricsInv

LEMMA FileModuleKeeps ==
    ASSUME MetricsConstants, MetricsInv, NEW w \in Workers, FileModule(w) PROVE MetricsInv'
<1>0. /\ MetricsTyped /\ CountsInv /\ RolesInv /\ worker[w].pc = "moduleWait"
      /\ worker \in [Workers -> WorkerType] /\ maps \in MapsType /\ atomics \in AtomicsType
      /\ maps' = [maps EXCEPT !.byModule = @ + 1] /\ durations \in Nat
      /\ writer = w /\ \A s \in Scrapers : readers[s] = 0
      /\ Unlock /\ Move(w, "idle") /\ UNCHANGED <<scraper, page, atomics, durations, calls, scrapes>>
  BY DEF MetricsInv, MetricsTyped, FileModule
<1>1. PICK r \in WorkerType : /\ worker' = [worker EXCEPT ![w] = r]
                              /\ r.pc = "idle" /\ r.kind = worker[w].kind
  BY <1>0, MoveType
<1>2. LockInv' /\ ReadersInv' /\ RolesInv' /\ PagesInv' BY <1>0, <1>1, FilesUnderLock
<1>3. Moved(worker[w], r) /\ worker' \in [Workers -> WorkerType] /\ worker[w].kind = "call"
  BY <1>0, <1>1, WorkerMoves DEF RolesInv
<1>4. /\ maps' \in MapsType /\ maps'.byStatus = maps.byStatus
      /\ maps'.badStatus = maps.badStatus /\ maps'.llm = maps.llm
      /\ maps'.byModule = maps.byModule + 1
  BY <1>0 DEF MapsType
<1>5. CountsInv'
  <2>1. /\ Has(worker[w], {"atomics"}, "request") = 0 /\ Has(r, {"atomics"}, "request") = 0
         /\ Has(worker[w], Filing, "request") = 0 /\ Has(r, Filing, "request") = 0
         /\ Has(worker[w], Filing, "call") = 0 /\ Has(r, Filing, "call") = 0
         /\ Has(worker[w], Timing, "call") = 0 /\ Has(r, Timing, "call") = 0
         /\ Has(worker[w], Naming, "call") = 1 /\ Has(r, Naming, "call") = 0
         /\ Has(worker[w], {"hist"}, "query") = 0 /\ Has(r, {"hist"}, "query") = 0
    BY <1>0, <1>1, <1>3 DEF Has, Filing, Timing, Naming
  <2>2. /\ Num(worker', {"atomics"}, "request") = Num(worker, {"atomics"}, "request")
         /\ Num(worker', Filing, "request") = Num(worker, Filing, "request")
         /\ Num(worker', Filing, "call") = Num(worker, Filing, "call")
         /\ Num(worker', Timing, "call") = Num(worker, Timing, "call")
         /\ Num(worker', Naming, "call") + 1 = Num(worker, Naming, "call")
         /\ Num(worker', {"hist"}, "query") = Num(worker, {"hist"}, "query")
    BY <1>3, <2>1, CountsType DEF Moved
  <2> QED BY <1>0, <1>4, <2>2, CountsType DEF CountsInv, AtomicsType, MapsType
<1>6. MetricsTyped' BY <1>0, <1>3, <1>4 DEF MetricsTyped, Unlock
<1> QED BY <1>2, <1>5, <1>6 DEF MetricsInv

LEMMA AddSampleKeeps ==
    ASSUME MetricsConstants, MetricsInv, NEW w \in Workers, AddSample(w) PROVE MetricsInv'
<1>0. /\ MetricsTyped /\ CountsInv /\ RolesInv /\ worker[w].pc = "hist"
      /\ worker \in [Workers -> WorkerType] /\ maps \in MapsType /\ atomics \in AtomicsType
      /\ durations \in Nat /\ durations' = durations + 1
      /\ Move(w, IF worker[w].kind = "call" THEN "module" ELSE "idle")
      /\ UNCHANGED <<lockVars, scraper, page, atomics, maps, calls, scrapes>>
      /\ worker[w].kind \in {"call", "query"}
  BY DEF MetricsInv, MetricsTyped, AddSample, RolesInv, WorkerType, RecordKinds
<1>1. PICK r \in WorkerType : /\ worker' = [worker EXCEPT ![w] = r] /\ r.kind = worker[w].kind
                              /\ r.pc = IF worker[w].kind = "call" THEN "module" ELSE "idle"
  BY <1>0, MoveType
<1>2. LockInv' /\ ReadersInv' /\ RolesInv' /\ PagesInv'
  BY <1>0, <1>1, MovesUnlocked DEF Filing
<1>3. Moved(worker[w], r) /\ worker' \in [Workers -> WorkerType] BY <1>0, <1>1, WorkerMoves
<1>4. CountsInv'
  <2>1. CASE worker[w].kind = "call"
    <3>1. /\ Has(worker[w], {"atomics"}, "request") = 0 /\ Has(r, {"atomics"}, "request") = 0
           /\ Has(worker[w], Filing, "request") = 0 /\ Has(r, Filing, "request") = 0
           /\ Has(worker[w], Filing, "call") = 0 /\ Has(r, Filing, "call") = 0
           /\ Has(worker[w], Timing, "call") = 1 /\ Has(r, Timing, "call") = 0
           /\ Has(worker[w], Naming, "call") = 1 /\ Has(r, Naming, "call") = 1
           /\ Has(worker[w], {"hist"}, "query") = 0 /\ Has(r, {"hist"}, "query") = 0
      BY <1>0, <1>1, <2>1 DEF Has, Filing, Timing, Naming
    <3>2. /\ Num(worker', {"atomics"}, "request") = Num(worker, {"atomics"}, "request")
           /\ Num(worker', Filing, "request") = Num(worker, Filing, "request")
           /\ Num(worker', Filing, "call") = Num(worker, Filing, "call")
           /\ Num(worker', Timing, "call") + 1 = Num(worker, Timing, "call")
           /\ Num(worker', Naming, "call") = Num(worker, Naming, "call")
           /\ Num(worker', {"hist"}, "query") = Num(worker, {"hist"}, "query")
      BY <1>3, <3>1, CountsType DEF Moved
    <3> QED BY <1>0, <3>2, CountsType DEF CountsInv, AtomicsType, MapsType
  <2>2. CASE worker[w].kind = "query"
    <3>1. /\ Has(worker[w], {"atomics"}, "request") = 0 /\ Has(r, {"atomics"}, "request") = 0
           /\ Has(worker[w], Filing, "request") = 0 /\ Has(r, Filing, "request") = 0
           /\ Has(worker[w], Filing, "call") = 0 /\ Has(r, Filing, "call") = 0
           /\ Has(worker[w], Timing, "call") = 0 /\ Has(r, Timing, "call") = 0
           /\ Has(worker[w], Naming, "call") = 0 /\ Has(r, Naming, "call") = 0
           /\ Has(worker[w], {"hist"}, "query") = 1 /\ Has(r, {"hist"}, "query") = 0
      BY <1>0, <1>1, <2>2 DEF Has, Filing, Timing, Naming
    <3>2. /\ Num(worker', {"atomics"}, "request") = Num(worker, {"atomics"}, "request")
           /\ Num(worker', Filing, "request") = Num(worker, Filing, "request")
           /\ Num(worker', Filing, "call") = Num(worker, Filing, "call")
           /\ Num(worker', Timing, "call") = Num(worker, Timing, "call")
           /\ Num(worker', Naming, "call") = Num(worker, Naming, "call")
           /\ Num(worker', {"hist"}, "query") + 1 = Num(worker, {"hist"}, "query")
      BY <1>3, <3>1, CountsType DEF Moved
    <3> QED BY <1>0, <3>2, CountsType DEF CountsInv, AtomicsType, MapsType
  <2> QED BY <2>1, <2>2, <1>0
<1>5. MetricsTyped' BY <1>0, <1>3 DEF MetricsTyped, lockVars
<1> QED BY <1>2, <1>4, <1>5 DEF MetricsInv

\* A scraper that goes from one place to another: the rest of the state is as it was.
ScraperGoes(s, pc, n, pg) ==
    /\ scraper' = [scraper EXCEPT ![s] = pc] /\ readers' = [readers EXCEPT ![s] = n]
    /\ page' = [page EXCEPT ![s] = pg] /\ UNCHANGED <<writer, holds, workerVars>>
LEMMA ScraperKeeps ==
    ASSUME MetricsConstants, MetricsInv, NEW s \in Scrapers, NEW pc \in Reading \cup {"idle"},
           NEW n \in 0..2, NEW pg \in PageType, ScraperGoes(s, pc, n, pg),
           scrapes' \in 0..MaxScrapes, pc = "idle" <=> n = 0, n = 2 => pc \in Nested,
           n > readers[s] => ~holds,
           pc = "maps" => maps.byStatus <= pg.total /\ pg.errors = maps.badStatus,
           pc \in {"llm", "module", "sync", "hist", "cron", "jobs"} =>
               pg.byStatus <= pg.total /\ pg.errors = pg.badStatus,
           pc = "llm" => maps.llm <= pg.ext,
           pc = "module" => pg.llm = maps.llm /\ pg.llm <= pg.ext,
           pc \in {"sync", "hist", "cron", "jobs"} =>
               pg.byModule <= pg.llm /\ pg.llm <= pg.ext
    PROVE  MetricsInv'
<1>0. /\ MetricsTyped /\ LockInv /\ ReadersInv /\ RolesInv /\ CountsInv /\ PagesInv
  BY DEF MetricsInv
<1>1. /\ scraper' \in [Scrapers -> Reading \cup {"idle"}] /\ readers' \in [Scrapers -> 0..2]
      /\ page' \in [Scrapers -> PageType]
      /\ scraper'[s] = pc /\ readers'[s] = n /\ page'[s] = pg
      /\ \A x \in Scrapers \ {s} : /\ scraper'[x] = scraper[x] /\ readers'[x] = readers[x]
                                   /\ page'[x] = page[x]
  BY <1>0 DEF MetricsTyped, ScraperGoes
<1>2. UNCHANGED <<writer, holds, worker, atomics, maps, durations, calls>>
  BY DEF ScraperGoes, workerVars
<1>3. MetricsTyped' BY <1>0, <1>1, <1>2 DEF MetricsTyped
<1>4. LockInv'
  <2>1. ASSUME holds PROVE n = 0
    <3>1. readers[s] = 0 BY <1>0, <2>1 DEF LockInv
    <3> QED BY <3>1, <2>1
  <2> QED BY <2>1, <1>0, <1>1, <1>2 DEF LockInv
<1>5. ReadersInv' BY <1>0, <1>1 DEF ReadersInv
<1>6. RolesInv' /\ CountsInv' BY <1>0, <1>2 DEF RolesInv, CountsInv
<1>7. ASSUME NEW x \in Scrapers PROVE PageFits(x)'
  <2>1. CASE x = s BY <2>1, <1>1, <1>2 DEF PageFits
  <2>2. CASE x # s
    <3>1. PageFits(x) BY <1>0 DEF PagesInv
    <3> QED BY <2>2, <3>1, <1>1, <1>2 DEF PageFits
  <2> QED BY <2>1, <2>2
<1> QED BY <1>3, <1>4, <1>5, <1>6, <1>7 DEF MetricsInv, PagesInv

\* What a scraper reads: the counters agree with each other at every moment.
LEMMA CountersAgree ==
    ASSUME MetricsConstants, MetricsInv
    PROVE  /\ maps.byStatus <= atomics.total /\ atomics.errors = maps.badStatus
           /\ maps.llm <= atomics.ext /\ maps.byModule <= maps.llm
           /\ {atomics.total, atomics.errors, atomics.ext, durations} \subseteq Nat
           /\ {maps.byStatus, maps.badStatus, maps.llm, maps.byModule} \subseteq Nat
BY CountsType DEF MetricsInv, MetricsTyped, CountsInv, AtomicsType, MapsType

LEMMA ScrapeKeeps ==
    ASSUME MetricsConstants, MetricsInv, NEW s \in Scrapers,
           \/ Scrape(s) \/ WriteTotals(s) \/ WriteMaps(s) \/ NestedRLock(s)
           \/ NestedRead(s) \/ WriteHistograms(s) \/ ScrapeEnds(s)
    PROVE  MetricsInv'
<1>0. /\ MetricsTyped /\ LockInv /\ ReadersInv /\ PageFits(s)
      /\ scraper \in [Scrapers -> Reading \cup {"idle"}] /\ readers \in [Scrapers -> 0..2]
      /\ page \in [Scrapers -> PageType] /\ page[s] \in PageType /\ scrapes \in 0..MaxScrapes
      /\ MaxScrapes \in Nat
  BY DEF MetricsInv, MetricsTyped, PagesInv, MetricsConstants
<1>1. readers = [readers EXCEPT ![s] = readers[s]] /\ page = [page EXCEPT ![s] = page[s]]
      /\ scraper = [scraper EXCEPT ![s] = scraper[s]]
  BY <1>0
<1>2. /\ scraper[s] \in Reading => readers[s] \in {1, 2}
      /\ scraper[s] \in Reading \ Nested => readers[s] = 1
  BY <1>0 DEF ReadersInv, Reading
<1>3. CASE Scrape(s)
  <2>1. ScraperGoes(s, "totals", 1, NoPage) /\ ~holds /\ scrapes' \in 0..MaxScrapes
    <3>1. readers[s] = 0 /\ writer = "none" BY <1>0, <1>3 DEF Scrape, RLock, ReadersInv
    <3>2. readers' = [readers EXCEPT ![s] = 1] BY <1>3, <3>1 DEF Scrape, RLock
    <3>3. ~holds BY <1>0, <3>1 DEF LockInv
    <3>4. ScraperGoes(s, "totals", 1, NoPage)
      BY <1>3, <3>2 DEF Scrape, RLock, Place, ScraperGoes
    <3>5. scrapes' \in 0..MaxScrapes BY <1>0, <1>3 DEF Scrape
    <3> QED BY <3>3, <3>4, <3>5
  <2>2. NoPage \in PageType BY DEF NoPage, PageType
  <2>3. "totals" \in Reading BY DEF Reading
  <2> QED BY <2>1, <2>2, <2>3, ScraperKeeps
<1>4. CASE WriteTotals(s)
  <2> DEFINE pg == [page[s] EXCEPT !.total = atomics.total, !.errors = atomics.errors]
  <2>1. scraper[s] = "totals" /\ readers[s] = 1 BY <1>4, <1>2 DEF WriteTotals, Reading, Nested
  <2>2. page' = [page EXCEPT ![s] = pg] BY <1>4 DEF WriteTotals
  <2>3. ScraperGoes(s, "maps", 1, pg)
    BY <1>1, <1>4, <2>1, <2>2 DEF WriteTotals, Place, lockVars, ScraperGoes
  <2>4. pg \in PageType /\ pg.total = atomics.total /\ pg.errors = atomics.errors
    BY <1>0, CountersAgree DEF PageType
  <2>5. scrapes' = scrapes BY <1>4 DEF WriteTotals
  <2>6. "maps" \in Reading BY DEF Reading
  <2> HIDE DEF pg
  <2> QED BY <1>0, <2>1, <2>3, <2>4, <2>5, <2>6, CountersAgree, ScraperKeeps
<1>5. CASE WriteMaps(s)
  <2> DEFINE pg == [page[s] EXCEPT !.byStatus = maps.byStatus, !.badStatus = maps.badStatus,
                                   !.ext = atomics.ext]
  <2>1. scraper[s] = "maps" /\ readers[s] = 1 BY <1>5, <1>2 DEF WriteMaps, Reading, Nested
  <2>2. page' = [page EXCEPT ![s] = pg] BY <1>5 DEF WriteMaps
  <2>3. ScraperGoes(s, "llm", 1, pg)
    BY <1>1, <1>5, <2>1, <2>2 DEF WriteMaps, Place, lockVars, ScraperGoes
  <2>4. /\ pg \in PageType /\ pg.byStatus = maps.byStatus /\ pg.badStatus = maps.badStatus
        /\ pg.ext = atomics.ext /\ pg.total = page[s].total /\ pg.errors = page[s].errors
    BY <1>0, CountersAgree DEF PageType
  <2>5. maps.byStatus <= page[s].total /\ page[s].errors = maps.badStatus
    BY <1>0, <2>1 DEF PageFits
  <2>6. scrapes' = scrapes BY <1>5 DEF WriteMaps
  <2>7. "llm" \in Reading BY DEF Reading
  <2> HIDE DEF pg
  <2> QED BY <1>0, <2>1, <2>3, <2>4, <2>5, <2>6, <2>7, CountersAgree, ScraperKeeps
<1>6. CASE NestedRLock(s)
  <2>1. scraper[s] \in Nested /\ readers[s] = 1 /\ ~holds
    BY <1>0, <1>6 DEF NestedRLock, RLock, LockInv
  <2>2. ScraperGoes(s, scraper[s], 2, page[s])
    BY <1>1, <1>6, <2>1 DEF NestedRLock, RLock, ScraperGoes
  <2>3. scrapes' = scrapes /\ scraper[s] \in Reading BY <1>6, <2>1 DEF NestedRLock, Nested, Reading
  <2> QED BY <1>0, <2>1, <2>2, <2>3, ScraperKeeps DEF PageFits, Reading
<1>7. CASE NestedRead(s)
  <2>1. scraper[s] \in Nested /\ readers[s] = 2 /\ readers' = [readers EXCEPT ![s] = 1]
    BY <1>7 DEF NestedRead, RUnlock
  <2>2. scrapes' = scrapes BY <1>7 DEF NestedRead
  <2>3. CASE scraper[s] = "llm"
    <3> DEFINE pg == [page[s] EXCEPT !.llm = maps.llm]
    <3>1. page' = [page EXCEPT ![s] = pg] BY <1>7, <2>3 DEF NestedRead
    <3>2. ScraperGoes(s, "module", 1, pg)
      BY <1>7, <2>1, <2>3, <3>1 DEF NestedRead, RUnlock, Place, SectionAfter, ScraperGoes
    <3>3. /\ pg \in PageType /\ pg.llm = maps.llm /\ pg.ext = page[s].ext
          /\ pg.byStatus = page[s].byStatus /\ pg.badStatus = page[s].badStatus
          /\ pg.total = page[s].total /\ pg.errors = page[s].errors
      BY <1>0, CountersAgree DEF PageType
    <3>4. "module" \in Reading BY DEF Reading
    <3> HIDE DEF pg
    <3> QED BY <1>0, <2>1, <2>2, <2>3, <3>2, <3>3, <3>4, ScraperKeeps DEF PageFits
  <2>4. CASE scraper[s] = "module"
    <3> DEFINE pg == [page[s] EXCEPT !.byModule = maps.byModule]
    <3>1. page' = [page EXCEPT ![s] = pg] BY <1>7, <2>4 DEF NestedRead
    <3>2. ScraperGoes(s, "sync", 1, pg)
      BY <1>7, <2>1, <2>4, <3>1 DEF NestedRead, RUnlock, Place, SectionAfter, ScraperGoes
    <3>3. /\ pg \in PageType /\ pg.llm = page[s].llm /\ pg.ext = page[s].ext
          /\ pg.byStatus = page[s].byStatus /\ pg.badStatus = page[s].badStatus
          /\ pg.total = page[s].total /\ pg.errors = page[s].errors
          /\ pg.byModule = maps.byModule
      BY <1>0, CountersAgree DEF PageType
    <3>4. "sync" \in Reading BY DEF Reading
    <3>5. maps.byModule <= maps.llm BY CountersAgree
    <3> HIDE DEF pg
    <3> QED BY <1>0, <2>1, <2>2, <2>4, <3>2, <3>3, <3>4, <3>5, ScraperKeeps DEF PageFits
  <2>5. CASE scraper[s] \in {"sync", "cron"}
    <3>1. PICK pc \in {"hist", "jobs"} : ScraperGoes(s, pc, 1, page[s])
      BY <1>1, <1>7, <2>1, <2>5 DEF NestedRead, RUnlock, Place, SectionAfter, ScraperGoes
    <3>2. pc \in Reading BY DEF Reading
    <3> QED BY <1>0, <2>1, <2>2, <2>5, <3>1, <3>2, ScraperKeeps DEF PageFits
  <2> QED BY <2>1, <2>3, <2>4, <2>5 DEF Nested
<1>8. CASE WriteHistograms(s)
  <2> DEFINE pg == [page[s] EXCEPT !.samples = durations]
  <2>1. scraper[s] = "hist" /\ readers[s] = 1 BY <1>8, <1>2 DEF WriteHistograms, Reading, Nested
  <2>2. page' = [page EXCEPT ![s] = pg] BY <1>8 DEF WriteHistograms
  <2>3. ScraperGoes(s, "cron", 1, pg)
    BY <1>1, <1>8, <2>1, <2>2 DEF WriteHistograms, Place, lockVars, ScraperGoes
  <2>4. /\ pg \in PageType /\ pg.llm = page[s].llm /\ pg.ext = page[s].ext
        /\ pg.byStatus = page[s].byStatus /\ pg.badStatus = page[s].badStatus
        /\ pg.total = page[s].total /\ pg.errors = page[s].errors
        /\ pg.byModule = page[s].byModule
    BY <1>0, CountersAgree DEF PageType
  <2>5. scrapes' = scrapes BY <1>8 DEF WriteHistograms
  <2>6. "cron" \in Reading BY DEF Reading
  <2> HIDE DEF pg
  <2> QED BY <1>0, <2>1, <2>3, <2>4, <2>5, <2>6, ScraperKeeps DEF PageFits
<1>9. CASE ScrapeEnds(s)
  <2>1. scraper[s] = "jobs" /\ readers[s] = 1 BY <1>9, <1>2 DEF ScrapeEnds, Reading, Nested
  <2>2. readers' = [readers EXCEPT ![s] = 0] BY <1>9, <2>1 DEF ScrapeEnds, RUnlock
  <2>3. ScraperGoes(s, "idle", 0, page[s])
    BY <1>1, <1>9, <2>2 DEF ScrapeEnds, RUnlock, Place, ScraperGoes
  <2>4. scrapes' \in 0..MaxScrapes BY <1>0, <1>9 DEF ScrapeEnds
  <2>5. ~(0 > readers[s]) /\ 0 \in 0..2 /\ 0 # 2 BY <2>1
  <2>6. page[s] \in PageType BY <1>0
  <2> DEFINE pc == "idle"
  <2>7. /\ pc \in Reading \cup {"idle"} /\ pc = "idle"
        /\ pc # "maps" /\ pc # "llm" /\ pc # "module"
        /\ pc \notin {"llm", "module", "sync", "hist", "cron", "jobs"}
        /\ ScraperGoes(s, pc, 0, page[s])
    BY <2>3
  <2> HIDE DEF pc
  <2> QED BY <2>4, <2>5, <2>6, <2>7, ScraperKeeps
<1> QED BY <1>3, <1>4, <1>5, <1>6, <1>7, <1>8, <1>9

LEMMA MetricsNextKeeps ==
    ASSUME MetricsConstants, MetricsInv, [MetricsNext]_metricVars PROVE MetricsInv'
<1>1. CASE UNCHANGED metricVars
  BY <1>1 DEF metricVars, MetricsInv, MetricsTyped, LockInv, ReadersInv, RolesInv, CountsInv,
     PagesInv, PageFits
<1>2. ASSUME NEW w \in Workers, NEW kind \in RecordKinds, NEW bad \in BOOLEAN,
             BeginRecord(w, kind, bad)
      PROVE  MetricsInv'
  BY <1>2, BeginRecordKeeps
<1>3. ASSUME NEW w \in Workers,
             \/ Count(w) \/ LockWaits(w) \/ LockTaken(w) \/ FileRequest(w) \/ FileCall(w)
             \/ AddSample(w) \/ ModuleWaits(w) \/ FileModule(w)
      PROVE  MetricsInv'
  BY <1>3, CountKeeps, LockKeeps, FileRequestKeeps, FileCallKeeps, AddSampleKeeps,
     FileModuleKeeps
<1>4. ASSUME NEW s \in Scrapers,
             \/ Scrape(s) \/ WriteTotals(s) \/ WriteMaps(s) \/ NestedRLock(s)
             \/ NestedRead(s) \/ WriteHistograms(s) \/ ScrapeEnds(s)
      PROVE  MetricsInv'
  BY <1>4, ScrapeKeeps
<1> QED BY <1>1, <1>2, <1>3, <1>4 DEF MetricsNext

LEMMA MetricsInvSuffices ==
    ASSUME MetricsConstants, MetricsInv PROVE MetricsTypeOK /\ MetricsSound
<1>1. MetricsTypeOK
  BY DEF MetricsInv, MetricsTyped, LockInv, MetricsTypeOK, WorkerType
<1>2. PageConsistent BY DEF MetricsInv, PagesInv, PageFits, PageConsistent
<1>3. ASSUME \A w \in Workers : worker[w].pc = "idle"
      PROVE  /\ Num(worker, {"atomics"}, "request") = 0 /\ Num(worker, Filing, "request") = 0
             /\ Num(worker, Filing, "call") = 0 /\ Num(worker, Timing, "call") = 0
             /\ Num(worker, Naming, "call") = 0 /\ Num(worker, {"hist"}, "query") = 0
  <2>1. \A places, kind : "idle" \notin places => At(worker, places, kind) = {}
    BY <1>3 DEF At
  <2>2. \A places, kind : "idle" \notin places => Num(worker, places, kind) = 0
    BY <2>1, NumType
  <2> QED BY <2>2 DEF Filing, Timing, Naming
<1>4. AllFiled
  BY <1>3 DEF AllFiled, MetricsInv, MetricsTyped, CountsInv, AtomicsType, MapsType
<1> QED BY <1>1, <1>2, <1>4 DEF MetricsSound

\* A page is one state of the counters although it is read in pieces, and what was counted
\* is filed once nobody records (collector.go), for any number of goroutines and scrapes.
THEOREM MetricsAreSound ==
    ASSUME MetricsConstants PROVE MetricsSpec => [](MetricsTypeOK /\ MetricsSound)
<1>1. MetricsInit => MetricsInv BY MetricsInitSatisfies
<1>2. MetricsInv /\ [MetricsNext]_metricVars => MetricsInv' BY MetricsNextKeeps
<1>3. MetricsInv => MetricsTypeOK /\ MetricsSound BY MetricsInvSuffices
<1> QED BY <1>1, <1>2, <1>3, PTL DEF MetricsSpec

(***************************************************************************)
(* No counter of the gateway lets more through than its limit, and a request*)
(* that goes on was let through by the counter it has passed.              *)
(***************************************************************************)
RequestType == [pc: {"idle", "quota", "rate", "audit", "log"}, shop: GateShops, at: Days]
Counters(periods) == [GateShops -> [periods -> Nat]]

GatewayTyped ==
    /\ minute \in Minutes /\ off \in BOOLEAN /\ request \in [InFlight -> RequestType]
    /\ quota \in Counters(Days) /\ spent \in Counters(Days)
    /\ bucket \in Counters(Minutes) /\ passed \in Counters(Minutes)
    /\ unanswered \in 0..MaxUnanswered /\ open \in 0..unanswered
    /\ logs \in [GateShops -> Nat] /\ arrivals \in 0..MaxArrivals

\* What a counter lets through it has counted, and it counts past its limit only what
\* it refuses.
LimitsInv == \A s \in GateShops :
    /\ \A d \in Days : spent[s][d] <= DailyLimit /\ spent[s][d] <= quota[s][d]
    /\ \A m \in Minutes : passed[s][m] <= MaxRequests /\ passed[s][m] <= bucket[s][m]

\* Requests of a shop between two places.
Held(f, places, s) == Cardinality({i \in InFlight : f[i].pc \in places /\ f[i].shop = s})
Here(r, places, s) == IF r.pc \in places /\ r.shop = s THEN 1 ELSE 0
Beyond == {"audit", "log"}

\* A request that goes on was let through by the counter it has passed, or that one
\* gave no answer.
Accounts(s) ==
    /\ logs[s] + Held(request, Beyond, s) <= Total(passed[s], MaxRequests) + open
    /\ Total(passed[s], MaxRequests) + Held(request, {"rate"}, s)
         <= Total(spent[s], DailyLimit) + open
GatewayInv == GatewayTyped /\ LimitsInv /\ \A s \in GateShops : Accounts(s)

LEMMA PeriodsFinite == ASSUME GatewayConstants PROVE IsFiniteSet(Minutes) /\ IsFiniteSet(Days)
<1>1. IsFiniteSet(Minutes) BY FS_Interval DEF GatewayConstants, Minutes
<1> DEFINE dayOf == [m \in Minutes |-> m \div MinutesPerDay]
<1>2. dayOf \in Surjection(Minutes, Days) BY DEF Days, Surjection
<1> HIDE DEF dayOf, Minutes, Days
<1>3. IsFiniteSet(Days) BY <1>1, <1>2, FS_Surjection
<1> QED BY <1>1, <1>3

LEMMA UnitsFinite ==
    ASSUME NEW D, IsFiniteSet(D), NEW count \in [D -> Nat], NEW limit \in Nat
    PROVE  IsFiniteSet(Units(count, limit)) /\ Total(count, limit) \in Nat
<1>1. IsFiniteSet(1..limit) BY FS_Interval
<1>2. IsFiniteSet(D \X (1..limit)) BY <1>1, FS_Product
<1>3. Units(count, limit) \subseteq D \X (1..limit) BY DEF Units
<1>4. IsFiniteSet(Units(count, limit)) BY <1>2, <1>3, FS_Subset
<1> QED BY <1>4, FS_CardinalityType DEF Total

\* What a counter lets through below its limit makes its total one more.
LEMMA TotalGrows ==
    ASSUME NEW D, IsFiniteSet(D), NEW count \in [D -> Nat], NEW limit \in Nat,
           NEW x \in D, count[x] < limit, NEW next,
           next = [count EXCEPT ![x] = count[x] + 1]
    PROVE  Total(next, limit) = Total(count, limit) + 1
<1> DEFINE unit == <<x, count[x] + 1>>
<1>1. next \in [D -> Nat] /\ next[x] = count[x] + 1 /\ \A y \in D \ {x} : next[y] = count[y]
  OBVIOUS
<1>2. unit \in D \X (1..limit) OBVIOUS
<1>3. unit \notin Units(count, limit) BY DEF Units
<1>4. ASSUME NEW u \in D \X (1..limit)
      PROVE  u[2] <= next[u[1]] <=> u[2] <= count[u[1]] \/ u = unit
  <2>1. u[1] \in D /\ u[2] \in 1..limit /\ u = <<u[1], u[2]>> OBVIOUS
  <2>2. CASE u[1] = x BY <2>1, <2>2, <1>1
  <2>3. CASE u[1] # x BY <2>1, <2>3, <1>1
  <2> QED BY <2>2, <2>3
<1>5. Units(next, limit) = Units(count, limit) \cup {unit}
  BY <1>1, <1>2, <1>4 DEF Units
<1> HIDE DEF unit
<1>6. IsFiniteSet(Units(count, limit)) BY UnitsFinite
<1> QED BY <1>3, <1>5, <1>6, FS_AddElement DEF Total

LEMMA HeldType == ASSUME GatewayConstants, NEW f, NEW places, NEW s
                  PROVE  Held(f, places, s) \in Nat
<1>1. IsFiniteSet({i \in InFlight : f[i].pc \in places /\ f[i].shop = s})
  BY FS_Subset DEF GatewayConstants
<1> QED BY <1>1, FS_CardinalityType DEF Held

LEMMA HeldMoves ==
    ASSUME GatewayConstants, NEW f, NEW g, NEW i \in InFlight, NEW places, NEW s,
           \A j \in InFlight \ {i} : g[j] = f[j]
    PROVE  Held(g, places, s) + Here(f[i], places, s) = Held(f, places, s) + Here(g[i], places, s)
<1> DEFINE Of(h) == {j \in InFlight : h[j].pc \in places /\ h[j].shop = s}
           Rest == Of(f) \ {i}
<1>1. IsFiniteSet(Rest) /\ i \notin Rest /\ Cardinality(Rest) \in Nat
  <2>1. IsFiniteSet(Rest) BY FS_Subset DEF GatewayConstants
  <2> QED BY <2>1, FS_CardinalityType
<1>2. Cardinality(Rest \cup {i}) = Cardinality(Rest) + 1 BY <1>1, FS_AddElement
<1>3. /\ Here(f[i], places, s) = 1 => Of(f) = Rest \cup {i}
      /\ Here(f[i], places, s) = 0 => Of(f) = Rest
      /\ Here(g[i], places, s) = 1 => Of(g) = Rest \cup {i}
      /\ Here(g[i], places, s) = 0 => Of(g) = Rest
  BY DEF Here
<1>4. Here(f[i], places, s) \in {0, 1} /\ Here(g[i], places, s) \in {0, 1} BY DEF Here
<1>5. Held(f, places, s) = Cardinality(Of(f)) /\ Held(g, places, s) = Cardinality(Of(g))
  BY DEF Held
<1> HIDE DEF Rest, Of
<1>6. Held(f, places, s) = Cardinality(Rest) + Here(f[i], places, s)
  <2>1. CASE Here(f[i], places, s) = 1 BY <2>1, <1>1, <1>2, <1>3, <1>5
  <2>2. CASE Here(f[i], places, s) = 0 BY <2>2, <1>1, <1>3, <1>5
  <2> QED BY <2>1, <2>2, <1>4
<1>7. Held(g, places, s) = Cardinality(Rest) + Here(g[i], places, s)
  <2>1. CASE Here(g[i], places, s) = 1 BY <2>1, <1>1, <1>2, <1>3, <1>5
  <2>2. CASE Here(g[i], places, s) = 0 BY <2>2, <1>1, <1>3, <1>5
  <2> QED BY <2>1, <2>2, <1>4
<1> QED BY <1>1, <1>4, <1>6, <1>7

LEMMA DaysOfMinutes ==
    ASSUME GatewayConstants, minute \in Minutes PROVE Today \in Days /\ 0 \in Days
<1>1. 0 \in Minutes /\ 0 \div MinutesPerDay = 0 BY DEF GatewayConstants, Minutes
<1> QED BY <1>1 DEF Today, Days

LEMMA GatewayInitSatisfies == ASSUME GatewayConstants, GatewayInit PROVE GatewayInv
<1>1. minute \in Minutes /\ 0 \in Minutes BY DEF GatewayConstants, GatewayInit, Minutes
<1>2. 0 \in Days BY <1>1, DaysOfMinutes
<1>3. IdleRequest \in RequestType /\ IdleRequest.pc = "idle"
  BY <1>2 DEF IdleRequest, RequestType, GatewayConstants
<1>4. GatewayTyped
  <2>1. request \in [InFlight -> RequestType] BY <1>3 DEF GatewayInit
  <2>2. /\ quota \in Counters(Days) /\ spent \in Counters(Days)
        /\ bucket \in Counters(Minutes) /\ passed \in Counters(Minutes)
    BY DEF GatewayInit, Counters
  <2>3. /\ unanswered \in 0..MaxUnanswered /\ open \in 0..unanswered
        /\ logs \in [GateShops -> Nat] /\ arrivals \in 0..MaxArrivals /\ off \in BOOLEAN
    <3>1. MaxUnanswered \in Nat /\ MaxArrivals \in Nat BY DEF GatewayConstants
    <3>2. unanswered = 0 /\ open = 0 /\ arrivals = 0 /\ off = FALSE BY DEF GatewayInit
    <3>3. logs \in [GateShops -> Nat] BY DEF GatewayInit
    <3>4. unanswered \in 0..MaxUnanswered BY <3>1, <3>2
    <3>5. arrivals \in 0..MaxArrivals BY <3>1, <3>2
    <3>6. open \in 0..unanswered BY <3>2
    <3> QED BY <3>2, <3>3, <3>4, <3>5, <3>6
  <2> QED BY <1>1, <2>1, <2>2, <2>3 DEF GatewayTyped
<1>5. LimitsInv BY DEF LimitsInv, GatewayInit, GatewayConstants
<1>6. ASSUME NEW s \in GateShops PROVE Accounts(s)
  <2>1. \A places : "idle" \notin places =>
            {i \in InFlight : request[i].pc \in places /\ request[i].shop = s} = {}
    BY <1>3 DEF GatewayInit
  <2>2. \A places : "idle" \notin places => Held(request, places, s) = 0
    BY <2>1, FS_EmptySet DEF Held
  <2>3. Held(request, Beyond, s) = 0 /\ Held(request, {"rate"}, s) = 0 BY <2>2 DEF Beyond
  <2>4. /\ passed[s] \in [Minutes -> Nat] /\ spent[s] \in [Days -> Nat]
        /\ \A m \in Minutes : passed[s][m] = 0
    BY DEF GatewayInit
  <2>5. Units(passed[s], MaxRequests) = {}
    BY <2>4 DEF Units, GatewayConstants
  <2>6. Total(passed[s], MaxRequests) = 0 BY <2>5, FS_EmptySet DEF Total
  <2>7. Total(spent[s], DailyLimit) \in Nat
    BY <2>4, PeriodsFinite, UnitsFinite DEF GatewayConstants
  <2>8. logs[s] = 0 /\ open = 0 BY DEF GatewayInit
  <2> QED BY <2>3, <2>6, <2>7, <2>8 DEF Accounts
<1> QED BY <1>4, <1>5, <1>6 DEF GatewayInv

LEMMA TotalsType ==
    ASSUME GatewayConstants, GatewayTyped, NEW s \in GateShops
    PROVE  /\ passed[s] \in [Minutes -> Nat] /\ spent[s] \in [Days -> Nat]
           /\ bucket[s] \in [Minutes -> Nat] /\ quota[s] \in [Days -> Nat]
           /\ Total(passed[s], MaxRequests) \in Nat /\ Total(spent[s], DailyLimit) \in Nat
           /\ logs[s] \in Nat /\ open \in Nat /\ unanswered \in Nat
<1>1. /\ passed[s] \in [Minutes -> Nat] /\ spent[s] \in [Days -> Nat]
      /\ bucket[s] \in [Minutes -> Nat] /\ quota[s] \in [Days -> Nat]
      /\ logs[s] \in Nat /\ open \in Nat /\ unanswered \in Nat
  BY DEF GatewayTyped, Counters
<1> QED BY <1>1, PeriodsFinite, UnitsFinite DEF GatewayConstants

\* One request goes on: to a place, or out of the chain.
LEMMA RequestGoes ==
    ASSUME GatewayConstants, request \in [InFlight -> RequestType], NEW i \in InFlight,
           NEW pc \in {"idle", "quota", "rate", "audit", "log"}, Goto(i, pc)
    PROVE  /\ request' \in [InFlight -> RequestType] /\ request'[i].pc = pc
           /\ pc # "idle" => request'[i].shop = request[i].shop
           /\ \A j \in InFlight \ {i} : request'[j] = request[j]
<1>1. 0 \in Days
  <2>1. 0 \in Minutes /\ 0 \div MinutesPerDay = 0 BY DEF GatewayConstants, Minutes
  <2> QED BY <2>1 DEF Days
<1>2. IdleRequest \in RequestType /\ IdleRequest.pc = "idle"
  BY <1>1 DEF IdleRequest, RequestType, GatewayConstants
<1>3. /\ [request[i] EXCEPT !.pc = pc] \in RequestType
      /\ [request[i] EXCEPT !.pc = pc].pc = pc
      /\ [request[i] EXCEPT !.pc = pc].shop = request[i].shop
  BY DEF RequestType
<1> HIDE DEF RequestType, IdleRequest
<1>4. CASE pc = "idle" BY <1>2, <1>4 DEF Goto
<1>5. CASE pc # "idle"
  <2>1. request' = [request EXCEPT ![i] = [request[i] EXCEPT !.pc = pc]] BY <1>5 DEF Goto
  <2> QED BY <1>3, <1>5, <2>1
<1> QED BY <1>4, <1>5

\* The accounts of a shop follow the request that goes on.
LEMMA HeldBalance ==
    ASSUME GatewayConstants, NEW i \in InFlight, NEW s \in GateShops,
           \A j \in InFlight \ {i} : request'[j] = request[j]
    PROVE  /\ Held(request', Beyond, s) + Here(request[i], Beyond, s)
                = Held(request, Beyond, s) + Here(request'[i], Beyond, s)
           /\ Held(request', {"rate"}, s) + Here(request[i], {"rate"}, s)
                = Held(request, {"rate"}, s) + Here(request'[i], {"rate"}, s)
           /\ {Held(request, Beyond, s), Held(request', Beyond, s),
               Held(request, {"rate"}, s), Held(request', {"rate"}, s)} \subseteq Nat
<1>1. \A places : Held(request', places, s) + Here(request[i], places, s)
                    = Held(request, places, s) + Here(request'[i], places, s)
  BY ONLY GatewayConstants, i \in InFlight, HeldMoves,
     \A j \in InFlight \ {i} : request'[j] = request[j]
<1> QED BY <1>1, HeldType

\* A counter counts one more request of a shop in a period.
CountsOne(c, next, s, x) == next = [c EXCEPT ![s][x] = @ + 1]
LEMMA OneMore ==
    ASSUME NEW periods, NEW c \in Counters(periods), NEW s \in GateShops, NEW x \in periods,
           NEW next, CountsOne(c, next, s, x)
    PROVE  /\ next \in Counters(periods) /\ next[s] = [c[s] EXCEPT ![x] = c[s][x] + 1]
           /\ next[s][x] = c[s][x] + 1
           /\ \A t \in GateShops, y \in periods : t # s \/ y # x => next[t][y] = c[t][y]
           /\ \A t \in GateShops \ {s} : next[t] = c[t]
<1>1. c[s] \in [periods -> Nat] /\ c[s][x] \in Nat BY DEF Counters
<1>2. next = [c EXCEPT ![s] = [c[s] EXCEPT ![x] = c[s][x] + 1]] BY DEF CountsOne
<1>3. [c[s] EXCEPT ![x] = c[s][x] + 1] \in [periods -> Nat] BY <1>1
<1>4. /\ next \in Counters(periods) /\ next[s] = [c[s] EXCEPT ![x] = c[s][x] + 1]
      /\ \A t \in GateShops \ {s} : next[t] = c[t]
  BY <1>2, <1>3 DEF Counters
<1> QED BY <1>1, <1>4

\* Steps without a request that goes on between the counters.
LEMMA QuietKeeps ==
    ASSUME GatewayConstants, GatewayInv,
           \/ MinutePasses \/ SetFlag
           \/ \E i \in InFlight, s \in GateShops : Arrive(i, s)
    PROVE  GatewayInv'
<1>0. GatewayTyped /\ LimitsInv /\ \A s \in GateShops : Accounts(s) BY DEF GatewayInv
<1>1. CASE MinutePasses
  <2>1. /\ minute' = minute + 1 /\ minute < MaxMinute
        /\ UNCHANGED <<off, request, counterVars, auditVars, unanswered>>
    BY <1>1 DEF MinutePasses
  <2>2. GatewayTyped'
    BY <1>0, <2>1 DEF GatewayTyped, Minutes, GatewayConstants, counterVars, auditVars
  <2>3. LimitsInv' /\ \A s \in GateShops : Accounts(s)'
    BY <1>0, <2>1 DEF LimitsInv, Accounts, counterVars, auditVars
  <2> QED BY <2>2, <2>3 DEF GatewayInv
<1>2. CASE SetFlag
  <2>1. off' \in BOOLEAN /\ UNCHANGED <<minute, request, counterVars, auditVars, unanswered>>
    BY <1>2 DEF SetFlag
  <2>2. GatewayTyped' BY <1>0, <2>1 DEF GatewayTyped, counterVars, auditVars
  <2>3. LimitsInv' /\ \A s \in GateShops : Accounts(s)'
    BY <1>0, <2>1 DEF LimitsInv, Accounts, counterVars, auditVars
  <2> QED BY <2>2, <2>3 DEF GatewayInv
<1>3. ASSUME NEW i \in InFlight, NEW s \in GateShops, Arrive(i, s) PROVE GatewayInv'
  <2> DEFINE r == [pc |-> "quota", shop |-> s, at |-> Today]
  <2>1. /\ request[i].pc = "idle" /\ arrivals < MaxArrivals /\ arrivals' = arrivals + 1
        /\ request' = [request EXCEPT ![i] = r]
        /\ UNCHANGED <<minute, off, quota, bucket, spent, passed, logs>>
        /\ NoAnswer \/ UNCHANGED <<open, unanswered>>
    BY <1>3 DEF Arrive
  <2>2. r \in RequestType /\ r.pc = "quota"
    BY <1>0, DaysOfMinutes DEF RequestType, GatewayTyped
  <2> HIDE DEF r
  <2>3. /\ request' \in [InFlight -> RequestType] /\ request'[i].pc = "quota"
        /\ \A j \in InFlight \ {i} : request'[j] = request[j]
    BY <1>0, <2>1, <2>2 DEF GatewayTyped
  <2>4. /\ unanswered' \in 0..MaxUnanswered /\ open' \in 0..unanswered' /\ open' >= open
    BY <1>0, <2>1 DEF GatewayTyped, GatewayConstants, NoAnswer
  <2>5. arrivals' \in 0..MaxArrivals BY <1>0, <2>1 DEF GatewayTyped, GatewayConstants
  <2>6. GatewayTyped' BY <1>0, <2>1, <2>3, <2>4, <2>5 DEF GatewayTyped
  <2>7. LimitsInv' BY <1>0, <2>1 DEF LimitsInv
  <2>8. ASSUME NEW t \in GateShops PROVE Accounts(t)'
    <3>1. /\ Here(request[i], Beyond, t) = 0 /\ Here(request'[i], Beyond, t) = 0
          /\ Here(request[i], {"rate"}, t) = 0 /\ Here(request'[i], {"rate"}, t) = 0
      BY <2>1, <2>3 DEF Here, Beyond
    <3>2. /\ Held(request', Beyond, t) = Held(request, Beyond, t)
          /\ Held(request', {"rate"}, t) = Held(request, {"rate"}, t)
      BY <2>3, <3>1, HeldBalance
    <3>3. open' \in Nat /\ open' >= open BY <2>4
    <3> QED BY <1>0, <2>1, <3>2, <3>3, TotalsType, HeldType DEF Accounts
  <2> QED BY <2>6, <2>7, <2>8 DEF GatewayInv
<1> QED BY <1>1, <1>2, <1>3

LEMMA NoAnswerType ==
    ASSUME GatewayConstants, GatewayTyped, NoAnswer
    PROVE  /\ unanswered' \in 0..MaxUnanswered /\ open' \in 0..unanswered'
           /\ open' = open + 1
BY DEF GatewayConstants, GatewayTyped, NoAnswer

\* A request goes on to the rate limit, counted or for want of an answer, or is refused.
LEMMA CheckQuotaKeeps ==
    ASSUME GatewayConstants, GatewayInv, NEW i \in InFlight, CheckQuota(i)
    PROVE  GatewayInv'
<1> DEFINE s == request[i].shop   d == request[i].at
<1>0. /\ GatewayTyped /\ LimitsInv /\ (\A t \in GateShops : Accounts(t))
      /\ request \in [InFlight -> RequestType] /\ request[i].pc = "quota"
      /\ s \in GateShops /\ d \in Days /\ quota \in Counters(Days) /\ spent \in Counters(Days)
      /\ UNCHANGED <<minute, off, bucket, passed, logs, arrivals>>
  BY DEF GatewayInv, GatewayTyped, RequestType, CheckQuota, auditVars
<1>1. /\ \/ /\ quota' = [quota EXCEPT ![s][d] = @ + 1] /\ UNCHANGED <<open, unanswered>>
            /\ IF quota[s][d] < DailyLimit
               THEN Goto(i, "rate") /\ spent' = [spent EXCEPT ![s][d] = @ + 1]
               ELSE Goto(i, "idle") /\ UNCHANGED spent
         \/ NoAnswer /\ Goto(i, "rate") /\ UNCHANGED <<quota, spent>>
  BY DEF CheckQuota
<1>2. \A t \in GateShops : Here(request[i], Beyond, t) = 0 /\ Here(request[i], {"rate"}, t) = 0
  BY <1>0 DEF Here, Beyond
<1>3. ASSUME Goto(i, "rate")
      PROVE  /\ request' \in [InFlight -> RequestType]
             /\ \A t \in GateShops :
                  /\ Held(request', Beyond, t) = Held(request, Beyond, t)
                  /\ Held(request', {"rate"}, t)
                       = Held(request, {"rate"}, t) + IF t = s THEN 1 ELSE 0
  <2>1. /\ request' \in [InFlight -> RequestType] /\ request'[i].pc = "rate"
        /\ request'[i].shop = s /\ \A j \in InFlight \ {i} : request'[j] = request[j]
    BY <1>0, <1>3, RequestGoes
  <2> HIDE DEF s
  <2>2. ASSUME NEW t \in GateShops
        PROVE  /\ Here(request'[i], Beyond, t) = 0
               /\ Here(request'[i], {"rate"}, t) = IF t = s THEN 1 ELSE 0
    BY <2>1 DEF Here, Beyond
  <2> QED BY <2>1, <2>2, <1>2, HeldBalance
<1>4. ASSUME Goto(i, "idle")
      PROVE  /\ request' \in [InFlight -> RequestType]
             /\ \A t \in GateShops :
                  /\ Held(request', Beyond, t) = Held(request, Beyond, t)
                  /\ Held(request', {"rate"}, t) = Held(request, {"rate"}, t)
  <2>1. /\ request' \in [InFlight -> RequestType] /\ request'[i].pc = "idle"
        /\ \A j \in InFlight \ {i} : request'[j] = request[j]
    BY <1>0, <1>4, RequestGoes
  <2>2. ASSUME NEW t \in GateShops
        PROVE  Here(request'[i], Beyond, t) = 0 /\ Here(request'[i], {"rate"}, t) = 0
    BY <2>1 DEF Here, Beyond
  <2> QED BY <2>1, <2>2, <1>2, HeldBalance
<1> HIDE DEF s, d
<1>5. CASE NoAnswer /\ Goto(i, "rate") /\ UNCHANGED <<quota, spent>>
  <2>1. GatewayTyped' BY <1>0, <1>3, <1>5, NoAnswerType DEF GatewayTyped
  <2>2. LimitsInv' BY <1>0, <1>5 DEF LimitsInv
  <2>3. ASSUME NEW t \in GateShops PROVE Accounts(t)'
    BY <1>0, <1>3, <1>5, NoAnswerType, TotalsType, HeldType DEF Accounts
  <2> QED BY <2>1, <2>2, <2>3 DEF GatewayInv
<1>6. ASSUME quota' = [quota EXCEPT ![s][d] = @ + 1]
      PROVE  /\ quota' \in Counters(Days) /\ quota'[s][d] = quota[s][d] + 1
             /\ quota[s][d] \in Nat
             /\ \A t \in GateShops, e \in Days : t # s \/ e # d => quota'[t][e] = quota[t][e]
  <2>1. quota[s][d] \in Nat BY <1>0 DEF Counters
  <2>2. CountsOne(quota, quota', s, d) BY <1>6 DEF CountsOne
  <2>3. quota \in Counters(Days) /\ s \in GateShops /\ d \in Days BY <1>0
  <2>4. /\ quota' \in Counters(Days) /\ quota'[s] = [quota[s] EXCEPT ![d] = quota[s][d] + 1]
        /\ quota'[s][d] = quota[s][d] + 1
        /\ \A t \in GateShops, y \in Days : t # s \/ y # d => quota'[t][y] = quota[t][y]
        /\ \A t \in GateShops \ {s} : quota'[t] = quota[t]
    BY ONLY <2>2, <2>3, OneMore
  <2> QED BY <2>1, <2>4
<1>7. CASE /\ quota' = [quota EXCEPT ![s][d] = @ + 1] /\ UNCHANGED <<open, unanswered, spent>>
           /\ Goto(i, "idle")
  <2>1. GatewayTyped' BY <1>0, <1>4, <1>6, <1>7 DEF GatewayTyped
  <2>2. ASSUME NEW t \in GateShops, NEW e \in Days PROVE quota'[t][e] >= quota[t][e] /\ quota[t][e] \in Nat
    <3>1. quota[t][e] \in Nat BY <1>0 DEF Counters
    <3> QED BY <3>1, <1>6, <1>7
  <2>3. \A t \in GateShops, e \in Days : spent[t][e] \in Nat BY <1>0 DEF Counters
  <2>4. LimitsInv'
    <3>1. ASSUME NEW t \in GateShops, NEW e \in Days
          PROVE  spent[t][e] <= DailyLimit /\ spent[t][e] <= quota'[t][e]
      <4>1. spent[t][e] <= DailyLimit /\ spent[t][e] <= quota[t][e] BY <1>0 DEF LimitsInv
      <4>2. quota'[t][e] \in Nat BY <1>6, <1>7 DEF Counters
      <4> QED BY <4>1, <4>2, <2>2, <2>3
    <3> QED BY <3>1, <1>0, <1>7 DEF LimitsInv
  <2>5. ASSUME NEW t \in GateShops PROVE Accounts(t)'
    BY <1>0, <1>4, <1>7 DEF Accounts
  <2> QED BY <2>1, <2>4, <2>5 DEF GatewayInv
<1>8. CASE /\ quota' = [quota EXCEPT ![s][d] = @ + 1] /\ UNCHANGED <<open, unanswered>>
           /\ Goto(i, "rate") /\ spent' = [spent EXCEPT ![s][d] = @ + 1]
           /\ quota[s][d] < DailyLimit
  <2>1. /\ spent' \in Counters(Days) /\ spent'[s] = [spent[s] EXCEPT ![d] = spent[s][d] + 1]
        /\ spent'[s][d] = spent[s][d] + 1
        /\ \A t \in GateShops, e \in Days : t # s \/ e # d => spent'[t][e] = spent[t][e]
        /\ \A t \in GateShops \ {s} : spent'[t] = spent[t]
    <3>1. CountsOne(spent, spent', s, d) BY <1>8 DEF CountsOne
    <3> QED BY <3>1, <1>0, OneMore
  <2>2. GatewayTyped' BY <1>0, <1>3, <1>6, <1>8, <2>1 DEF GatewayTyped
  <2>3. spent[s][d] <= quota[s][d] /\ spent[s][d] \in Nat /\ DailyLimit \in Nat
        /\ spent[s][d] < DailyLimit
    <3>1. spent[s][d] <= quota[s][d] BY <1>0 DEF LimitsInv
    <3>2. spent[s][d] \in Nat /\ DailyLimit \in Nat BY <1>0 DEF Counters, GatewayConstants
    <3> QED BY <3>1, <3>2, <1>6, <1>8
  <2>4. LimitsInv'
    <3>1. ASSUME NEW t \in GateShops, NEW e \in Days
          PROVE  spent'[t][e] <= DailyLimit /\ spent'[t][e] <= quota'[t][e]
      <4>1. CASE t = s /\ e = d BY <4>1, <2>1, <2>3, <1>6, <1>8
      <4>2. CASE t # s \/ e # d
        <5>1. spent'[t][e] = spent[t][e] /\ quota'[t][e] = quota[t][e] BY <4>2, <2>1, <1>6, <1>8
        <5> QED BY <5>1, <1>0 DEF LimitsInv
      <4> QED BY <4>1, <4>2
    <3> QED BY <3>1, <1>0, <1>8 DEF LimitsInv
  <2>5. Total(spent'[s], DailyLimit) = Total(spent[s], DailyLimit) + 1
    <3>1. spent[s] \in [Days -> Nat] BY <1>0 DEF Counters
    <3> QED BY <3>1, <2>1, <2>3, <1>0, PeriodsFinite, TotalGrows
  <2>6. ASSUME NEW t \in GateShops PROVE Accounts(t)'
    <3>1. CASE t = s
      BY <3>1, <2>5, <1>0, <1>3, <1>8, TotalsType, HeldType DEF Accounts
    <3>2. CASE t # s BY <3>2, <2>1, <1>0, <1>3, <1>8, TotalsType, HeldType DEF Accounts
    <3> QED BY <3>1, <3>2
  <2> QED BY <2>2, <2>4, <2>6 DEF GatewayInv
<1> QED BY <1>1, <1>5, <1>7, <1>8

\* A request goes on to be answered, counted or for want of an answer, or is refused.
LEMMA RateLimitKeeps ==
    ASSUME GatewayConstants, GatewayInv, NEW i \in InFlight, RateLimit(i)
    PROVE  GatewayInv'
<1> DEFINE s == request[i].shop
<1>0. /\ GatewayTyped /\ LimitsInv /\ (\A t \in GateShops : Accounts(t))
      /\ request \in [InFlight -> RequestType] /\ request[i].pc = "rate" /\ s \in GateShops
      /\ minute \in Minutes /\ bucket \in Counters(Minutes) /\ passed \in Counters(Minutes)
      /\ UNCHANGED <<minute, off, quota, spent, logs, arrivals>>
  BY DEF GatewayInv, GatewayTyped, RequestType, RateLimit, auditVars
<1>1. /\ \/ /\ bucket' = [bucket EXCEPT ![s][minute] = @ + 1] /\ UNCHANGED <<open, unanswered>>
            /\ IF bucket[s][minute] < MaxRequests
               THEN Goto(i, "audit") /\ passed' = [passed EXCEPT ![s][minute] = @ + 1]
               ELSE Goto(i, "idle") /\ UNCHANGED passed
         \/ NoAnswer /\ Goto(i, "audit") /\ UNCHANGED <<bucket, passed>>
  BY DEF RateLimit
<1>2. \A t \in GateShops : /\ Here(request[i], Beyond, t) = 0
                           /\ Here(request[i], {"rate"}, t) = IF t = s THEN 1 ELSE 0
  BY <1>0 DEF Here, Beyond
<1>3. ASSUME Goto(i, "audit")
      PROVE  /\ request' \in [InFlight -> RequestType]
             /\ \A t \in GateShops :
                  /\ Held(request', Beyond, t)
                       = Held(request, Beyond, t) + IF t = s THEN 1 ELSE 0
                  /\ Held(request', {"rate"}, t) <= Held(request, {"rate"}, t)
                  /\ t = s => Held(request', {"rate"}, t) + 1 = Held(request, {"rate"}, t)
  <2>1. /\ request' \in [InFlight -> RequestType] /\ request'[i].pc = "audit"
        /\ request'[i].shop = s /\ \A j \in InFlight \ {i} : request'[j] = request[j]
    BY <1>0, <1>3, RequestGoes
  <2> HIDE DEF s
  <2>2. ASSUME NEW t \in GateShops
        PROVE  /\ Here(request'[i], Beyond, t) = IF t = s THEN 1 ELSE 0
               /\ Here(request'[i], {"rate"}, t) = 0
    BY <2>1 DEF Here, Beyond
  <2> QED BY <2>1, <2>2, <1>2, HeldBalance
<1>4. ASSUME Goto(i, "idle")
      PROVE  /\ request' \in [InFlight -> RequestType]
             /\ \A t \in GateShops :
                  /\ Held(request', Beyond, t) = Held(request, Beyond, t)
                  /\ Held(request', {"rate"}, t) <= Held(request, {"rate"}, t)
  <2>1. /\ request' \in [InFlight -> RequestType] /\ request'[i].pc = "idle"
        /\ \A j \in InFlight \ {i} : request'[j] = request[j]
    BY <1>0, <1>4, RequestGoes
  <2>2. ASSUME NEW t \in GateShops
        PROVE  Here(request'[i], Beyond, t) = 0 /\ Here(request'[i], {"rate"}, t) = 0
    BY <2>1 DEF Here, Beyond
  <2> HIDE DEF s
  <2> QED BY <2>1, <2>2, <1>2, HeldBalance
<1> HIDE DEF s
<1>5. CASE NoAnswer /\ Goto(i, "audit") /\ UNCHANGED <<bucket, passed>>
  <2>1. GatewayTyped' BY <1>0, <1>3, <1>5, NoAnswerType DEF GatewayTyped
  <2>2. LimitsInv' BY <1>0, <1>5 DEF LimitsInv
  <2>3. ASSUME NEW t \in GateShops PROVE Accounts(t)'
    <3>1. CASE t = s
      BY <3>1, <1>0, <1>3, <1>5, NoAnswerType, TotalsType, HeldType DEF Accounts
    <3>2. CASE t # s
      BY <3>2, <1>0, <1>3, <1>5, NoAnswerType, TotalsType, HeldType DEF Accounts
    <3> QED BY <3>1, <3>2
  <2> QED BY <2>1, <2>2, <2>3 DEF GatewayInv
<1>6. ASSUME bucket' = [bucket EXCEPT ![s][minute] = @ + 1]
      PROVE  /\ bucket' \in Counters(Minutes) /\ bucket'[s][minute] = bucket[s][minute] + 1
             /\ bucket[s][minute] \in Nat
             /\ \A t \in GateShops, e \in Minutes :
                    t # s \/ e # minute => bucket'[t][e] = bucket[t][e]
  <2>1. bucket[s][minute] \in Nat BY <1>0 DEF Counters
  <2>2. CountsOne(bucket, bucket', s, minute) BY <1>6 DEF CountsOne
  <2>3. bucket \in Counters(Minutes) /\ s \in GateShops /\ minute \in Minutes BY <1>0
  <2>4. /\ bucket' \in Counters(Minutes) /\ bucket'[s] = [bucket[s] EXCEPT ![minute] = bucket[s][minute] + 1]
        /\ bucket'[s][minute] = bucket[s][minute] + 1
        /\ \A t \in GateShops, y \in Minutes : t # s \/ y # minute => bucket'[t][y] = bucket[t][y]
        /\ \A t \in GateShops \ {s} : bucket'[t] = bucket[t]
    BY ONLY <2>2, <2>3, OneMore
  <2> QED BY <2>1, <2>4
<1>7. CASE /\ bucket' = [bucket EXCEPT ![s][minute] = @ + 1] /\ UNCHANGED <<open, unanswered, passed>>
           /\ Goto(i, "idle")
  <2>1. GatewayTyped' BY <1>0, <1>4, <1>6, <1>7 DEF GatewayTyped
  <2>2. LimitsInv'
    <3>1. ASSUME NEW t \in GateShops, NEW e \in Minutes
          PROVE  passed[t][e] <= MaxRequests /\ passed[t][e] <= bucket'[t][e]
      <4>1. passed[t][e] <= MaxRequests /\ passed[t][e] <= bucket[t][e] BY <1>0 DEF LimitsInv
      <4>2. bucket[t][e] \in Nat /\ passed[t][e] \in Nat BY <1>0 DEF Counters
      <4>3. bucket'[t][e] >= bucket[t][e] /\ bucket'[t][e] \in Nat BY <4>2, <1>6, <1>7
      <4> QED BY <4>1, <4>2, <4>3
    <3> QED BY <3>1, <1>0, <1>7 DEF LimitsInv
  <2>3. ASSUME NEW t \in GateShops PROVE Accounts(t)'
    BY <1>0, <1>4, <1>7, TotalsType, HeldType DEF Accounts
  <2> QED BY <2>1, <2>2, <2>3 DEF GatewayInv
<1>8. CASE /\ bucket' = [bucket EXCEPT ![s][minute] = @ + 1] /\ UNCHANGED <<open, unanswered>>
           /\ Goto(i, "audit") /\ passed' = [passed EXCEPT ![s][minute] = @ + 1]
           /\ bucket[s][minute] < MaxRequests
  <2>1. /\ passed' \in Counters(Minutes)
        /\ passed'[s] = [passed[s] EXCEPT ![minute] = passed[s][minute] + 1]
        /\ passed'[s][minute] = passed[s][minute] + 1
        /\ \A t \in GateShops, e \in Minutes :
               t # s \/ e # minute => passed'[t][e] = passed[t][e]
        /\ \A t \in GateShops \ {s} : passed'[t] = passed[t]
    <3>1. CountsOne(passed, passed', s, minute) BY <1>8 DEF CountsOne
    <3>2. passed \in Counters(Minutes) /\ s \in GateShops /\ minute \in Minutes BY <1>0
    <3> QED BY ONLY <3>1, <3>2, OneMore
  <2>2. GatewayTyped' BY <1>0, <1>3, <1>6, <1>8, <2>1 DEF GatewayTyped
  <2>3. passed[s][minute] <= bucket[s][minute] /\ passed[s][minute] \in Nat /\ MaxRequests \in Nat
        /\ passed[s][minute] < MaxRequests
    <3>1. passed[s][minute] <= bucket[s][minute] BY <1>0 DEF LimitsInv
    <3>2. passed[s][minute] \in Nat /\ MaxRequests \in Nat BY <1>0 DEF Counters, GatewayConstants
    <3> QED BY <3>1, <3>2, <1>6, <1>8
  <2>4. LimitsInv'
    <3>1. ASSUME NEW t \in GateShops, NEW e \in Minutes
          PROVE  passed'[t][e] <= MaxRequests /\ passed'[t][e] <= bucket'[t][e]
      <4>1. CASE t = s /\ e = minute BY <4>1, <2>1, <2>3, <1>6, <1>8
      <4>2. CASE t # s \/ e # minute
        <5>1. passed'[t][e] = passed[t][e] /\ bucket'[t][e] = bucket[t][e] BY <4>2, <2>1, <1>6, <1>8
        <5> QED BY <5>1, <1>0 DEF LimitsInv
      <4> QED BY <4>1, <4>2
    <3> QED BY <3>1, <1>0, <1>8 DEF LimitsInv
  <2>5. Total(passed'[s], MaxRequests) = Total(passed[s], MaxRequests) + 1
    <3>1. passed[s] \in [Minutes -> Nat] BY <1>0 DEF Counters
    <3> QED BY <3>1, <2>1, <2>3, <1>0, PeriodsFinite, TotalGrows
  <2>6. ASSUME NEW t \in GateShops PROVE Accounts(t)'
    <3>1. CASE t = s
      BY <3>1, <2>5, <1>0, <1>3, <1>8, TotalsType, HeldType DEF Accounts
    <3>2. CASE t # s BY <3>2, <2>1, <1>0, <1>3, <1>8, TotalsType, HeldType DEF Accounts
    <3> QED BY <3>1, <3>2
  <2> QED BY <2>2, <2>4, <2>6 DEF GatewayInv
<1> QED BY <1>1, <1>5, <1>7, <1>8

\* A request that was let through is answered, then logged at most once.
LEMMA AnswerKeeps ==
    ASSUME GatewayConstants, GatewayInv, NEW i \in InFlight,
           AnswerRequest(i) \/ WriteAuditLog(i)
    PROVE  GatewayInv'
<1> DEFINE s == request[i].shop
<1>0. /\ GatewayTyped /\ LimitsInv /\ (\A t \in GateShops : Accounts(t))
      /\ request \in [InFlight -> RequestType] /\ request[i].pc \in Beyond /\ s \in GateShops
      /\ UNCHANGED <<minute, off, quota, bucket, spent, passed, open, arrivals, unanswered>>
      /\ logs \in [GateShops -> Nat]
  BY DEF GatewayInv, GatewayTyped, RequestType, AnswerRequest, WriteAuditLog, auditVars,
     counterVars, Beyond
<1>1. PICK pc \in {"log", "idle"} :
        /\ Goto(i, pc) /\ (pc = "log" => logs' = logs)
        /\ logs' \in {logs, [logs EXCEPT ![s] = @ + 1]}
  BY DEF AnswerRequest, WriteAuditLog, auditVars
<1>2. /\ request' \in [InFlight -> RequestType] /\ request'[i].pc = pc
      /\ pc # "idle" => request'[i].shop = s
      /\ \A j \in InFlight \ {i} : request'[j] = request[j]
  BY <1>0, <1>1, RequestGoes
<1> HIDE DEF s
<1>3. /\ logs' \in [GateShops -> Nat] /\ \A t \in GateShops \ {s} : logs'[t] = logs[t]
      /\ logs'[s] \in {logs[s], logs[s] + 1} /\ (pc = "log" => logs'[s] = logs[s])
  BY <1>0, <1>1
<1>4. GatewayTyped' BY <1>0, <1>2, <1>3 DEF GatewayTyped
<1>5. LimitsInv' BY <1>0 DEF LimitsInv
<1>6. ASSUME NEW t \in GateShops PROVE Accounts(t)'
  <2>1. /\ Here(request[i], {"rate"}, t) = 0 /\ Here(request'[i], {"rate"}, t) = 0
        /\ Here(request[i], Beyond, t) = IF t = s THEN 1 ELSE 0
        /\ Here(request'[i], Beyond, t) = IF t = s /\ pc = "log" THEN 1 ELSE 0
    <3>1. request[i].shop = s BY DEF s
    <3> QED BY <3>1, <1>0, <1>1, <1>2 DEF Here, Beyond
  <2>2. /\ Held(request', {"rate"}, t) = Held(request, {"rate"}, t)
        /\ Held(request', Beyond, t) + (IF t = s THEN 1 ELSE 0)
             = Held(request, Beyond, t) + IF t = s /\ pc = "log" THEN 1 ELSE 0
    BY <2>1, <1>2, HeldBalance
  <2>3. /\ logs[t] \in Nat /\ logs'[t] \in Nat
        /\ logs'[t] + Held(request', Beyond, t) <= logs[t] + Held(request, Beyond, t)
    <3>1. logs[t] \in Nat /\ logs'[t] \in Nat BY <1>0, <1>3
    <3>2. CASE t = s BY <3>1, <3>2, <2>2, <1>1, <1>3, HeldType
    <3>3. CASE t # s BY <3>1, <3>3, <2>2, <1>3, HeldType
    <3> QED BY <3>1, <3>2, <3>3
  <2> QED BY <2>2, <2>3, <1>0, TotalsType, HeldType DEF Accounts
<1> QED BY <1>4, <1>5, <1>6 DEF GatewayInv

LEMMA GatewayNextKeeps ==
    ASSUME GatewayConstants, GatewayInv, [GatewayNext]_gatewayVars PROVE GatewayInv'
<1>1. CASE UNCHANGED gatewayVars
  BY <1>1 DEF gatewayVars, GatewayInv, GatewayTyped, LimitsInv, Accounts
<1>2. CASE GatewayNext
  BY <1>2, QuietKeeps, CheckQuotaKeeps, RateLimitKeeps, AnswerKeeps DEF GatewayNext
<1> QED BY <1>1, <1>2

\* Requests in flight together never pass a counter more often than its limit, and what is
\* answered and logged was let through by both, but for the answers Redis did not give
\* (ratelimit.go, gateway.go), for any number of requests, shops, minutes and limits.
THEOREM GatewayIsSound ==
    ASSUME GatewayConstants PROVE GatewaySpec => [](GatewayTypeOK /\ GatewaySound)
<1>1. GatewayInit => GatewayInv BY GatewayInitSatisfies
<1>2. GatewayInv /\ [GatewayNext]_gatewayVars => GatewayInv' BY GatewayNextKeeps
<1>3. GatewayInv => GatewayTypeOK /\ GatewaySound
  <2> SUFFICES ASSUME GatewayInv PROVE GatewayTypeOK /\ GatewaySound OBVIOUS
  <2>1. GatewayTypeOK BY DEF GatewayInv, GatewayTyped, GatewayTypeOK, RequestType
  <2>2. ASSUME NEW s \in GateShops
        PROVE  /\ logs[s] <= Total(passed[s], MaxRequests) + open
               /\ Total(passed[s], MaxRequests) <= Total(spent[s], DailyLimit) + open
    BY TotalsType, HeldType DEF GatewayInv, Accounts
  <2>3. LimitsInv BY DEF GatewayInv
  <2> QED BY <2>1, <2>2, <2>3 DEF LimitsInv, GatewaySound
<1> QED BY <1>1, <1>2, <1>3, PTL DEF GatewaySpec
=============================================================================
