------------------------------ MODULE Gateway ------------------------------
(***************************************************************************)
(* The chain every /api request passes (middleware/): the gateway with its *)
(* feature flags and daily quota, the rate limiter with its minutes, the   *)
(* audit log, the checks behind it, and the handler. Counters are in Redis *)
(* and shared by all servers; without an answer of Redis a request passes. *)
(*                                                                         *)
(* A day has MinutesPerDay minutes here; the limits are those of one       *)
(* feature and one prefix.                                                 *)
(***************************************************************************)
EXTENDS Naturals, FiniteSets

CONSTANTS InFlight,       \* requests in flight
          GateShops, DailyLimit, MaxRequests,
          MaxMinute, MinutesPerDay, MaxArrivals,
          MaxUnanswered   \* bounds; the last, errors of Redis

VARIABLES
    minute,   \* the clock
    off,      \* the feature is disabled
    request,  \* request[i]: [pc, shop, day, minute, status]
    quota,    \* quota[s][d]: counter of the day
    bucket,   \* bucket[s][m]: counter of the minute
    spent,    \* spent[s][d], passed[s][m]: requests that got past each counter
    passed,
    open,     \* requests a counter let pass for want of an answer
    logs,     \* logs[s]: rows of audit_logs
    arrivals, unanswered

GatewayConstants ==
    /\ IsFiniteSet(InFlight) /\ GateShops # {} /\ {DailyLimit, MaxRequests} \subseteq Nat
    /\ {MaxMinute, MaxArrivals, MaxUnanswered} \subseteq Nat /\ MinutesPerDay \in Nat \ {0}

gatewayVars == <<minute, off, request, quota, bucket, spent, passed, open, logs,
                 arrivals, unanswered>>

Minutes == 0..MaxMinute
Days == {m \div MinutesPerDay : m \in Minutes}
Today == minute \div MinutesPerDay
IdleRequest == [pc |-> "idle", shop |-> CHOOSE s \in GateShops : TRUE, at |-> 0]

GatewayInit ==
    /\ minute = 0 /\ off = FALSE /\ request = [i \in InFlight |-> IdleRequest]
    /\ quota = [s \in GateShops |-> [d \in Days |-> 0]] /\ spent = quota
    /\ bucket = [s \in GateShops |-> [m \in Minutes |-> 0]] /\ passed = bucket
    /\ open = 0 /\ logs = [s \in GateShops |-> 0] /\ arrivals = 0 /\ unanswered = 0

counterVars == <<quota, bucket, spent, passed, open>>
auditVars == <<logs, arrivals>>
MinutePasses ==
    /\ minute < MaxMinute /\ minute' = minute + 1
    /\ UNCHANGED <<off, request, counterVars, auditVars, unanswered>>
SetFlag == /\ off' = ~off
           /\ UNCHANGED <<minute, request, counterVars, auditVars, unanswered>>
NoAnswer == unanswered < MaxUnanswered /\ unanswered' = unanswered + 1 /\ open' = open + 1
Goto(i, pc) == request' = [request EXCEPT ![i] = IF pc = "idle" THEN IdleRequest
                                                 ELSE [request[i] EXCEPT !.pc = pc]]

\* Without its key, with a disabled feature or with two different shops a request
\* is answered before anything is counted.
Arrive(i, s) ==
    /\ request[i].pc = "idle" /\ arrivals < MaxArrivals /\ arrivals' = arrivals + 1
    /\ request' = [request EXCEPT ![i] = [pc |-> "quota", shop |-> s, at |-> Today]]
    /\ ~off \/ unanswered < MaxUnanswered
    /\ IF off THEN NoAnswer ELSE UNCHANGED <<open, unanswered>>
    /\ UNCHANGED <<minute, off, quota, bucket, spent, passed, logs>>
\* CheckQuota: one script counts and compares, so a refused request counts too.
CheckQuota(i) ==
    LET s == request[i].shop   d == request[i].at IN
    /\ request[i].pc = "quota"
    /\ \/ /\ quota' = [quota EXCEPT ![s][d] = @ + 1] /\ UNCHANGED <<open, unanswered>>
          /\ IF quota[s][d] < DailyLimit
             THEN Goto(i, "rate") /\ spent' = [spent EXCEPT ![s][d] = @ + 1]
             ELSE Goto(i, "idle") /\ UNCHANGED spent
       \/ NoAnswer /\ Goto(i, "rate") /\ UNCHANGED <<quota, spent>>
    /\ UNCHANGED <<minute, off, bucket, passed, auditVars>>
\* Seeded bug: the counter is read here and written back when the request is let
\* through.
RateLimitTwoSteps(i) ==
    LET s == request[i].shop IN
    /\ \/ /\ request[i].pc = "rate" /\ bucket[s][minute] < MaxRequests
          /\ request' = [request EXCEPT ![i].pc = "write", ![i].at = minute]
          /\ UNCHANGED <<bucket, passed>>
       \/ /\ request[i].pc = "write" /\ Goto(i, "audit")
          /\ bucket' = [bucket EXCEPT ![s][request[i].at] = @ + 1]
          /\ passed' = [passed EXCEPT ![s][request[i].at] = @ + 1]
    /\ UNCHANGED <<minute, off, quota, spent, auditVars, open, unanswered>>
\* INCR of the shop's minute, then the comparison; the key expires long after.
RateLimit(i) ==
    LET s == request[i].shop IN
    /\ request[i].pc = "rate"
    /\ \/ /\ bucket' = [bucket EXCEPT ![s][minute] = @ + 1] /\ UNCHANGED <<open, unanswered>>
          /\ IF bucket[s][minute] < MaxRequests
             THEN Goto(i, "audit") /\ passed' = [passed EXCEPT ![s][minute] = @ + 1]
             ELSE Goto(i, "idle") /\ UNCHANGED passed
       \/ NoAnswer /\ Goto(i, "audit") /\ UNCHANGED <<bucket, passed>>
    /\ UNCHANGED <<minute, off, quota, spent, auditVars>>
\* The handler, or the secret and size checks before it, answer; then the audit row
\* is written by a goroutine of its own, which gives up after three seconds.
AnswerRequest(i) ==
    /\ request[i].pc = "audit" /\ Goto(i, "log")
    /\ UNCHANGED <<minute, off, counterVars, auditVars, unanswered>>
WriteAuditLog(i) ==
    /\ request[i].pc = "log" /\ Goto(i, "idle")
    /\ logs' \in {logs, [logs EXCEPT ![request[i].shop] = @ + 1]}
    /\ UNCHANGED <<minute, off, counterVars, arrivals, unanswered>>

GatewayNext == \/ MinutePasses \/ SetFlag
               \/ \E i \in InFlight : \/ \E s \in GateShops : Arrive(i, s)
                                       \/ CheckQuota(i) \/ RateLimit(i)
                                       \/ AnswerRequest(i) \/ WriteAuditLog(i)

GatewaySpec == GatewayInit /\ [][GatewayNext]_gatewayVars

GatewayTypeOK ==
    /\ minute \in Minutes /\ off \in BOOLEAN /\ unanswered \in 0..MaxUnanswered
    /\ open \in 0..unanswered /\ arrivals \in 0..MaxArrivals
    /\ \A i \in InFlight : request[i].pc \in {"idle", "quota", "rate", "write", "audit", "log"}

\* What a counter with that limit has let through, one unit for each request.
Units(count, limit) == {u \in (DOMAIN count) \X (1..limit) : u[2] <= count[u[1]]}
Total(count, limit) == Cardinality(Units(count, limit))
\* Requests in flight together never get past a counter more often than its limit,
\* however their checks interleave with the end of a minute or a day; what is
\* answered was let through by both counters unless one of them failed; and the
\* log has no row for a request that was refused.
GatewaySound == \A s \in GateShops :
    /\ \A d \in Days : spent[s][d] <= DailyLimit /\ spent[s][d] <= quota[s][d]
    /\ \A m \in Minutes : passed[s][m] <= MaxRequests /\ passed[s][m] <= bucket[s][m]
    /\ logs[s] <= Total(passed[s], MaxRequests) + open
    /\ Total(passed[s], MaxRequests) <= Total(spent[s], DailyLimit) + open
=============================================================================
