----------------------------- MODULE MCLiveness -----------------------------
(* Three components that do not meet, checked in one run: a behaviour is    *)
(* about one of them, `part', and the others stay as they begin.  A breaker *)
(* with three callers; two checkouts behind a limit of one; one cron call   *)
(* at a time over two records, in pages of one.                             *)
EXTENDS CircuitBreaker

VARIABLES part,
          active, checkouts, older, due, rows, codes, used, scan, orders, emails,
          mailed, credited, cartFaults,
          kind, clock, remote, local, webhooks, marker, fresh, run, lost, syncFaults

Cart == INSTANCE CartRecovery WITH
    Worker <- {"w1"}, Campaign <- {"k1"}, Discounted <- {"k1"}, Addressed <- TRUE,
    ScanLimit <- 1, Checkout <- {"c1", "c2"}, Order <- {"o1"}, MaxFaults <- 0,
    status <- checkouts, order <- orders, faults <- cartFaults
Sync == INSTANCE SyncCursor WITH
    Runner <- {"w1"}, Records <- 2, Kinds <- {"orders", "products"}, PageSize <- 1,
    MaxPages <- [orders |-> 2, products |-> 1], MaxChanges <- 2, MaxSyncFaults <- 1

ASSUME LiveConstants == Cart!CartConstants /\ Sync!SyncConstants

breakerVars == <<state, failureCount, sinceFailure, inFlight, healthy, flips, streak>>
cartVars == <<active, checkouts, older, due, rows, codes, used, scan, orders, emails,
              mailed, credited, cartFaults>>
syncVars == <<kind, clock, remote, local, webhooks, marker, fresh, run, lost, syncFaults>>
LiveVars == <<part, breakerVars, cartVars, syncVars>>

LiveInit == /\ part \in {"breaker", "cart", "sync"}
            /\ Init /\ Cart!CartInit /\ Sync!SyncInit
            /\ healthy \/ part = "breaker"
            /\ kind = "orders" \/ part = "sync"

BreakerStep == part = "breaker" /\ Next /\ UNCHANGED <<part, cartVars, syncVars>>
CartStep == part = "cart" /\ Cart!CartNext /\ UNCHANGED <<part, breakerVars, syncVars>>
SyncStep == part = "sync" /\ Sync!SyncNext /\ UNCHANGED <<part, breakerVars, cartVars>>

LiveNext == BreakerStep \/ CartStep \/ SyncStep

\* The Fairness of each component, owed while it is the one that runs.
LiveFairness ==
    /\ WF_breakerVars(part = "breaker" /\ Tick)
    /\ \A c \in Caller :
          /\ WF_breakerVars(part = "breaker" /\ Allow(c))
          /\ WF_breakerVars(part = "breaker" /\ (RecordSuccess(c) \/ RecordFailure(c)))
    /\ WF_cartVars(part = "cart" /\ Cart!Scan("w1"))
    /\ SF_cartVars(part = "cart" /\ Cart!MakeCode("w1"))
    /\ WF_syncVars(part = "sync" /\ Sync!WindowPasses)
    /\ WF_syncVars(part = "sync" /\ Sync!Proceed("w1"))
    /\ SF_syncVars(part = "sync" /\ Sync!ReadMarker("w1"))

LiveSpec == LiveInit /\ [][LiveNext]_LiveVars /\ LiveFairness

\* A checkout that stays due is tried unless older ones fill the query's limit for
\* good (cart_recovery_exec.go 55-91).
EligibleIsTried == Cart!EligibleIsTried

\* A change newer than the marker reaches the table, whatever webhooks were lost, unless
\* a run has hidden it (cron.go).
CatchesUp == Sync!CatchesUp
=============================================================================
