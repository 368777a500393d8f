----------------------------- MODULE PathLabel -----------------------------
(***************************************************************************)
(* The label a request's path gets before anything else of the request runs *)
(* (middleware/observability.go): cleanPath looks for a hexadecimal digit   *)
(* with a dash eight places on and cuts 36 characters there, the length of  *)
(* a UUID. A path is a sequence of "h" (hexadecimal digit), "-" and "o".    *)
(***************************************************************************)
EXTENDS Naturals, Sequences

CONSTANTS Paths,    \* paths of registered routes
          MaxRequests   \* bound

VARIABLES
    pc,       \* "idle", "scan", "serve"
    path, i,  \* the path and cleanPath's index, from 1
    active,   \* the gauge of active requests
    inflight, \* requests being served, this one included
    begun

labelVars == <<pc, path, i, active, inflight, begun>>

LabelInit == /\ pc = "idle" /\ path = <<>> /\ i = 1 /\ active = 0 /\ inflight = 0 /\ begun = 0

Begin(p) == /\ pc = "idle" /\ begun < MaxRequests /\ begun' = begun + 1
            /\ pc' = "scan" /\ path' = p /\ i' = 1
            /\ active' = active + 1 /\ inflight' = inflight + 1
AtUUID == path[i] = "h" /\ path[i + 8] = "-"
CanCut == i + 9 <= Len(path) /\ path[i + 9] = "h" /\ i + 35 <= Len(path)
Scan == /\ pc = "scan" /\ i + 8 <= Len(path) /\ ~AtUUID
        /\ i' = i + 1 /\ UNCHANGED <<pc, path, active, inflight, begun>>
SkipDash == /\ pc = "scan" /\ i + 9 <= Len(path) /\ AtUUID /\ path[i + 9] # "h"
            /\ i' = i + 1 /\ UNCHANGED <<pc, path, active, inflight, begun>>
Cut == /\ pc = "scan" /\ i + 8 <= Len(path) /\ AtUUID /\ CanCut
       /\ path' = SubSeq(path, 1, i - 1) \o <<":", "i", "d">> \o SubSeq(path, i + 36, Len(path))
       /\ pc' = "serve" /\ UNCHANGED <<i, active, inflight, begun>>
\* Index or slice out of range: the goroutine of the request unwinds, and what the
\* middleware would have done after the request is not done.
Panic == /\ pc = "scan" /\ i + 8 <= Len(path) /\ AtUUID
         /\ i + 9 > Len(path) \/ (path[i + 9] = "h" /\ i + 35 > Len(path))
         /\ pc' = "idle" /\ inflight' = inflight - 1 /\ UNCHANGED <<path, i, active, begun>>
NoUUID == /\ pc = "scan" /\ i + 8 > Len(path)
          /\ pc' = "serve" /\ UNCHANGED <<path, i, active, inflight, begun>>
Serve == /\ pc = "serve" /\ pc' = "idle" /\ active' = active - 1 /\ inflight' = inflight - 1
         /\ UNCHANGED <<path, i, begun>>

LabelNext == \/ \E p \in Paths : Begin(p)
             \/ Scan \/ SkipDash \/ Cut \/ Panic \/ NoUUID \/ Serve
Spec == LabelInit /\ [][LabelNext]_labelVars

\* Every request gets a label and is served, and the gauge of active requests
\* returns to the number of requests in flight.
GaugeExact == active = inflight
=============================================================================
