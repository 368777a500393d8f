----------------------------- MODULE MCMetrics -----------------------------
(* Two goroutines that record while one scrapes.                            *)
EXTENDS Metrics
=============================================================================
