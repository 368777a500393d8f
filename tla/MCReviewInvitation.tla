------------------------- MODULE MCReviewInvitation -------------------------
(* Two webhooks of one order, two engines' worth of interleavings.          *)
EXTENDS ReviewInvitation

CONSTANTS d1, d2, o1

BothOfOneOrder == [d \in {d1, d2} |-> o1]
=============================================================================
