--------------------------- MODULE MCCartRecovery ---------------------------
(* One scan at a time over one checkout, a campaign with a discount, and a  *)
(* shop whose discounts cannot be created.                                  *)
EXTENDS CartRecovery
=============================================================================
