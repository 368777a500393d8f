---------------------------- MODULE MCAutoReply ----------------------------
(* One review; two engines and two webhook requests at a time.              *)
EXTENDS AutoReply
=============================================================================
