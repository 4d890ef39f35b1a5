----------------------------- MODULE MCMpscRing -----------------------------
(* Instances of MpscRing for TLC. *)
EXTENDS MpscRing
=============================================================================
