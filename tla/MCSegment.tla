----------------------------- MODULE MCSegment ------------------------------
(* Instances of Segment for TLC. *)
EXTENDS Segment
=============================================================================
