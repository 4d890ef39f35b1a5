------------------------------ MODULE MCLogging ------------------------------
(***************************************************************************)
(* Instances of Logging for TLC.                                           *)
(***************************************************************************)
EXTENDS Logging, TLC

CONSTANTS l1, l2

\* l1 logs under its own name; l2 under its own, or under that of l1.
SharedName == l1 :> {1} @@ l2 :> {1, 2}

\* The second name is another one, or the first with a digit more.
OtherOrLonger == {1 :> {} @@ 2 :> {}, 1 :> {2} @@ 2 :> {}}
=============================================================================
