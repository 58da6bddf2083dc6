------------------------- MODULE MCActionExecution -------------------------
(***************************************************************************)
(* Instances of ActionExecution for TLC.                                   *)
(***************************************************************************)
EXTENDS ActionExecution, TLC

CONSTANTS c1, a1, river, http

OneCard == c1 :> a1
=============================================================================
