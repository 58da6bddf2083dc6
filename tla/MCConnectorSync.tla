---------------------------- MODULE MCConnectorSync ----------------------------
(***************************************************************************)
(* Instances of ConnectorSync for TLC.                                     *)
(***************************************************************************)
EXTENDS ConnectorSync, TLC

CONSTANTS c1, c2

Interchangeable == Permutations(Calls)
=============================================================================
