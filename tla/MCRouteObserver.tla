--------------------------- MODULE MCRouteObserver ---------------------------
(***************************************************************************)
(* Instances of RouteObserver for TLC.                                     *)
(***************************************************************************)
EXTENDS RouteObserver, TLC

CONSTANTS w1, w2
=============================================================================
