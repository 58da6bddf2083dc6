--------------------------- MODULE MCUrgentDelivery ---------------------------
(***************************************************************************)
(* Instances of UrgentDelivery for TLC.                                    *)
(***************************************************************************)
EXTENDS UrgentDelivery, TLC

CONSTANTS safety, j1, j2, j3, j4
=============================================================================
