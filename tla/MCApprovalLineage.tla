------------------------- MODULE MCApprovalLineage -------------------------
(***************************************************************************)
(* Instances of ApprovalLineage for TLC.                                   *)
(***************************************************************************)
EXTENDS ApprovalLineage, TLC

CONSTANTS l1, l2, w1, w2, p1, p2

\* Requests, passes and lineages are interchangeable.
Interchangeable ==
    Permutations(Lineages) \cup Permutations(Callers) \cup Permutations(Passes)
=============================================================================
