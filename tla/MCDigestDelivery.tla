-------------------------- MODULE MCDigestDelivery --------------------------
(***************************************************************************)
(* Instances of DigestDelivery for TLC.                                    *)
(***************************************************************************)
EXTENDS DigestDelivery, TLC

CONSTANTS d1, d2, j1, j2

\* Accounts, days and job slots are interchangeable.
Interchangeable == Permutations(Deliveries) \cup Permutations(Jobs)
=============================================================================
