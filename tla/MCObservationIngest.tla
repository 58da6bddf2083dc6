------------------------- MODULE MCObservationIngest -------------------------
(***************************************************************************)
(* Instances of ObservationIngest for TLC.                                 *)
(***************************************************************************)
EXTENDS ObservationIngest, TLC

CONSTANTS route_b, route_c, v1, v2, i1, i2

\* Captures of the first two instants, which also arrive late.  Route C reads
\* with the server's own registered parser and never says that an offer is gone;
\* an upload may come from any parser, and the ones of low confidence that
\* matter have a price.
Reports(c) ==
    /\ c.at <= 1
    /\ c.route = route_c => c.parser = "confident" /\ ~c.gone
    /\ c.parser # "confident" => c.value # NoPrice \/ (c.gone /\ c.parser = "unregistered")

\* Values and ingests are interchangeable.
Interchangeable == Permutations(Values) \cup Permutations(Ingests)
=============================================================================
