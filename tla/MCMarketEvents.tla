---------------------------- MODULE MCMarketEvents ----------------------------
(***************************************************************************)
(* An instance of MarketEvents for TLC: two sellers' streams under         *)
(* overlapping passes.  The sellers share an offer identity, so the events *)
(* of both streams have one dedup key; the first seller has a burst longer *)
(* than a page, and the database may refuse its events for ever.           *)
(***************************************************************************)
EXTENDS MarketEvents, TLC

CONSTANTS s1, s2, p1, p2

TwoSellers == <<s1, s2>>
OfferOf(s) == "offer"

\* Two steps up, or one up and a slight one down, in any order of arrival.
SightingsOf(s) ==
    IF s = s1 THEN {<<1, 100>>, <<2, 120>>, <<3, 150>>, <<3, 110>>} ELSE {<<2, 100>>}
=============================================================================
