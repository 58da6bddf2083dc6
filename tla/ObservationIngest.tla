-------------------------- MODULE ObservationIngest --------------------------
(***************************************************************************)
(* The observation engine of services/core/internal/observation for one    *)
(* offer: captures of several routes are ingested, each in a transaction   *)
(* that reads what the other routes attest, derives the quality of the     *)
(* evidence and updates the offer of record.                               *)
(*                                                                         *)
(* The transactions run at READ COMMITTED: what one has read may be old    *)
(* when it writes.  A transaction that fails or rolls back changes         *)
(* nothing.  The native identity of a capture matches its target, or it    *)
(* is refused before anything is read.  SweepExpired has no caller and is  *)
(* left out.                                                               *)
(***************************************************************************)
EXTENDS Integers, FiniteSets

CONSTANTS
    Routes,         \* the routes that upload or observe
    Values,         \* raw price tokens
    NoPrice,        \* a capture without a complete price
    Arriving(_),    \* bound: the captures that arrive
    Ingests,        \* requests and observer workers
    Window,         \* the freshness window of the target
    MaxClock,       \* bound: instants
    MaxEvidence     \* bound: observations

ASSUME ObservationBounds ==
    /\ Window \in Nat \ {0} /\ MaxClock \in Nat /\ MaxEvidence \in Nat
    /\ NoPrice \notin Values /\ Routes # {}

VARIABLES
    clock,
    evidence,   \* observations, append-only; the dedup claims commit with them
    conflicts,  \* observation_dedup_conflicts
    offer,      \* observed_offers: the offer of record
    ingest,     \* each transaction under way, what it has read, and (history)
                \* whether another one committed since
    disordered  \* history: an ingest wrote on an old read or out of captured order

vars == <<clock, evidence, conflicts, offer, ingest, disordered>>

-----------------------------------------------------------------------------

Instants == 0 .. MaxClock

\* What a parser may be: registered, registered but of low confidence, or not
\* in the server's registry (or the payload is malformed).
Parsers == {"confident", "unsure", "unregistered"}

Captures ==
    {c \in [route : Routes, value : Values \cup {NoPrice}, gone : BOOLEAN,
            parser : Parsers, at : Instants] : c.gone => c.value = NoPrice}

Qualities == {"verified", "supported", "unverified", "conflicted", "stale", "unavailable"}

\* SatisfiesCurrentDataGate.
CurrentQualities == {"verified", "supported", "unverified"}

NoOffer == [exists |-> FALSE, value |-> NoPrice, gone |-> FALSE, quality |-> "unavailable",
            at |-> 0, ended |-> FALSE]

Signals == [fresh : BOOLEAN, conflicted : BOOLEAN, corroborated : BOOLEAN, history : BOOLEAN]
NoSignals == [fresh |-> FALSE, conflicted |-> FALSE, corroborated |-> FALSE, history |-> FALSE]

NoCapture == CHOOSE c \in Captures : TRUE
IdleIngest == [at |-> "idle", capture |-> NoCapture, signals |-> NoSignals,
               existing |-> FALSE, overtaken |-> FALSE]
At(i, p) == ingest[i].at = p

TypeOK ==
    /\ clock \in Instants
    /\ evidence \subseteq Captures /\ Cardinality(evidence) <= MaxEvidence
    /\ conflicts \subseteq Captures
    /\ offer \in [exists : BOOLEAN, value : Values \cup {NoPrice}, gone : BOOLEAN,
                  quality : Qualities, at : Instants, ended : BOOLEAN]
    /\ ingest \in [Ingests -> [at : {"idle", "loaded", "analysed"}, capture : Captures,
                               signals : Signals, existing : BOOLEAN,
                               overtaken : BOOLEAN]]
    /\ disordered \in BOOLEAN

Init ==
    /\ clock = 0
    /\ evidence = {} /\ conflicts = {}
    /\ offer = NoOffer
    /\ ingest = [i \in Ingests |-> IdleIngest]
    /\ disordered = FALSE

-----------------------------------------------------------------------------
(***************************************************************************)
(* Evidence.                                                               *)
(***************************************************************************)

SchemaValid(c) == c.parser # "unregistered"

Same(a, b) == a.value = b.value /\ a.gone = b.gone

Deadline(c) == c.at + Window

\* Mutant: quarantined rows corroborate.
AnyRow(c) == TRUE

\* ListInWindowRouteValues: the schema-valid rows still fresh now; of each
\* route the latest, and one of them when several share the instant.
Qualifies(c) == SchemaValid(c)
InWindow == {e \in evidence : Qualifies(e) /\ Deadline(e) > clock}
Latest(route) ==
    LET rows == {e \in InWindow : e.route = route}
    IN  {e \in rows : \A f \in rows : f.at <= e.at}

\* A choice of one latest row for every route that has one.
LatestRows == {rows \in SUBSET (UNION {Latest(r) : r \in Routes}) :
                  \A r \in Routes : Cardinality({e \in rows : e.route = r})
                                        = IF Latest(r) = {} THEN 0 ELSE 1}

\* analyzeRoutes: another route agrees, or disagrees, with the capture.
OtherRoute(e, c) == e.route # c.route
Analysis(rows, c) ==
    [fresh |-> clock <= Deadline(c),
     conflicted |-> \E e \in rows : OtherRoute(e, c) /\ ~Same(e, c),
     corroborated |-> \E e \in rows : OtherRoute(e, c) /\ Same(e, c),
     history |-> \E e \in rows : Same(e, c)]

\* Mutant: evidence keeps its quality past its deadline.
NeverTooOld(s) == FALSE

TooOld(s) == ~s.fresh

\* DeriveQuality; the first rule that applies decides.
DeriveQuality(c, s) ==
    IF c.value = NoPrice \/ c.gone THEN "unavailable"
    ELSE IF TooOld(s) THEN "stale"
    ELSE IF ~SchemaValid(c) THEN "unverified"
    ELSE IF s.conflicted THEN "conflicted"
    ELSE IF c.parser = "unsure" THEN "unverified"
    ELSE IF s.corroborated THEN "verified"
    ELSE IF s.history THEN "supported"
    ELSE "unverified"

-----------------------------------------------------------------------------
(***************************************************************************)
(* Ingest.                                                                 *)
(***************************************************************************)

\* loadExisting ...
Load(i, c) ==
    /\ At(i, "idle")
    /\ Arriving(c) /\ c.at <= clock /\ Cardinality(evidence) < MaxEvidence
    /\ ingest' = [ingest EXCEPT ![i] = [IdleIngest EXCEPT
                      !.at = "loaded", !.capture = c, !.existing = offer.exists]]
    /\ UNCHANGED <<clock, evidence, conflicts, offer, disordered>>

\* ... and, in a statement of its own, the rows of the routes.
Analyse(i) ==
    /\ At(i, "loaded")
    /\ \E rows \in LatestRows :
          ingest' = [ingest EXCEPT ![i].at = "analysed",
                                   ![i].signals = Analysis(rows, ingest[i].capture)]
    /\ UNCHANGED <<clock, evidence, conflicts, offer, disordered>>

\* ClaimDedupKey.  The key is the route, the value, the availability and the
\* instant; the rest of the envelope is told apart by its hash.
Key(c) == [c EXCEPT !.parser = "any"]
Claimants(c) == {e \in evidence : Key(e) = Key(c)}

Finish(i) == ingest' = [ingest EXCEPT ![i] = IdleIngest]

\* The key is claimed: an equal envelope is a replay, another one is recorded
\* as a conflict.  The offer stays as it is.
Replay(i) ==
    LET c == ingest[i].capture
    IN  /\ At(i, "analysed") /\ Claimants(c) # {}
        /\ conflicts' = IF c \in evidence THEN conflicts ELSE conflicts \cup {c}
        /\ Finish(i)
        /\ UNCHANGED <<clock, evidence, offer, disordered>>

\* Mutants: a closure gets a quality of its own; a disagreement is not marked.
ClosedApart(c) == [offer EXCEPT !.gone = TRUE, !.quality = "closed", !.ended = TRUE]
LeftAsIs == offer

\* The updates of the offer.  A disappearance closes it and leaves its price; a
\* disagreement marks it and leaves its price; evidence of no valid schema
\* leaves it alone; anything else replaces it.
Closed(c) == [offer EXCEPT !.gone = TRUE, !.quality = "unavailable", !.ended = TRUE]
MarkedConflicted == [offer EXCEPT !.quality = "conflicted"]
Upserted(c, q) == [exists |-> TRUE, value |-> c.value, gone |-> FALSE, quality |-> q,
                   at |-> c.at, ended |-> FALSE]

OfferAfter(c, q, existing) ==
    CASE c.gone -> IF existing THEN Closed(c) ELSE offer
      [] ~c.gone /\ q = "conflicted" /\ existing -> MarkedConflicted
      [] ~c.gone /\ ~(q = "conflicted" /\ existing) /\ ~SchemaValid(c) -> offer
      [] OTHER -> Upserted(c, q)

Accept(i) ==
    LET c == ingest[i].capture
        q == DeriveQuality(c, ingest[i].signals)
    IN  /\ At(i, "analysed") /\ Claimants(c) = {}
        /\ Cardinality(evidence) < MaxEvidence
        /\ evidence' = evidence \cup {c}
        /\ offer' = OfferAfter(c, q, ingest[i].existing)
        /\ disordered' = (\/ disordered
                          \/ ingest[i].overtaken
                          \/ \E e \in evidence : e.route = c.route /\ e.at >= c.at)
        /\ ingest' = [j \in Ingests |->
                         CASE j = i -> IdleIngest
                           [] j # i /\ At(j, "idle") -> IdleIngest
                           [] OTHER -> [ingest[j] EXCEPT !.overtaken = TRUE]]
        /\ UNCHANGED <<clock, conflicts>>

\* The transaction fails, is cancelled, or loses the race for the dedup key.
Abandon(i) ==
    /\ ~At(i, "idle")
    /\ Finish(i)
    /\ UNCHANGED <<clock, evidence, conflicts, offer, disordered>>

\* DowngradeCurrentForDrift: Route C meets drift on the target.
DriftDowngrade ==
    /\ offer.exists /\ ~offer.ended /\ offer.quality \in CurrentQualities
    /\ offer' = [offer EXCEPT !.quality = IF offer.gone THEN "unavailable" ELSE "stale"]
    /\ UNCHANGED <<clock, evidence, conflicts, ingest, disordered>>

Tick ==
    /\ clock < MaxClock /\ clock' = clock + 1
    /\ UNCHANGED <<evidence, conflicts, offer, ingest, disordered>>

-----------------------------------------------------------------------------

Next ==
    \/ \E i \in Ingests, c \in Captures : Load(i, c)
    \/ \E i \in Ingests : Analyse(i) \/ Replay(i) \/ Accept(i) \/ Abandon(i)
    \/ DriftDowngrade \/ Tick

Spec == Init /\ [][Next]_vars

-----------------------------------------------------------------------------
(***************************************************************************)
(* Properties.                                                             *)
(***************************************************************************)

Current(o) == o.exists /\ o.quality \in CurrentQualities

\* The price of record was attested by a registered parser, and a verified one
\* by two routes: neither quarantined evidence nor one route twice makes it,
\* however the ingests interleave.
OfferIsEvidenced ==
    LET attesting == {e \in evidence : SchemaValid(e) /\ e.value = offer.value /\ ~e.gone}
    IN  offer.exists =>
            /\ \E e \in attesting : e.at = offer.at
            /\ offer.quality = "verified" => \E e, f \in attesting : OtherRoute(e, f)

\* Routes that disagree block: while two routes' latest evidence in the window
\* differs, the offer does not read as current, nor when one of them says it
\* is gone.  This needs ingests that do not overlap and captures that arrive
\* in the order they were taken.
Disagreement ==
    \E e, f \in UNION {Latest(r) : r \in Routes} : OtherRoute(e, f) /\ ~Same(e, f)

ConflictBlocks == disordered \/ ~(Current(offer) /\ Disagreement)

\* service.go: "Routes disagree -> Conflicted; block".
ConflictBlocksEver == ~(Current(offer) /\ Disagreement)

\* A stale, conflicted or closed offer becomes current by the acceptance of a
\* capture the log does not have: of a registered parser, inside its deadline and
\* contradicted by no other route when the ingest read, and of the value the offer
\* then has.  No replay, drift report or quarantined or outdated capture does it.
BlockIsLiftedByEvidence ==
    [][~Current(offer) /\ Current(offer') =>
          \E i \in Ingests :
              LET c == ingest[i].capture
                  s == ingest[i].signals
              IN  /\ At(i, "analysed") /\ c \in evidence' \ evidence
                  /\ SchemaValid(c) /\ ~c.gone /\ s.fresh /\ ~s.conflicted
                  /\ c.value = offer'.value /\ c.at = offer'.at]_vars

\* service.go: evidence of an unregistered parser "must NEVER become or mutate
\* the offer of record".
QuarantineIsInert ==
    [][\A e \in evidence' \ evidence : ~SchemaValid(e) => UNCHANGED offer]_vars
=============================================================================
