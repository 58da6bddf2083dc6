----------------------------- MODULE MarketProofs -----------------------------
(***************************************************************************)
(* Proofs about what the system sees of the market: about                  *)
(* ObservationIngest, for any routes, ingests and captures, and any window *)
(* and bounds; and about MarketEvents, which reads the observations, for   *)
(* any streams, passes, prices, thresholds, page limits and bounds.        *)
(***************************************************************************)
EXTENDS ObservationIngest, MarketEvents, FiniteSetTheorems, SequenceTheorems, TLAPS

-----------------------------------------------------------------------------
(***************************************************************************)
(* The inductive invariant.                                                *)
(***************************************************************************)

\* Only finitely many observations are ever there.
Bounded == IsFiniteSet(evidence)

\* Captures that were accepted in order and on what they had read: of one route,
\* no two share an instant.
RoutesAreOrdered ==
    disordered \/ \A e, f \in evidence : e.route = f.route /\ e.at = f.at => e = f

\* What an ingest has read of the other routes.  A corroborating row stays in
\* evidence whatever happens next.
Corroborated(i) ==
    At(i, "analysed") /\ ingest[i].signals.corroborated =>
        \E e \in evidence : /\ SchemaValid(e) /\ OtherRoute(e, ingest[i].capture)
                            /\ Same(e, ingest[i].capture)

\* Until another ingest commits, an ingest has seen every route that disagrees
\* with it now, and knows whether there is an offer.
ConflictsAreSeen(i) ==
    At(i, "analysed") /\ ~ingest[i].overtaken =>
        \A e \in UNION {Latest(r) : r \in Routes} :
            OtherRoute(e, ingest[i].capture) /\ ~Same(e, ingest[i].capture)
                => ingest[i].signals.conflicted

ExistenceIsKnown(i) ==
    ~At(i, "idle") /\ ~ingest[i].overtaken => ingest[i].existing = offer.exists

ObservationInv ==
    /\ TypeOK
    /\ Bounded
    /\ RoutesAreOrdered
    /\ OfferIsEvidenced
    /\ ConflictBlocks
    /\ \A i \in Ingests : /\ Corroborated(i)
                          /\ disordered \/ ConflictsAreSeen(i)
                          /\ ExistenceIsKnown(i)

-----------------------------------------------------------------------------
(***************************************************************************)
(* The types.                                                              *)
(***************************************************************************)
IngestRecords == [at : {"idle", "loaded", "analysed"}, capture : Captures,
                  signals : Signals, existing : BOOLEAN, overtaken : BOOLEAN]

Offers == [exists : BOOLEAN, value : Values \cup {NoPrice}, gone : BOOLEAN,
           quality : Qualities, at : Instants, ended : BOOLEAN]

\* The rules of DeriveQuality and the updates of the offer stay in their types.
LEMMA CapturesAre ==
  \A c \in Captures : /\ c.route \in Routes /\ c.value \in Values \cup {NoPrice}
                      /\ c.gone \in BOOLEAN /\ c.parser \in Parsers /\ c.at \in Instants
                      /\ c.at \in Nat
BY ObservationBounds DEF Captures, Instants

LEMMA IdleTyped == IdleIngest \in IngestRecords
<1>1. PICK r \in Routes : TRUE
  BY ObservationBounds
<1> DEFINE c == [route |-> r, value |-> NoPrice, gone |-> FALSE, parser |-> "unsure", at |-> 0]
<1>2. c \in Captures
  <2>1. 0 \in Instants
    BY ObservationBounds DEF Instants
  <2> QED
    BY <2>1 DEF Captures, Parsers
<1>3. NoCapture \in Captures
  BY <1>2 DEF NoCapture
<1>4. NoSignals \in Signals
  BY DEF NoSignals, Signals
<1> QED
  BY <1>3, <1>4 DEF IdleIngest, IngestRecords

LEMMA QualityTyped ==
  \A c, s : DeriveQuality(c, s) \in Qualities
BY DEF DeriveQuality, TooOld, Qualities

LEMMA OfferTyped ==
  ASSUME offer \in Offers, NEW c \in Captures, NEW q \in Qualities, NEW existing \in BOOLEAN
  PROVE  OfferAfter(c, q, existing) \in Offers
<1>c. /\ c.value \in Values \cup {NoPrice} /\ c.gone \in BOOLEAN /\ c.at \in Instants
  BY CapturesAre
<1>1. Closed(c) \in Offers
  BY DEF Closed, Offers, Qualities
<1>2. MarkedConflicted \in Offers
  BY DEF MarkedConflicted, Offers, Qualities
<1>3. Upserted(c, q) \in Offers
  BY <1>c DEF Upserted, Offers
<1>4. OfferAfter(c, q, existing) \in {offer, Closed(c), MarkedConflicted, Upserted(c, q)}
  BY <1>c DEF OfferAfter
<1> QED
  BY <1>1, <1>2, <1>3, <1>4

LEMMA AnalysisTyped == \A rows, c : Analysis(rows, c) \in Signals
BY DEF Analysis, Signals

\* What a step does to the ingests: one of them moves, or one commits and the
\* others are overtaken.
Steps(i, s) ==
    /\ s \in IngestRecords /\ ingest' = [ingest EXCEPT ![i] = s]
    /\ UNCHANGED <<clock, evidence, offer, disordered>>

LEMMA LoadSteps ==
  ASSUME TypeOK, NEW i \in Ingests, NEW c \in Captures, Load(i, c)
  PROVE  \E s : /\ Steps(i, s) /\ s.at = "loaded" /\ s.existing = offer.exists
<1> DEFINE s == [IdleIngest EXCEPT !.at = "loaded", !.capture = c, !.existing = offer.exists]
<1>1. offer.exists \in BOOLEAN
  BY DEF TypeOK
<1>2. s \in IngestRecords /\ s.at = "loaded" /\ s.existing = offer.exists
  BY <1>1, IdleTyped DEF IngestRecords
<1>3. ingest' = [ingest EXCEPT ![i] = s] /\ UNCHANGED <<clock, evidence, offer, disordered>>
  BY DEF Load
<1> HIDE DEF s
<1> QED
  BY <1>2, <1>3 DEF Steps

LEMMA AnalyseSteps ==
  ASSUME TypeOK, NEW i \in Ingests, Analyse(i)
  PROVE  \E s : \E rows \in LatestRows :
             /\ Steps(i, s) /\ s.signals = Analysis(rows, ingest[i].capture)
             /\ s.capture = ingest[i].capture /\ s.existing = ingest[i].existing
             /\ s.overtaken = ingest[i].overtaken /\ s.at = "analysed"
             /\ ingest[i].at = "loaded"
<1>t. ingest \in [Ingests -> IngestRecords] /\ ingest[i] \in IngestRecords
  BY DEF TypeOK, IngestRecords
<1>1. PICK rows \in LatestRows :
          ingest' = [ingest EXCEPT ![i].at = "analysed",
                                   ![i].signals = Analysis(rows, ingest[i].capture)]
  BY DEF Analyse
<1> DEFINE sig == Analysis(rows, ingest[i].capture)
           s == [ingest[i] EXCEPT !.at = "analysed", !.signals = sig]
<1>2. sig \in Signals
  BY AnalysisTyped
<1>3. ingest' = [ingest EXCEPT ![i] = s]
  BY <1>t, <1>1
<1>4. UNCHANGED <<clock, evidence, offer, disordered>> /\ ingest[i].at = "loaded"
  BY DEF Analyse, At
<1> HIDE DEF sig
<1>5. /\ s \in IngestRecords /\ s.signals = sig /\ s.at = "analysed"
      /\ s.capture = ingest[i].capture /\ s.existing = ingest[i].existing
      /\ s.overtaken = ingest[i].overtaken
  BY <1>t, <1>2 DEF IngestRecords
<1> HIDE DEF s
<1>6. Steps(i, s)
  BY <1>3, <1>4, <1>5 DEF Steps
<1> QED
  BY <1>4, <1>5, <1>6 DEF sig

LEMMA EndSteps ==
  ASSUME NEW i \in Ingests, Replay(i) \/ Abandon(i)
  PROVE  Steps(i, IdleIngest)
BY IdleTyped DEF Replay, Abandon, Finish, Steps

\* A commit overtakes every other ingest under way.
LEMMA AcceptOvertakes ==
  ASSUME TypeOK, NEW i \in Ingests, Accept(i)
  PROVE  /\ ingest' \in [Ingests -> IngestRecords]
         /\ \A j \in Ingests :
               /\ ingest'[j].at = "idle" \/ ingest'[j].overtaken
               /\ ingest'[j].at # "idle" => /\ ingest'[j].at = ingest[j].at
                                            /\ ingest'[j].capture = ingest[j].capture
                                            /\ ingest'[j].signals = ingest[j].signals
<1> DEFINE After(j) == CASE j = i -> IdleIngest
                        [] j # i /\ At(j, "idle") -> IdleIngest
                        [] OTHER -> [ingest[j] EXCEPT !.overtaken = TRUE]
<1>1. ingest' = [j \in Ingests |-> After(j)]
  BY DEF Accept
<1>2. ASSUME NEW j \in Ingests
      PROVE  /\ After(j) \in IngestRecords
             /\ After(j).at = "idle" \/ After(j).overtaken
             /\ After(j).at # "idle" => /\ After(j).at = ingest[j].at
                                       /\ After(j).capture = ingest[j].capture
                                       /\ After(j).signals = ingest[j].signals
  <2>1. ingest[j] \in IngestRecords /\ IdleIngest.at = "idle"
    BY DEF TypeOK, IngestRecords, IdleIngest
  <2>2. CASE After(j) = IdleIngest
    BY <2>1, <2>2, IdleTyped
  <2>3. CASE After(j) = [ingest[j] EXCEPT !.overtaken = TRUE]
    BY <2>1, <2>3 DEF IngestRecords
  <2>4. After(j) = IdleIngest \/ After(j) = [ingest[j] EXCEPT !.overtaken = TRUE]
    OBVIOUS
  <2> HIDE DEF After
  <2> QED
    BY <2>2, <2>3, <2>4
<1> HIDE DEF After
<1> QED
  BY <1>1, <1>2

LEMMA TypeNext ==
  ASSUME TypeOK, Bounded, [Next]_vars
  PROVE  TypeOK' /\ Bounded'
<1>t. /\ clock \in Instants /\ evidence \subseteq Captures /\ Cardinality(evidence) <= MaxEvidence
      /\ conflicts \subseteq Captures /\ offer \in Offers
      /\ ingest \in [Ingests -> IngestRecords] /\ disordered \in BOOLEAN
      /\ IsFiniteSet(evidence)
  BY DEF TypeOK, Bounded, Offers, IngestRecords
<1>g. ASSUME clock' \in Instants, evidence' \subseteq Captures,
             Cardinality(evidence') <= MaxEvidence, conflicts' \subseteq Captures,
             offer' \in Offers, ingest' \in [Ingests -> IngestRecords],
             disordered' \in BOOLEAN, IsFiniteSet(evidence')
      PROVE  TypeOK' /\ Bounded'
  BY <1>g DEF TypeOK, Bounded, Offers, IngestRecords
<1>s. ASSUME NEW i \in Ingests, NEW s, Steps(i, s), conflicts' \subseteq Captures
      PROVE  TypeOK' /\ Bounded'
  BY <1>t, <1>g, <1>s DEF Steps
<1>1. ASSUME NEW i \in Ingests, NEW c \in Captures, Load(i, c)
      PROVE  TypeOK' /\ Bounded'
  <2>1. conflicts' = conflicts
    BY <1>1 DEF Load
  <2> QED
    BY <1>t, <1>s, <1>1, <2>1, LoadSteps
<1>2. ASSUME NEW i \in Ingests, Analyse(i)
      PROVE  TypeOK' /\ Bounded'
  <2>1. conflicts' = conflicts
    BY <1>2 DEF Analyse
  <2> QED
    BY <1>t, <1>s, <1>2, <2>1, AnalyseSteps
<1>3. ASSUME NEW i \in Ingests, Replay(i) \/ Abandon(i)
      PROVE  TypeOK' /\ Bounded'
  <2>1. conflicts' \subseteq Captures
    <3>1. ingest[i].capture \in Captures
      BY <1>t DEF IngestRecords
    <3> QED
      BY <1>t, <1>3, <3>1 DEF Replay, Abandon
  <2> QED
    BY <1>s, <1>3, <2>1, EndSteps
<1>4. ASSUME NEW i \in Ingests, Accept(i)
      PROVE  TypeOK' /\ Bounded'
  <2> DEFINE c == ingest[i].capture
  <2>1. c \in Captures /\ ingest[i].existing \in BOOLEAN
    BY <1>t DEF IngestRecords
  <2>2. offer' \in Offers
    BY <1>t, <1>4, <2>1, OfferTyped, QualityTyped DEF Accept
  <2>3. evidence' = evidence \cup {c} /\ Cardinality(evidence) < MaxEvidence
    BY <1>4 DEF Accept
  <2>4. IsFiniteSet(evidence') /\ Cardinality(evidence') <= Cardinality(evidence) + 1
        /\ Cardinality(evidence) \in Nat /\ Cardinality(evidence') \in Nat
    <3> HIDE DEF c
    <3>1. /\ IsFiniteSet(evidence \cup {c})
          /\ Cardinality(evidence \cup {c}) = IF c \in evidence THEN Cardinality(evidence)
                                               ELSE Cardinality(evidence) + 1
      BY <1>t, FS_AddElement
    <3>2. Cardinality(evidence) \in Nat
      BY <1>t, FS_CardinalityType
    <3> QED
      BY <2>3, <3>1, <3>2
  <2>5. Cardinality(evidence') <= MaxEvidence
    BY <2>3, <2>4, ObservationBounds
  <2>6. disordered' \in BOOLEAN /\ clock' = clock /\ conflicts' = conflicts
    BY <1>t, <1>4 DEF Accept
  <2>7. ingest' \in [Ingests -> IngestRecords]
    BY <1>4, AcceptOvertakes
  <2> QED
    BY <1>t, <1>g, <2>1, <2>2, <2>3, <2>4, <2>5, <2>6, <2>7
<1>5. CASE DriftDowngrade
  <2>1. offer' \in Offers
    BY <1>t, <1>5 DEF DriftDowngrade, Offers, Qualities
  <2> QED
    BY <1>t, <1>g, <1>5, <2>1 DEF DriftDowngrade
<1>6. CASE Tick
  <2>1. clock' \in Instants
    BY <1>t, <1>6, ObservationBounds DEF Tick, Instants
  <2> QED
    BY <1>t, <1>g, <1>6, <2>1 DEF Tick
<1>7. CASE UNCHANGED vars
  BY <1>t, <1>g, <1>7 DEF vars
<1> QED
  BY <1>1, <1>2, <1>3, <1>4, <1>5, <1>6, <1>7 DEF Next

-----------------------------------------------------------------------------
(***************************************************************************)
(* The newest rows of the window.                                          *)
(***************************************************************************)
Newest == {e \in InWindow : \A f \in InWindow : f.route = e.route => f.at <= e.at}

LatestOfAll == UNION {Latest(r) : r \in Routes}

LEMMA NewestAre == TypeOK => LatestOfAll = Newest
<1> SUFFICES ASSUME TypeOK PROVE LatestOfAll = Newest
  OBVIOUS
<1>1. \A e \in InWindow : e.route \in Routes
  BY CapturesAre DEF TypeOK, InWindow
<1> QED
  BY <1>1 DEF LatestOfAll, Latest, Newest

LEMMA NewestAreNext == TypeOK' => LatestOfAll' = Newest'
<1> SUFFICES ASSUME TypeOK' PROVE LatestOfAll' = Newest'
  OBVIOUS
<1>1. \A e \in InWindow' : e.route \in Routes
  BY CapturesAre DEF TypeOK, InWindow
<1> QED
  BY <1>1 DEF LatestOfAll, Latest, Newest

\* An analysis holds one newest row of every route, and without ties all of
\* them.
LEMMA RowsAreNewest ==
  ASSUME TypeOK, Bounded, NEW rows \in LatestRows
  PROVE  /\ rows \subseteq LatestOfAll
         /\ RoutesAreOrdered /\ ~disordered => LatestOfAll \subseteq rows
<1>1. rows \subseteq LatestOfAll
  BY DEF LatestRows, LatestOfAll
<1>2. ASSUME RoutesAreOrdered, ~disordered, NEW e \in LatestOfAll
      PROVE  e \in rows
  <2>1. /\ e \in InWindow /\ e.route \in Routes /\ e \in Latest(e.route)
        /\ \A f \in InWindow : f.route = e.route => f.at <= e.at
        /\ e \in Captures /\ e.at \in Nat
    <3>1. e \in Newest
      BY <1>2, NewestAre
    <3>2. e \in InWindow /\ e \in Captures
      BY <3>1 DEF Newest, InWindow, TypeOK
    <3> QED
      BY <3>1, <3>2, CapturesAre DEF Newest, Latest
  <2>2. Cardinality({f \in rows : f.route = e.route}) = 1
    BY <2>1 DEF LatestRows
  <2>3. {f \in rows : f.route = e.route} # {}
    BY <2>2, FS_EmptySet
  <2>4. PICK f \in rows : f.route = e.route
    BY <2>3
  <2>5. f \in Newest /\ f \in InWindow /\ f \in evidence /\ f \in Captures /\ f.at \in Nat
    BY <1>1, <2>4, NewestAre, CapturesAre DEF Newest, InWindow, TypeOK
  <2>6. f.at <= e.at /\ e.at <= f.at
    BY <2>1, <2>4, <2>5 DEF Newest
  <2>7. f = e
    BY <1>2, <2>1, <2>4, <2>5, <2>6 DEF RoutesAreOrdered, InWindow
  <2> QED
    BY <2>4, <2>7
<1> QED
  BY <1>1, <1>2

\* As time passes, rows leave the window, the older ones of a route first.
LEMMA NewestFade ==
  ASSUME TypeOK, TypeOK', Tick
  PROVE  LatestOfAll' \subseteq LatestOfAll
<1> SUFFICES ASSUME NEW e \in Newest' PROVE e \in Newest
  BY NewestAre, NewestAreNext
<1>t. /\ clock \in Nat /\ clock' = clock + 1 /\ evidence' = evidence /\ Window \in Nat
      /\ \A f \in evidence : f.at \in Nat
  BY ObservationBounds, CapturesAre DEF TypeOK, Tick, Instants
<1>1. /\ e \in evidence /\ Qualifies(e) /\ e.at + Window > clock + 1
      /\ \A f \in InWindow' : f.route = e.route => f.at <= e.at
  BY <1>t DEF Newest, InWindow, Qualifies, SchemaValid, Deadline
<1>2. e \in InWindow
  BY <1>t, <1>1 DEF InWindow, Deadline
<1>3. ASSUME NEW f \in InWindow, f.route = e.route
      PROVE  f.at <= e.at
  <2>1. f \in evidence /\ f.at \in Nat /\ e.at \in Nat
    BY <1>t, <1>1 DEF InWindow
  <2>2. CASE f \in InWindow'
    BY <1>1, <1>3, <2>2
  <2>3. CASE f \notin InWindow'
    <3>1. ~(f.at + Window > clock + 1)
      BY <1>t, <1>3, <2>3 DEF InWindow, Qualifies, SchemaValid, Deadline
    <3> QED
      BY <1>t, <1>1, <2>1, <3>1
  <2> QED
    BY <2>2, <2>3
<1> QED
  BY <1>2, <1>3 DEF Newest

\* A capture that is later than every row of its route is the newest of it as
\* soon as a row of it is in the window, if its parser is registered; the rows
\* of the other routes stay what they were.
LEMMA NewestAfterAccept ==
  ASSUME TypeOK, TypeOK', NEW c \in Captures, evidence' = evidence \cup {c}, clock' = clock,
         \A e \in evidence : ~(e.route = c.route /\ e.at >= c.at)
  PROVE  /\ ~SchemaValid(c) => LatestOfAll' = LatestOfAll
         /\ SchemaValid(c) =>
               \A e \in LatestOfAll' : e = c \/ (e \in LatestOfAll /\ e.route # c.route)
<1>t. /\ clock \in Nat /\ Window \in Nat /\ c.at \in Nat
      /\ \A f \in evidence : f.at \in Nat
  BY ObservationBounds, CapturesAre DEF TypeOK, Instants
<1>1. InWindow' = {e \in evidence \cup {c} : Qualifies(e) /\ Deadline(e) > clock}
  BY DEF InWindow, Qualifies, SchemaValid, Deadline
<1>2. ASSUME ~SchemaValid(c) PROVE LatestOfAll' = LatestOfAll
  <2>1. InWindow' = InWindow
    BY <1>1, <1>2 DEF InWindow, Qualifies
  <2> QED
    BY <2>1 DEF LatestOfAll, Latest
<1>3. ASSUME SchemaValid(c), NEW e \in Newest', e # c
      PROVE  e \in Newest /\ e.route # c.route
  <2>1. /\ e \in InWindow /\ e \in evidence /\ e.at \in Nat
        /\ \A f \in InWindow' : f.route = e.route => f.at <= e.at
    BY <1>t, <1>1, <1>3 DEF Newest, InWindow
  <2>2. e.route # c.route
    <3> SUFFICES ASSUME e.route = c.route PROVE FALSE
      OBVIOUS
    <3>1. e.at < c.at
      BY <1>t, <2>1
    <3>2. c \in InWindow'
      BY <1>t, <1>1, <1>3, <2>1, <3>1 DEF InWindow, Qualifies, Deadline
    <3> QED
      BY <1>t, <2>1, <3>1, <3>2
  <2>3. \A f \in InWindow : f \in InWindow'
    BY <1>1 DEF InWindow
  <2> QED
    BY <2>1, <2>2, <2>3 DEF Newest
<1> QED
  BY <1>2, <1>3, NewestAre, NewestAreNext

-----------------------------------------------------------------------------
(***************************************************************************)
(* What the ingests under way have read.                                   *)
(***************************************************************************)
KnowsItsEvidence(i) ==
    Corroborated(i) /\ (disordered \/ ConflictsAreSeen(i)) /\ ExistenceIsKnown(i)

\* Same is an equivalence on captures.
LEMMA SameIs ==
  \A e, f, c : Same(e, c) /\ Same(f, c) => Same(e, f)
BY DEF Same

\* An ingest that does not move keeps what it knows while the evidence stays.
LEMMA KnowledgeKeeps ==
  ASSUME NEW i \in Ingests, KnowsItsEvidence(i), ingest'[i] = ingest[i],
         evidence' = evidence, LatestOfAll' \subseteq LatestOfAll,
         offer'.exists = offer.exists, disordered' = disordered
  PROVE  KnowsItsEvidence(i)'
BY DEF KnowsItsEvidence, Corroborated, ConflictsAreSeen, ExistenceIsKnown, At, LatestOfAll,
   SchemaValid, OtherRoute, Same

\* One that is loaded knows the offer; one that has analysed the routes knows
\* what they say; one that is idle knows nothing.
LEMMA KnowledgeSteps ==
  ASSUME ObservationInv, NEW i \in Ingests, NEW s, Steps(i, s),
         \/ s.at = "idle"
         \/ s.at = "loaded" /\ s.existing = offer.exists
         \/ \E rows \in LatestRows :
              /\ s.signals = Analysis(rows, ingest[i].capture)
              /\ s.capture = ingest[i].capture /\ s.existing = ingest[i].existing
              /\ s.overtaken = ingest[i].overtaken /\ s.at = "analysed"
              /\ ingest[i].at = "loaded"
  PROVE  \A j \in Ingests : KnowsItsEvidence(j)'
<1>t. /\ TypeOK /\ Bounded /\ RoutesAreOrdered /\ \A j \in Ingests : KnowsItsEvidence(j)
      /\ ingest \in [Ingests -> IngestRecords]
  BY DEF ObservationInv, KnowsItsEvidence, TypeOK, IngestRecords
<1>u. UNCHANGED <<clock, evidence, offer, disordered>> /\ ingest'[i] = s
  BY <1>t DEF Steps
<1>l. LatestOfAll' = LatestOfAll
  BY <1>u DEF LatestOfAll, Latest, InWindow, Qualifies, SchemaValid, Deadline
<1>1. ASSUME NEW j \in Ingests, j # i
      PROVE  KnowsItsEvidence(j)'
  <2>1. ingest'[j] = ingest[j]
    BY <1>t, <1>1 DEF Steps
  <2> QED
    BY <1>t, <1>u, <1>l, <2>1, KnowledgeKeeps
<1>2. KnowsItsEvidence(i)'
  <2>1. CASE s.at # "analysed"
    BY <1>u, <2>1 DEF KnowsItsEvidence, Corroborated, ConflictsAreSeen, ExistenceIsKnown, At
  <2>2. CASE s.at = "analysed"
    <3> DEFINE c == ingest[i].capture
    <3>1. PICK rows \in LatestRows :
              /\ s.signals = Analysis(rows, c) /\ s.capture = c
              /\ s.existing = ingest[i].existing /\ s.overtaken = ingest[i].overtaken
              /\ ingest[i].at = "loaded"
      BY <2>2
    <3> HIDE DEF c
    <3>2. /\ rows \subseteq LatestOfAll
          /\ ~disordered => LatestOfAll \subseteq rows
      BY <1>t, RowsAreNewest
    <3>3. /\ s.signals.corroborated => \E e \in rows : OtherRoute(e, c) /\ Same(e, c)
          /\ (\E e \in rows : OtherRoute(e, c) /\ ~Same(e, c)) => s.signals.conflicted
      BY <3>1 DEF Analysis
    <3>4. Corroborated(i)'
      <4>1. \A e \in LatestOfAll : e \in evidence /\ SchemaValid(e)
        BY <1>t, NewestAre DEF Newest, InWindow, Qualifies
      <4> QED
        BY <1>u, <3>1, <3>2, <3>3, <4>1 DEF Corroborated, SchemaValid, OtherRoute, Same
    <3>5. ~disordered => ConflictsAreSeen(i)'
      BY <1>u, <1>l, <3>1, <3>2, <3>3 DEF ConflictsAreSeen, LatestOfAll, OtherRoute, Same
    <3>6. ExistenceIsKnown(i)'
      <4>1. ~ingest[i].overtaken => ingest[i].existing = offer.exists
        BY <1>t, <3>1 DEF KnowsItsEvidence, ExistenceIsKnown, At
      <4> QED
        BY <1>u, <3>1, <4>1 DEF ExistenceIsKnown
    <3> QED
      BY <1>u, <3>4, <3>5, <3>6 DEF KnowsItsEvidence
  <2> QED
    BY <2>1, <2>2
<1> QED
  BY <1>1, <1>2

LEMMA KnowledgeNext ==
  ASSUME ObservationInv, TypeOK', [Next]_vars
  PROVE  \A i \in Ingests : KnowsItsEvidence(i)'
<1>t. TypeOK /\ \A i \in Ingests : KnowsItsEvidence(i)
  BY DEF ObservationInv, KnowsItsEvidence
<1>1. ASSUME NEW i \in Ingests, NEW c \in Captures, Load(i, c)
      PROVE  \A j \in Ingests : KnowsItsEvidence(j)'
  BY <1>t, <1>1, LoadSteps, KnowledgeSteps
<1>2. ASSUME NEW i \in Ingests, Analyse(i)
      PROVE  \A j \in Ingests : KnowsItsEvidence(j)'
  BY <1>t, <1>2, AnalyseSteps, KnowledgeSteps
<1>3. ASSUME NEW i \in Ingests, Replay(i) \/ Abandon(i)
      PROVE  \A j \in Ingests : KnowsItsEvidence(j)'
  BY <1>3, EndSteps, KnowledgeSteps DEF IdleIngest
<1>4. ASSUME NEW i \in Ingests, Accept(i), NEW j \in Ingests
      PROVE  KnowsItsEvidence(j)'
  <2>1. /\ ingest'[j].at = "idle" \/ ingest'[j].overtaken
        /\ ingest'[j].at # "idle" => /\ ingest'[j].at = ingest[j].at
                                     /\ ingest'[j].capture = ingest[j].capture
                                     /\ ingest'[j].signals = ingest[j].signals
    BY <1>t, <1>4, AcceptOvertakes
  <2>2. evidence \subseteq evidence'
    BY <1>4 DEF Accept
  <2>3. Corroborated(j)'
    BY <1>t, <2>1, <2>2 DEF KnowsItsEvidence, Corroborated, At, SchemaValid, OtherRoute, Same
  <2>4. ConflictsAreSeen(j)' /\ ExistenceIsKnown(j)'
    BY <2>1 DEF ConflictsAreSeen, ExistenceIsKnown, At
  <2> QED
    BY <2>3, <2>4 DEF KnowsItsEvidence
<1>5. CASE DriftDowngrade
  <2>1. offer'.exists = offer.exists
    BY <1>t, <1>5 DEF DriftDowngrade, TypeOK
  <2>2. UNCHANGED <<clock, evidence, ingest, disordered>>
    BY <1>5 DEF DriftDowngrade
  <2>3. LatestOfAll' = LatestOfAll
    BY <2>2 DEF LatestOfAll, Latest, InWindow, Qualifies, SchemaValid, Deadline
  <2> QED
    BY <1>t, <2>1, <2>2, <2>3, KnowledgeKeeps
<1>6. CASE Tick
  <2>1. LatestOfAll' \subseteq LatestOfAll
    BY <1>t, <1>6, NewestFade
  <2> QED
    BY <1>t, <1>6, <2>1, KnowledgeKeeps DEF Tick
<1>7. CASE UNCHANGED vars
  <2>1. LatestOfAll' = LatestOfAll
    BY <1>7 DEF vars, LatestOfAll, Latest, InWindow, Qualifies, SchemaValid, Deadline
  <2> QED
    BY <1>t, <1>7, <2>1, KnowledgeKeeps DEF vars
<1> QED
  BY <1>1, <1>2, <1>3, <1>4, <1>5, <1>6, <1>7 DEF Next

-----------------------------------------------------------------------------
(***************************************************************************)
(* The offer of record.                                                    *)
(***************************************************************************)

\* A step that does not commit a capture leaves the offer alone or marks it as
\* not current.
Dims ==
    /\ evidence' = evidence /\ (disordered' = disordered)
    /\ offer'.exists = offer.exists /\ offer'.value = offer.value /\ offer'.at = offer.at
    /\ offer' = offer \/ offer'.quality \in {"unavailable", "stale", "conflicted"}

LEMMA CommitOrDim ==
  ASSUME TypeOK, [Next]_vars
  PROVE  Dims \/ \E i \in Ingests : Accept(i)
<1>t. offer \in Offers
  BY DEF TypeOK, Offers
<1>1. CASE DriftDowngrade
  <2> DEFINE q == IF offer.gone THEN "unavailable" ELSE "stale"
  <2>1. offer' = [offer EXCEPT !.quality = q] /\ q \in {"unavailable", "stale"}
    BY <1>1 DEF DriftDowngrade
  <2> HIDE DEF q
  <2>2. /\ offer'.quality = q /\ offer'.exists = offer.exists /\ offer'.value = offer.value
        /\ offer'.at = offer.at
    BY <1>t, <2>1 DEF Offers
  <2> QED
    BY <1>1, <2>1, <2>2 DEF Dims, DriftDowngrade
<1>2. CASE UNCHANGED <<evidence, offer, disordered>>
  BY <1>2 DEF Dims
<1> QED
  BY <1>1, <1>2 DEF Next, vars, Load, Analyse, Replay, Abandon, Tick

\* What a commit does to the offer: nothing, a closure, a mark, or the capture
\* of a registered parser.
LEMMA CommitIs ==
  ASSUME TypeOK, NEW i \in Ingests, Accept(i)
  PROVE  LET c == ingest[i].capture
             q == DeriveQuality(c, ingest[i].signals)
         IN  /\ c \in Captures /\ c \notin evidence /\ evidence' = evidence \cup {c}
             /\ \/ /\ offer'.exists = offer.exists /\ offer'.value = offer.value
                   /\ offer'.at = offer.at
                   /\ \/ offer' = offer
                      \/ offer'.quality \in {"unavailable", "stale", "conflicted"}
                \/ /\ offer' = Upserted(c, q) /\ SchemaValid(c) /\ ~c.gone
<1> DEFINE c == ingest[i].capture
           q == DeriveQuality(c, ingest[i].signals)
<1>t. /\ offer \in Offers /\ c \in Captures
  BY DEF TypeOK, Offers
<1>1. c \notin evidence /\ evidence' = evidence \cup {c}
  BY DEF Accept, Claimants
<1>2. offer' = OfferAfter(c, q, ingest[i].existing)
  BY DEF Accept
<1>3. q = "conflicted" => SchemaValid(c)
  BY DEF DeriveQuality, TooOld
<1>4. c.gone \in BOOLEAN
  BY <1>t, CapturesAre
<1> HIDE DEF c, q
<1>5. CASE offer' = offer
  BY <1>t, <1>1, <1>5 DEF c
<1>6. CASE offer' = Closed(c)
  <2>1. /\ offer'.exists = offer.exists /\ offer'.value = offer.value
        /\ offer'.at = offer.at /\ offer'.quality = "unavailable"
    BY <1>t, <1>6 DEF Closed, Offers
  <2> QED
    BY <1>t, <1>1, <2>1 DEF c
<1>7. CASE offer' = MarkedConflicted
  <2>1. /\ offer'.exists = offer.exists /\ offer'.value = offer.value
        /\ offer'.at = offer.at /\ offer'.quality = "conflicted"
    BY <1>t, <1>7 DEF MarkedConflicted, Offers
  <2> QED
    BY <1>t, <1>1, <2>1 DEF c
<1>8. CASE offer' = Upserted(c, q) /\ SchemaValid(c) /\ ~c.gone
  BY <1>t, <1>1, <1>8 DEF c, q
<1>9. \/ offer' = offer \/ offer' = Closed(c) \/ offer' = MarkedConflicted
      \/ offer' = Upserted(c, q) /\ SchemaValid(c) /\ ~c.gone
  BY <1>2, <1>3, <1>4 DEF OfferAfter
<1> QED
  BY <1>5, <1>6, <1>7, <1>8, <1>9

LEMMA RoutesAreOrderedNext ==
  ASSUME ObservationInv, [Next]_vars
  PROVE  RoutesAreOrdered'
<1>t. TypeOK /\ RoutesAreOrdered
  BY DEF ObservationInv
<1>1. CASE Dims
  BY <1>t, <1>1 DEF Dims, RoutesAreOrdered
<1>2. ASSUME NEW i \in Ingests, Accept(i)
      PROVE  RoutesAreOrdered'
  <2> DEFINE c == ingest[i].capture
  <2>1. /\ evidence' = evidence \cup {c} /\ c \in Captures
        /\ ~disordered' => /\ ~disordered
                           /\ \A e \in evidence : ~(e.route = c.route /\ e.at >= c.at)
    BY <1>t, <1>2, CommitIs DEF Accept
  <2>2. c.at \in Nat
    BY <2>1, CapturesAre
  <2> HIDE DEF c
  <2> QED
    BY <1>t, <2>1, <2>2 DEF RoutesAreOrdered
<1> QED
  BY <1>t, <1>1, <1>2, CommitOrDim

LEMMA OfferIsEvidencedNext ==
  ASSUME ObservationInv, [Next]_vars
  PROVE  OfferIsEvidenced'
<1>t. TypeOK /\ OfferIsEvidenced
  BY DEF ObservationInv
<1> DEFINE Attests(e, v) == SchemaValid(e) /\ e.value = v /\ ~e.gone
<1>o. offer.exists =>
         /\ \E e \in evidence : Attests(e, offer.value) /\ e.at = offer.at
         /\ offer.quality = "verified" =>
               \E e, f \in evidence : /\ Attests(e, offer.value) /\ Attests(f, offer.value)
                                      /\ OtherRoute(e, f)
  BY <1>t DEF OfferIsEvidenced
<1>g. ASSUME offer'.exists =>
         /\ \E e \in evidence' : Attests(e, offer'.value) /\ e.at = offer'.at
         /\ offer'.quality = "verified" =>
               \E e, f \in evidence' : /\ Attests(e, offer'.value) /\ Attests(f, offer'.value)
                                       /\ OtherRoute(e, f)
      PROVE  OfferIsEvidenced'
  BY <1>g DEF OfferIsEvidenced, SchemaValid, OtherRoute
<1> HIDE DEF Attests
<1>1. ASSUME evidence \subseteq evidence', offer'.exists = offer.exists,
             offer'.value = offer.value, offer'.at = offer.at,
             offer' = offer \/ offer'.quality \in {"unavailable", "stale", "conflicted"}
      PROVE  OfferIsEvidenced'
  BY <1>o, <1>g, <1>1
<1>2. ASSUME NEW i \in Ingests, Accept(i)
      PROVE  OfferIsEvidenced'
  <2> DEFINE c == ingest[i].capture
             q == DeriveQuality(c, ingest[i].signals)
  <2>1. /\ c \in Captures /\ evidence' = evidence \cup {c}
        /\ \/ /\ offer'.exists = offer.exists /\ offer'.value = offer.value
              /\ offer'.at = offer.at
              /\ \/ offer' = offer
                 \/ offer'.quality \in {"unavailable", "stale", "conflicted"}
           \/ /\ offer' = Upserted(c, q) /\ SchemaValid(c) /\ ~c.gone
    BY <1>t, <1>2, CommitIs
  <2>2. q = "verified" =>
            \E e \in evidence : SchemaValid(e) /\ OtherRoute(e, c) /\ Same(e, c)
    <3>1. q = "verified" => ingest[i].signals.corroborated
      BY DEF DeriveQuality, TooOld
    <3> QED
      BY <1>2, <3>1 DEF ObservationInv, Corroborated, Accept
  <2> HIDE DEF c, q
  <2>3. CASE offer' = Upserted(c, q) /\ SchemaValid(c) /\ ~c.gone
    <3>1. offer'.value = c.value /\ offer'.at = c.at /\ offer'.quality = q
      BY <2>3 DEF Upserted
    <3>2. Attests(c, c.value) /\ c \in evidence'
      BY <2>1, <2>3 DEF Attests
    <3>3. q = "verified" =>
             \E e, f \in evidence' : /\ Attests(e, c.value) /\ Attests(f, c.value)
                                     /\ OtherRoute(e, f)
      BY <2>1, <2>2, <2>3, <3>2 DEF Attests, Same
    <3> QED
      BY <1>g, <3>1, <3>2, <3>3
  <2> QED
    BY <1>1, <2>1, <2>3
<1> QED
  BY <1>1, <1>2, <1>t, CommitOrDim DEF Dims

LEMMA DisagreementIs ==
  Disagreement <=> \E e, f \in LatestOfAll : OtherRoute(e, f) /\ ~Same(e, f)
BY DEF Disagreement, LatestOfAll

LEMMA DisagreementIsNext ==
  Disagreement' <=> \E e, f \in LatestOfAll' : OtherRoute(e, f) /\ ~Same(e, f)
BY DEF Disagreement, LatestOfAll, OtherRoute, Same

\* A capture that was accepted in order, on what was there, becomes current
\* only when no newest row of another route says otherwise: and where two of
\* them differ, one differs from the capture.
LEMMA CommitBlocks ==
  ASSUME ObservationInv, TypeOK', NEW i \in Ingests, Accept(i), ~disordered',
         Current(offer'), Disagreement'
  PROVE  FALSE
<1> DEFINE c == ingest[i].capture
           q == DeriveQuality(c, ingest[i].signals)
<1>t. TypeOK /\ ~disordered /\ ~ingest[i].overtaken /\ At(i, "analysed") /\ clock' = clock
      /\ \A e \in evidence : ~(e.route = c.route /\ e.at >= c.at)
  BY DEF ObservationInv, Accept
<1>k. /\ ConflictsAreSeen(i) /\ ingest[i].existing = offer.exists
      /\ ~(Current(offer) /\ Disagreement)
  BY <1>t DEF ObservationInv, ExistenceIsKnown, At, ConflictBlocks
<1>1. /\ c \in Captures /\ evidence' = evidence \cup {c}
      /\ \/ /\ offer'.exists = offer.exists
            /\ \/ offer' = offer
               \/ offer'.quality \in {"unavailable", "stale", "conflicted"}
         \/ /\ offer' = Upserted(c, q) /\ SchemaValid(c) /\ ~c.gone
  BY <1>t, CommitIs
<1>2. offer' = offer \/ (offer' = Upserted(c, q) /\ SchemaValid(c) /\ ~c.gone)
  BY <1>1 DEF Current, CurrentQualities
<1>5. offer' = OfferAfter(c, q, ingest[i].existing)
  BY DEF Accept
<1> HIDE DEF c
<1>3. /\ ~SchemaValid(c) => LatestOfAll' = LatestOfAll
      /\ SchemaValid(c) =>
            \A e \in LatestOfAll' : e = c \/ (e \in LatestOfAll /\ e.route # c.route)
  BY <1>t, <1>1, NewestAfterAccept
<1>4. CASE ~SchemaValid(c)
  BY <1>k, <1>2, <1>3, <1>4, DisagreementIs, DisagreementIsNext
<1>6. CASE SchemaValid(c)
  <2>1. PICK e \in LatestOfAll', f \in LatestOfAll' : OtherRoute(e, f) /\ ~Same(e, f)
    BY DisagreementIsNext
  <2>2. /\ e = c \/ (e \in LatestOfAll /\ OtherRoute(e, c))
        /\ f = c \/ (f \in LatestOfAll /\ OtherRoute(f, c))
    BY <1>3, <1>6 DEF OtherRoute
  <2>3. \E g \in LatestOfAll : OtherRoute(g, c) /\ ~Same(g, c)
    <3>1. CASE e = c
      BY <2>1, <2>2, <3>1 DEF OtherRoute, Same
    <3>2. CASE f = c
      BY <2>1, <2>2, <3>2 DEF OtherRoute, Same
    <3>3. CASE e # c /\ f # c
      BY <2>1, <2>2, <3>3, SameIs
    <3> QED
      BY <3>1, <3>2, <3>3
  <2>4. ingest[i].signals.conflicted
    BY <1>t, <1>k, <2>3 DEF ConflictsAreSeen, LatestOfAll, c
  <2>5. q \in {"unavailable", "stale", "conflicted"}
    BY <1>6, <2>4 DEF DeriveQuality, TooOld
  <2>6. offer' # offer => FALSE
    <3> HIDE DEF q
    <3> QED
      BY <1>2, <2>5 DEF Upserted, Current, CurrentQualities
  <2>7. offer' = offer => FALSE
    <3> HIDE DEF q
    <3>1. SUFFICES ASSUME offer' = offer PROVE FALSE
      OBVIOUS
    <3>2. offer.exists /\ offer.quality \notin {"unavailable", "stale", "conflicted"}
      BY <3>1 DEF Current, CurrentQualities
    <3>3. offer.exists \in BOOLEAN /\ offer \in Offers /\ c.gone \in BOOLEAN
      BY <1>t, <1>1, CapturesAre DEF TypeOK, Offers
    <3>4. CASE c.gone
      <4>1. offer' = Closed(c)
        BY <1>5, <1>k, <3>2, <3>4 DEF OfferAfter
      <4>2. Closed(c).quality = "unavailable"
        BY <3>3 DEF Closed, Offers
      <4> QED
        BY <3>1, <3>2, <4>1, <4>2
    <3>5. CASE ~c.gone /\ q = "conflicted"
      <4>1. offer' = MarkedConflicted
        BY <1>5, <1>k, <3>2, <3>5 DEF OfferAfter
      <4>2. MarkedConflicted.quality = "conflicted"
        BY <3>3 DEF MarkedConflicted, Offers
      <4> QED
        BY <3>1, <3>2, <4>1, <4>2
    <3>6. CASE ~c.gone /\ q # "conflicted"
      <4>1. offer' = Upserted(c, q)
        BY <1>5, <1>6, <3>6 DEF OfferAfter
      <4> QED
        BY <2>5, <3>1, <3>2, <4>1 DEF Upserted
    <3> QED
      BY <3>3, <3>4, <3>5, <3>6
  <2> QED
    BY <2>6, <2>7
<1> QED
  BY <1>4, <1>6

LEMMA ConflictBlocksNext ==
  ASSUME ObservationInv, TypeOK', [Next]_vars
  PROVE  ConflictBlocks'
<1>t. TypeOK /\ ConflictBlocks
  BY DEF ObservationInv
<1> SUFFICES ASSUME ~disordered', Current(offer'), Disagreement' PROVE FALSE
  BY DEF ConflictBlocks, Current, CurrentQualities
<1>1. CASE Dims
  <2>1. offer' = offer /\ ~disordered /\ evidence' = evidence
    BY <1>1 DEF Dims, Current, CurrentQualities
  <2>2. LatestOfAll' \subseteq LatestOfAll
    <3>1. CASE Tick
      BY <1>t, <3>1, NewestFade
    <3>2. CASE clock' = clock
      BY <2>1, <3>2 DEF LatestOfAll, Latest, InWindow, Qualifies, SchemaValid, Deadline
    <3>3. Tick \/ clock' = clock
      BY DEF Next, vars, Load, Analyse, Replay, Accept, Abandon, DriftDowngrade
    <3> QED
      BY <3>1, <3>2, <3>3
  <2>3. Disagreement
    BY <2>2, DisagreementIs, DisagreementIsNext
  <2> QED
    BY <1>t, <2>1, <2>3 DEF ConflictBlocks
<1>2. ASSUME NEW i \in Ingests, Accept(i) PROVE FALSE
  BY <1>2, CommitBlocks
<1> QED
  BY <1>t, <1>1, <1>2, CommitOrDim

-----------------------------------------------------------------------------
(***************************************************************************)
(* The theorems.                                                           *)
(***************************************************************************)

LEMMA ObservationInit == Init => ObservationInv
<1> SUFFICES ASSUME Init PROVE ObservationInv
  OBVIOUS
<1>1. TypeOK /\ Bounded
  <2>1. Cardinality({}) = 0 /\ IsFiniteSet({})
    BY FS_EmptySet
  <2>2. NoOffer \in Offers /\ 0 \in Instants
    BY ObservationBounds DEF NoOffer, Offers, Qualities, Instants
  <2>3. ingest \in [Ingests -> IngestRecords]
    BY IdleTyped DEF Init
  <2>4. Cardinality(evidence) <= MaxEvidence /\ Bounded
    BY <2>1, ObservationBounds DEF Init, Bounded
  <2> QED
    BY <2>2, <2>3, <2>4 DEF Init, TypeOK, Offers, IngestRecords
<1>2. RoutesAreOrdered
  BY DEF Init, RoutesAreOrdered
<1>3. OfferIsEvidenced /\ ConflictBlocks
  BY DEF Init, OfferIsEvidenced, ConflictBlocks, NoOffer, Current
<1>4. \A i \in Ingests : At(i, "idle") /\ ~At(i, "analysed")
  BY DEF Init, IdleIngest, At
<1> QED
  BY <1>1, <1>2, <1>3, <1>4 DEF ObservationInv, Corroborated, ConflictsAreSeen, ExistenceIsKnown

LEMMA ObservationNext == ObservationInv /\ [Next]_vars => ObservationInv'
<1> SUFFICES ASSUME ObservationInv, [Next]_vars PROVE ObservationInv'
  OBVIOUS
<1>1. TypeOK' /\ Bounded'
  BY TypeNext DEF ObservationInv
<1>2. \A i \in Ingests : KnowsItsEvidence(i)'
  BY <1>1, KnowledgeNext
<1> QED
  BY <1>1, <1>2, RoutesAreOrderedNext, OfferIsEvidencedNext, ConflictBlocksNext
     DEF ObservationInv, KnowsItsEvidence

\* Ingests that load, analyse and write in any order, as rows leave the window and
\* drifted pages downgrade the offer: every part of the invariant holds.
THEOREM ObservationInvariant == Spec => []ObservationInv
BY ObservationInit, ObservationNext, PTL DEF Spec

\* Every variable of the observation engine keeps its type.
THEOREM ObservationTypeCorrect == Spec => []TypeOK
<1>1. ObservationInv => TypeOK
  BY DEF ObservationInv
<1> QED
  BY <1>1, ObservationInvariant, PTL

\* Ingest: whatever the ingests of one offer overlap, read and replay, its price
\* was attested by a registered parser, and a verified one by two routes.
THEOREM OfferRestsOnEvidence == Spec => []OfferIsEvidenced
<1>1. ObservationInv => OfferIsEvidenced
  BY DEF ObservationInv
<1> QED
  BY <1>1, ObservationInvariant, PTL

\* analyzeRoutes and DeriveQuality: as long as ingests neither overlap nor
\* arrive out of order, an offer whose newest rows disagree does not read as
\* current, however many routes there are and as rows leave the window.
THEOREM DisagreementBlocks == Spec => []ConflictBlocks
<1>1. ObservationInv => ConflictBlocks
  BY DEF ObservationInv
<1> QED
  BY <1>1, ObservationInvariant, PTL

\* updateCurrentOffer: nothing but accepting a new capture of a registered parser,
\* inside its deadline and contradicted by no other route, makes an offer current
\* that was not, and then the offer has the value of the capture.
THEOREM OnlyEvidenceLiftsABlock == Spec => BlockIsLiftedByEvidence
<1> DEFINE Lifts(i) ==
              LET c == ingest[i].capture
                  s == ingest[i].signals
              IN  /\ At(i, "analysed") /\ c \in evidence' \ evidence
                  /\ SchemaValid(c) /\ ~c.gone /\ s.fresh /\ ~s.conflicted
                  /\ c.value = offer'.value /\ c.at = offer'.at
           Lifted == ~Current(offer) /\ Current(offer') => \E i \in Ingests : Lifts(i)
<1>1. TypeOK /\ [Next]_vars => [Lifted]_vars
  <2> SUFFICES ASSUME TypeOK, [Next]_vars, ~Current(offer), Current(offer')
               PROVE  \E i \in Ingests : Lifts(i)
    OBVIOUS
  <2>1. ~Dims
    BY DEF Dims, Current, CurrentQualities
  <2>2. PICK i \in Ingests : Accept(i)
    BY <2>1, CommitOrDim
  <2> DEFINE c == ingest[i].capture
             s == ingest[i].signals
             q == DeriveQuality(c, s)
  <2>3. /\ At(i, "analysed") /\ c \in evidence' \ evidence
        /\ offer' = Upserted(c, q) /\ SchemaValid(c) /\ ~c.gone
    BY <2>2, CommitIs DEF Accept, Current, CurrentQualities
  <2>4. q \in CurrentQualities
    BY <2>3 DEF Upserted, Current
  <2>5. s.fresh /\ ~s.conflicted
    BY <2>3, <2>4 DEF DeriveQuality, TooOld, CurrentQualities
  <2> HIDE DEF c, q, s
  <2>6. c.value = offer'.value /\ c.at = offer'.at
    BY <2>3 DEF Upserted
  <2> QED
    BY <2>3, <2>5, <2>6 DEF c, s
<1>2. Spec => [][Lifted]_vars
  BY <1>1, ObservationTypeCorrect, PTL DEF Spec
<1> QED
  BY <1>2 DEF BlockIsLiftedByEvidence

-----------------------------------------------------------------------------
(***************************************************************************)
(* The event producer.  Its inductive invariant.                           *)
(***************************************************************************)
Concluded(tr) == tr \in ledger \cup unread

Covered(s, n) ==
    \A tr \in Adjacent(s, Timely(s)) : tr.curr <= n /\ Material(tr) => Concluded(tr)

\* What a pass, a mark or a cursor refers to has been observed and drained.
LogIsKnown ==
    /\ \A s \in Streams :
          cursor[s] \in Timely(s) \cup {0} /\ drained[s] \in Timely(s) \cup {0}
    /\ \A p \in Passes : \A tr \in run[p].todo : tr.curr \in Timely(tr.stream)

\* A notification stands for a movement that was claimed.
IntentsAreClaimed == \A i \in DOMAIN intents : intents[i] \in ledger

OnePass == \A p, q \in Passes : run[p].at # "idle" /\ run[q].at # "idle" => p = q

\* Nobody moves a cursor between the two statements of a lone drain.
AnchorIsCursor ==
    \A p \in Passes : run[p].at = "drain" => run[p].anchor = cursor

\* A lone pass that records: its list is within the drained pages, and every
\* material movement of a page whose stream is not blocked is concluded or on
\* the list.
ListIsDrained(p) == \A tr \in run[p].todo : tr.curr <= drained[tr.stream]
PageIsCovered(p) ==
    \A s \in Streams : s \notin run[p].blocked =>
        \A tr \in Adjacent(s, Timely(s)) :
            tr.curr <= drained[s] /\ Material(tr) => Concluded(tr) \/ tr \in run[p].todo

LonePass ==
    /\ OnePass
    /\ AnchorIsCursor
    /\ \A p \in Passes :
          run[p].at = "record" => ListIsDrained(p) /\ PageIsCovered(p)
    /\ \A s \in Streams : Covered(s, cursor[s])

EventInv ==
    /\ EventTypeOK
    /\ LogIsKnown
    /\ IntentsAreClaimed
    /\ EveryEventIsAnnouncedOnce
    /\ overlapped \/ LonePass

-----------------------------------------------------------------------------
(***************************************************************************)
(* What the steps of a pass do.                                            *)
(***************************************************************************)
PassRecords == [at : {"idle", "cursors", "drain", "record", "advance"},
                anchor : [Streams -> Positions],
                todo : SUBSET Transitions,
                blocked : SUBSET Streams, materialized : SUBSET Keys]

\* A pass concludes the first movement of its list.
Concludes(p, tr) ==
    \/ Clear(p, tr) \/ Defer(p, tr) \/ Record(p, tr)
    \/ ThresholdUnread(p, tr) \/ RecordFails(p, tr)

LEMMA EventSteps ==
  ASSUME [EventNext]_eventVars
  PROVE  \/ UNCHANGED eventVars
         \/ \E s \in Streams, i \in Times, v \in Prices : Observe(s, i, v)
         \/ \E p \in Passes : \/ Begin(p) \/ ReadCursors(p) \/ Drain(p)
                              \/ Advance(p) \/ CutOff(p)
         \/ \E p \in Passes : \E tr \in run[p].todo : Concludes(p, tr)
  BY DEF EventNext, Step, Concludes

LEMMA PassType ==
  ASSUME EventTypeOK, NEW p \in Passes
  PROVE  /\ run[p] \in PassRecords
         /\ run[p].anchor \in [Streams -> Positions]
         /\ run[p].todo \subseteq Transitions
         /\ run[p].blocked \subseteq Streams
         /\ run[p].materialized \subseteq Keys
  BY DEF EventTypeOK, PassRecords

LEMMA TransitionType ==
  ASSUME NEW tr \in Transitions
  PROVE  /\ tr.stream \in Streams /\ DedupKey(tr.stream) \in Keys
         /\ tr.prev \in Positions /\ tr.curr \in Positions
         /\ tr.prev \in Nat \ {0} /\ tr.curr \in Nat \ {0}
  BY EventBounds DEF Transitions, Times, Positions, Keys

\* What the conclusion of a movement does to its pass, the books and its cursor.
LEMMA ConcludeEffect ==
  ASSUME EventTypeOK, NEW p \in Passes, NEW tr \in run[p].todo,
         Concludes(p, tr)
  PROVE  /\ IsHead(p, tr) /\ tr \in Transitions
         /\ run' = [run EXCEPT ![p] = run'[p]] /\ run'[p] \in PassRecords
         /\ run'[p].at = "record" /\ run'[p].anchor = run[p].anchor
         /\ run'[p].todo = run[p].todo \ {tr}
         /\ \/ run'[p].blocked = run[p].blocked
            \/ run'[p].blocked = run[p].blocked \cup {tr.stream}
         /\ UNCHANGED <<observed, swept, drained, late, overlapped>>
         /\ ledger \subseteq ledger' /\ unread \subseteq unread'
         /\ Material(tr) =>
               tr \in ledger' \cup unread' \/ tr.stream \in run'[p].blocked
         /\ \/ cursor' = cursor
            \/ /\ cursor' = CursorAt(tr.stream, tr.curr)
               /\ tr \in ledger' /\ tr.stream \notin run[p].blocked
<1>1. run[p] \in PassRecords /\ tr \in Transitions /\ tr.stream \in Streams
      /\ DedupKey(tr.stream) \in Keys
  BY PassType, TransitionType
<1>2. ASSUME NEW r \in PassRecords, Proceed(p, tr, r)
      PROVE  /\ run' = [run EXCEPT ![p] = run'[p]] /\ run'[p] \in PassRecords
             /\ run'[p].at = r.at /\ run'[p].anchor = r.anchor
             /\ run'[p].todo = r.todo \ {tr} /\ run'[p].blocked = r.blocked
  BY <1>2 DEF Proceed, EventTypeOK, PassRecords
<1> DEFINE Marks == [run[p] EXCEPT !.materialized = @ \cup {DedupKey(tr.stream)}]
           Blocks == [run[p] EXCEPT !.blocked = @ \cup {tr.stream}]
<1>3. /\ Marks \in PassRecords /\ Marks.at = run[p].at /\ Marks.anchor = run[p].anchor
      /\ Marks.todo = run[p].todo /\ Marks.blocked = run[p].blocked
  BY <1>1 DEF PassRecords
<1>4. /\ Blocks \in PassRecords /\ Blocks.at = run[p].at /\ Blocks.anchor = run[p].anchor
      /\ Blocks.todo = run[p].todo /\ Blocks.blocked = run[p].blocked \cup {tr.stream}
  BY <1>1 DEF PassRecords
<1>5. CASE Clear(p, tr)
  BY <1>1, <1>2, <1>5 DEF Clear, IsHead
<1>6. CASE Defer(p, tr)
  BY <1>1, <1>2, <1>6 DEF Defer, IsHead, Blocked
<1>7. CASE ThresholdUnread(p, tr)
  BY <1>1, <1>2, <1>7 DEF ThresholdUnread, IsHead
<1>8. CASE RecordFails(p, tr)
  <2>1. Proceed(p, tr, Blocks)
    BY <1>8 DEF RecordFails
  <2> HIDE DEF Blocks
  <2>2. run'[p].blocked = run[p].blocked \cup {tr.stream}
    BY <1>2, <1>4, <2>1
  <2> QED
    BY <1>1, <1>2, <1>4, <1>8, <2>1, <2>2 DEF RecordFails, IsHead
<1>9. CASE Record(p, tr)
  <2>1. \E r \in {run[p], Marks, Blocks} : Proceed(p, tr, r)
    BY <1>9 DEF Record
  <2>2. IsHead(p, tr) /\ run[p].at = "record" /\ tr.stream \notin run[p].blocked
    BY <1>9 DEF Record, IsHead, Blocked
  <2>3. /\ ledger' = ledger \cup {tr} /\ cursor' = CursorAt(tr.stream, tr.curr)
        /\ UNCHANGED <<observed, swept, drained, unread, late, overlapped>>
    BY <1>9 DEF Record, Ingest
  <2> HIDE DEF Marks, Blocks
  <2> QED
    BY <1>1, <1>2, <1>3, <1>4, <2>1, <2>2, <2>3
<1> QED
  BY <1>5, <1>6, <1>7, <1>8, <1>9 DEF Concludes

\* The instants, and the pairs of adjacent rows among them.
LEMMA TimesAre ==
  /\ \A i \in Times : i \in Nat /\ i \in Int /\ i > 0 /\ i \in Positions
  /\ \A i \in Positions : i \in Int /\ (i = 0 \/ i \in Times)
  /\ 0 \in Positions /\ IsFiniteSet(Times)
<1>1. IsFiniteSet(1 .. MaxInstant)
  BY EventBounds, FS_Interval
<1> QED
  BY <1>1, EventBounds DEF Times, Positions

LEMMA RowsAre ==
  ASSUME NEW s \in Streams
  PROVE  /\ Held(s) \subseteq Times /\ Timely(s) \subseteq Held(s)
         /\ Unconsumed(s) \subseteq Held(s) /\ Page(s) \subseteq Unconsumed(s)
  BY DEF Held, Timely, Unconsumed, Page

LEMMA AdjacentAre ==
  ASSUME NEW s, NEW rows, NEW tr
  PROVE  tr \in Adjacent(s, rows) <=>
            /\ tr = [stream |-> s, prev |-> tr.prev, curr |-> tr.curr]
            /\ tr.stream = s /\ tr.prev \in rows /\ tr.curr \in rows
            /\ tr.prev < tr.curr /\ \A i \in rows : i <= tr.prev \/ tr.curr <= i
  BY DEF Adjacent

\* What was observed stays, and only an observation ahead of the cursor and of
\* the marks under way is one more row to be drained in time.
LEMMA ObserveGrows ==
  ASSUME EventTypeOK, NEW s \in Streams, NEW i \in Times, NEW v \in Prices,
         Observe(s, i, v)
  PROVE  /\ observed' \in [Streams -> [Times -> Prices \cup {Absent}]]
         /\ late' \in [Streams -> SUBSET Times]
         /\ \A q \in Streams :
               /\ \A j \in Held(q) : observed'[q][j] = observed[q][j]
               /\ Timely(q) \subseteq Timely(q)'
               /\ \A j \in Timely(q)' \ Timely(q) : q = s /\ j = i /\ ~Behind(s, i)
<1>1. /\ observed \in [Streams -> [Times -> Prices \cup {Absent}]]
      /\ late \in [Streams -> SUBSET Times]
  BY DEF EventTypeOK
<1>2. /\ observed' = [observed EXCEPT ![s] = [observed[s] EXCEPT ![i] = v]] /\ i \notin Held(s)
      /\ late' = IF Behind(s, i) THEN [late EXCEPT ![s] = late[s] \cup {i}] ELSE late
  BY DEF Observe
<1>3. /\ observed' \in [Streams -> [Times -> Prices \cup {Absent}]]
      /\ late' \in [Streams -> SUBSET Times]
  BY <1>1, <1>2
<1>4. ASSUME NEW q \in Streams
      PROVE  /\ \A j \in Held(q) : observed'[q][j] = observed[q][j]
             /\ Timely(q) \subseteq Timely(q)'
             /\ \A j \in Timely(q)' \ Timely(q) : q = s /\ j = i /\ ~Behind(s, i)
  <2>1. \A j \in Times : observed'[q][j] = IF q = s /\ j = i THEN v ELSE observed[q][j]
    BY <1>1, <1>2
  <2>2. late'[q] = IF q = s /\ Behind(s, i) THEN late[s] \cup {i} ELSE late[q]
    BY <1>1, <1>2
  <2>3. Timely(q) = {j \in Times : observed[q][j] # Absent /\ j \notin late[q]}
    BY DEF Timely, Held
  <2>4. Timely(q)' = {j \in Times : observed'[q][j] # Absent /\ j \notin late'[q]}
    BY DEF Timely, Held
  <2>5. v # Absent /\ observed[s][i] = Absent
    BY <1>2, EventBounds DEF Absent, Held
  <2>6. \A j \in Held(q) : observed'[q][j] = observed[q][j]
    BY <2>1, <2>5 DEF Held
  <2>7. Timely(q) \subseteq Timely(q)'
    BY <2>1, <2>2, <2>3, <2>4, <2>5
  <2>8. \A j \in Timely(q)' \ Timely(q) : q = s /\ j = i /\ ~Behind(s, i)
    BY <2>1, <2>2, <2>3, <2>4
  <2> QED
    BY <2>6, <2>7, <2>8
<1> QED
  BY <1>3, <1>4

\* So the movements behind a cursor, or behind a mark under way, stay what they
\* are.
LEMMA ObserveKeepsAdjacent ==
  ASSUME EventTypeOK, NEW s \in Streams, NEW i \in Times, NEW v \in Prices,
         Observe(s, i, v),
         NEW q \in Streams, NEW n \in Positions, q = s => Behind(s, i) \/ i > n,
         NEW tr, tr \in Adjacent(q, Timely(q)'), tr.curr <= n
  PROVE  tr \in Adjacent(q, Timely(q)) /\ (Material(tr)' <=> Material(tr))
<1>1. /\ Timely(q) \subseteq Timely(q)'
      /\ \A j \in Timely(q)' \ Timely(q) : j > n
      /\ \A j \in Held(q) : observed'[q][j] = observed[q][j]
  BY ObserveGrows
<1>2. /\ tr = [stream |-> q, prev |-> tr.prev, curr |-> tr.curr]
      /\ tr.stream = q /\ tr.prev \in Timely(q)' /\ tr.curr \in Timely(q)'
      /\ tr.prev < tr.curr /\ \A j \in Timely(q)' : j <= tr.prev \/ tr.curr <= j
  BY AdjacentAre
<1>3. Timely(q)' \subseteq Times
  BY DEF Timely, Held
<1>4. tr.prev \in Int /\ tr.curr \in Int /\ n \in Int
  BY <1>2, <1>3, TimesAre
<1>5. tr.prev \in Timely(q) /\ tr.curr \in Timely(q)
  BY <1>1, <1>2, <1>4
<1>6. tr \in Adjacent(q, Timely(q))
  BY <1>1, <1>2, <1>5, AdjacentAre
<1>7. observed'[q][tr.prev] = observed[q][tr.prev] /\ observed'[q][tr.curr] = observed[q][tr.curr]
  BY <1>1, <1>5, RowsAre
<1> QED
  BY <1>2, <1>6, <1>7 DEF Material

\* A material movement is a change of value.
LEMMA MaterialMoves ==
  ASSUME EventTypeOK, NEW tr \in Transitions,
         tr.prev \in Held(tr.stream), tr.curr \in Held(tr.stream), Material(tr)
  PROVE  observed[tr.stream][tr.prev] # observed[tr.stream][tr.curr]
<1> DEFINE before == observed[tr.stream][tr.prev]
           after == observed[tr.stream][tr.curr]
<1>1. before \in Nat /\ after \in Nat /\ MoveBp \in Int
  <2>1. tr.stream \in Streams
    BY DEF Transitions
  <2>2. before \in Prices /\ after \in Prices
    BY <2>1 DEF EventTypeOK, Held
  <2> QED
    BY <2>2, EventBounds
<1>2. before > 0 /\ MoveBp > 0 /\ MovementBasisPoints(before, after) >= MoveBp
  BY DEF Material
<1> HIDE DEF before, after
<1>3. SUFFICES ASSUME before = after PROVE FALSE
  BY DEF before, after
<1>4. Difference(before, after) = 0
  BY <1>1, <1>3 DEF Difference
<1>5. MovementBasisPoints(before, after) = 0
  BY <1>1, <1>2, <1>4 DEF MovementBasisPoints
<1> QED
  BY <1>1, <1>2, <1>5

EventRecords == [state : LiveStates \cup {"none", "resolved", "expired"},
                 at : Positions, number : Nat]

\* The record of an event that a transition opens.
OpenedBy(tr) == [state |-> "open", at |-> tr.curr,
                 number |-> event[DedupKey(tr.stream)].number + 1]

\* The record of a key changes, and keeps its number.
LEMMA EventRewritten ==
  ASSUME event \in [Keys -> EventRecords], NEW k \in Keys, NEW r \in EventRecords,
         r.number = event[k].number, event' = [event EXCEPT ![k] = r]
  PROVE  /\ event' \in [Keys -> EventRecords]
         /\ \A q \in Keys : event'[q].number = event[q].number
<1>1. \A q \in Keys : event'[q] = IF q = k THEN r ELSE event[q]
  OBVIOUS
<1> QED
  BY <1>1

\* What a concluded movement leaves in the books: an event is opened with its
\* notification, or neither the events' numbers nor the notifications move.
LEMMA ConcludeBooks ==
  ASSUME EventTypeOK, NEW p \in Passes, NEW tr \in run[p].todo,
         Concludes(p, tr)
  PROVE  /\ event' \in [Keys -> EventRecords]
         /\ cursor' \in [Streams -> Positions]
         /\ ledger' \subseteq Transitions /\ unread' \subseteq Transitions
         /\ failures' \in 0 .. MaxFailures
         /\ \/ /\ intents' = intents
               /\ \A k \in Keys : event'[k].number = event[k].number
            \/ /\ tr \notin ledger /\ tr \in ledger'
               /\ intents' = Append(intents, tr)
               /\ event' = [event EXCEPT ![DedupKey(tr.stream)] = OpenedBy(tr)]
<1> DEFINE k == DedupKey(tr.stream)
           Kept == /\ event' \in [Keys -> EventRecords]
                   /\ \A q \in Keys : event'[q].number = event[q].number
<1>1. /\ tr \in Transitions /\ tr.stream \in Streams /\ k \in Keys
      /\ tr.curr \in Positions
  BY PassType, TransitionType
<1>2. /\ event \in [Keys -> EventRecords] /\ ledger \subseteq Transitions
      /\ unread \subseteq Transitions /\ failures \in 0 .. MaxFailures
      /\ cursor \in [Streams -> Positions] /\ MaxFailures \in Nat
  BY EventBounds DEF EventTypeOK, EventRecords
<1>3. Fails => failures' \in 0 .. MaxFailures
  BY <1>2 DEF Fails
<1>4. event' = event => Kept
  BY <1>2
<1>5. event[k] \in EventRecords /\ event[k].number \in Nat
  BY <1>1, <1>2 DEF EventRecords
<1>6. CASE Clear(p, tr)
  <2>1. event' = Resolved(k) => Kept
    <3> DEFINE r == [event[k] EXCEPT !.state = IF Live(k) THEN "resolved" ELSE @]
    <3>1. r \in EventRecords /\ r.number = event[k].number
      BY <1>5 DEF EventRecords
    <3>2. Resolved(k) = [event EXCEPT ![k] = r]
      BY DEF Resolved
    <3> HIDE DEF r, k
    <3> QED
      BY <1>1, <1>2, <3>1, <3>2, EventRewritten
  <2>2. event' = event \/ event' = Resolved(k)
    BY <1>6 DEF Clear
  <2>3. Kept
    BY <1>4, <2>1, <2>2
  <2> HIDE DEF Kept
  <2>4. failures' = failures \/ Fails
    BY <1>6 DEF Clear
  <2>5. UNCHANGED <<cursor, ledger, intents, unread>>
    BY <1>6 DEF Clear
  <2> QED
    BY <1>2, <1>3, <2>3, <2>4, <2>5 DEF Kept
<1>7. CASE Defer(p, tr) \/ ThresholdUnread(p, tr) \/ RecordFails(p, tr)
  <2>1. UNCHANGED <<cursor, event, ledger, intents>>
    BY <1>7 DEF Defer, ThresholdUnread, RecordFails
  <2>2. failures' = failures \/ Fails
    BY <1>7 DEF Defer, ThresholdUnread, RecordFails
  <2>3. unread' = unread \/ unread' = unread \cup {tr}
    BY <1>7 DEF Defer, ThresholdUnread, RecordFails
  <2> QED
    BY <1>1, <1>2, <1>3, <1>4, <2>1, <2>2, <2>3
<1>8. CASE Record(p, tr)
  <2>1. /\ ledger' = ledger \cup {tr} /\ cursor' = CursorAt(tr.stream, tr.curr)
        /\ unread' = unread /\ (failures' = failures \/ Fails)
    BY <1>8 DEF Record, Ingest
  <2>2. cursor' \in [Streams -> Positions]
    BY <1>1, <1>2, <2>1 DEF CursorAt, Later
  <2>3. CASE tr \in ledger
    <3>1. UNCHANGED <<event, intents>>
      BY <1>8, <2>3 DEF Record, Ingest, Claimed
    <3> QED
      BY <1>1, <1>2, <1>3, <1>4, <2>1, <2>2, <3>1
  <2>4. CASE tr \notin ledger
    <3>1. /\ event' = Recorded(tr)
          /\ intents' = IF Opens(tr) THEN Append(intents, tr) ELSE intents
      BY <1>8, <2>4 DEF Record, Ingest, Claimed
    <3>2. CASE Opens(tr)
      <4>1. event' = [event EXCEPT ![k] = OpenedBy(tr)]
        <5>1. event' = [event EXCEPT ![k] = [state |-> "open", at |-> tr.curr,
                                             number |-> @.number + 1]]
          BY <3>1, <3>2 DEF Recorded, Opens
        <5> QED
          BY <1>1, <1>2, <5>1 DEF OpenedBy
      <4>2. OpenedBy(tr) \in EventRecords
        BY <1>1, <1>5 DEF OpenedBy, EventRecords, LiveStates
      <4>3. event' \in [Keys -> EventRecords]
        BY <1>2, <4>1, <4>2
      <4> QED
        BY <1>1, <1>2, <1>3, <2>1, <2>2, <2>4, <3>1, <3>2, <4>1, <4>3
    <3>3. CASE ~Opens(tr)
      <4>1. \/ event' = event
            \/ event' = [event EXCEPT ![k].state = "updated", ![k].at = tr.curr]
        BY <3>1, <3>3 DEF Recorded, Opens
      <4>2. event' = [event EXCEPT ![k].state = "updated", ![k].at = tr.curr] => Kept
        <5> DEFINE r == [event[k] EXCEPT !.state = "updated", !.at = tr.curr]
        <5>1. r \in EventRecords /\ r.number = event[k].number
          BY <1>1, <1>5 DEF EventRecords, LiveStates
        <5>2. [event EXCEPT ![k].state = "updated", ![k].at = tr.curr] = [event EXCEPT ![k] = r]
          BY <1>1, <1>2
        <5> HIDE DEF r, k
        <5> QED
          BY <1>1, <1>2, <5>1, <5>2, EventRewritten
      <4>3. Kept
        BY <1>4, <4>1, <4>2
      <4> QED
        BY <1>1, <1>2, <1>3, <2>1, <2>2, <3>1, <3>3, <4>3
    <3> QED
      BY <3>2, <3>3
  <2> QED
    BY <2>3, <2>4
<1> QED
  BY <1>6, <1>7, <1>8 DEF Concludes

\* A page holds the oldest rows that the cursor has not passed.
LEMMA PageIsInitial ==
  ASSUME EventTypeOK, NEW s \in Streams, NEW i \in Page(s), NEW j \in Unconsumed(s), j <= i
  PROVE  j \in Page(s)
<1> DEFINE Older(k) == {n \in Unconsumed(s) : n < k}
<1>1. Unconsumed(s) \subseteq Times /\ i \in Unconsumed(s)
  BY RowsAre
<1>2. i \in Int /\ j \in Int /\ \A n \in Unconsumed(s) : n \in Int
  BY <1>1, TimesAre
<1>3. Older(j) \subseteq Older(i) /\ Older(i) \subseteq Times
  <2>1. \A n \in Unconsumed(s) : n < j => n < i
    BY <1>2
  <2> QED
    BY <1>1, <2>1
<1>4. IsFiniteSet(Older(i)) /\ IsFiniteSet(Older(j))
  BY <1>3, TimesAre, FS_Subset
<1>5. Cardinality(Older(j)) <= Cardinality(Older(i))
  BY <1>3, <1>4, FS_Subset
<1>6. Cardinality(Older(j)) \in Nat /\ Cardinality(Older(i)) \in Nat /\ PageLimit \in Nat
  BY <1>4, FS_CardinalityType, EventBounds
<1>7. Cardinality(Older(i)) < PageLimit
  BY DEF Page
<1> HIDE DEF Older
<1>8. Cardinality(Older(j)) < PageLimit
  BY <1>5, <1>6, <1>7
<1> QED
  BY <1>8 DEF Page, Older

LEMMA MovementIsInPage ==
  ASSUME EventTypeOK, NEW s \in Streams, NEW anchor, NEW tr \in Movements(s, anchor)
  PROVE  tr \in Transitions /\ tr.stream = s /\ tr.curr \in Page(s)
<1>1. tr \in [stream : {s}, prev : Times, curr : Page(s)] /\ Page(s) \subseteq Times
  BY RowsAre DEF Movements
<1> QED
  BY <1>1 DEF Transitions

LEMMA DrainEffect ==
  ASSUME EventTypeOK, NEW p \in Passes, Drain(p)
  PROVE  /\ run' = [run EXCEPT ![p] = run'[p]] /\ run'[p] \in PassRecords
         /\ run[p].at = "drain" /\ run'[p].at = "record"
         /\ run'[p].todo = UNION {Movements(s, run[p].anchor[s]) : s \in Streams}
         /\ drained' \in [Streams -> Positions]
         /\ late' \in [Streams -> SUBSET Times]
         /\ \A s \in Streams : /\ IsHighWater(s, drained'[s])
                               /\ Timely(s)' = Timely(s) \cup Page(s)
         /\ \A tr \in run'[p].todo : /\ tr.stream \in Streams
                                     /\ tr.curr \in Page(tr.stream)
         /\ UNCHANGED <<observed, cursor, event, ledger, intents, swept, unread,
                        overlapped, failures>>
<1> DEFINE list == UNION {Movements(s, run[p].anchor[s]) : s \in Streams}
<1>1. run[p] \in PassRecords
  BY PassType
<1>2. \A tr \in list : /\ tr \in Transitions /\ tr.stream \in Streams
                       /\ tr.curr \in Page(tr.stream)
  BY MovementIsInPage
<1>3. /\ run[p].at = "drain"
      /\ drained' \in [Streams -> Positions] /\ \A s \in Streams : IsHighWater(s, drained'[s])
      /\ run' = [run EXCEPT ![p].at = "record", ![p].todo = list]
      /\ late' = [s \in Streams |-> late[s] \ Page(s)]
      /\ UNCHANGED <<observed, cursor, event, ledger, intents, swept, unread,
                     overlapped, failures>>
  BY DEF Drain
<1> HIDE DEF list
<1>4. /\ run' = [run EXCEPT ![p] = run'[p]] /\ run'[p].at = "record"
      /\ run'[p].todo = list
      /\ run'[p] = [run[p] EXCEPT !.at = "record", !.todo = list]
  BY <1>1, <1>3 DEF EventTypeOK, PassRecords
<1>5. list \subseteq Transitions
  BY <1>2
<1>6. run'[p] \in PassRecords
  BY <1>1, <1>4, <1>5 DEF PassRecords
<1>7. late' \in [Streams -> SUBSET Times]
  BY <1>3 DEF EventTypeOK
<1>8. ASSUME NEW s \in Streams PROVE Timely(s)' = Timely(s) \cup Page(s)
  <2>1. late'[s] = late[s] \ Page(s) /\ Page(s) \subseteq Held(s) /\ Held(s)' = Held(s)
    BY <1>3, RowsAre DEF Held
  <2> QED
    BY <2>1 DEF Timely
<1> QED
  BY <1>2, <1>3, <1>4, <1>6, <1>7, <1>8 DEF list

\* A pass that has not begun, or is over.
LEMMA IdleRunType ==
  /\ IdleRun \in PassRecords /\ IdleRun.at = "idle"
  /\ IdleRun.todo = {}
  /\ [IdleRun EXCEPT !.at = "cursors"] \in PassRecords
  /\ [IdleRun EXCEPT !.at = "cursors"].at = "cursors"
  /\ [IdleRun EXCEPT !.at = "cursors"].todo = {}
<1>1. 0 \in Positions
  BY EventBounds DEF Positions
<1>2. [s \in Streams |-> 0] \in [Streams -> Positions]
  BY <1>1
<1> QED
  BY <1>2 DEF IdleRun, PassRecords

\* The steps that begin a pass, read the cursors, or end it.
LEMMA BeginEffect ==
  ASSUME EventTypeOK, NEW p \in Passes, Begin(p)
  PROVE  /\ run[p].at = "idle"
         /\ run' = [run EXCEPT ![p] = [IdleRun EXCEPT !.at = "cursors"]]
         /\ overlapped' = (overlapped \/ \E q \in Passes : run[q].at # "idle")
         /\ event' \in [Keys -> EventRecords]
         /\ \A k \in Keys : event'[k].number = event[k].number
         /\ swept' \in Positions /\ failures' \in 0 .. MaxFailures
         /\ UNCHANGED <<observed, cursor, ledger, intents, drained, unread, late>>
<1>1. /\ event \in [Keys -> EventRecords] /\ swept \in Positions
      /\ failures \in 0 .. MaxFailures /\ MaxFailures \in Nat /\ MaxInstant \in Nat
  BY EventBounds DEF EventTypeOK, EventRecords
<1>2. /\ run[p].at = "idle"
      /\ run' = [run EXCEPT ![p] = [IdleRun EXCEPT !.at = "cursors"]]
      /\ overlapped' = (overlapped \/ \E q \in Passes : run[q].at # "idle")
      /\ UNCHANGED <<observed, cursor, ledger, intents, drained, unread, late>>
  BY DEF Begin
<1>3. CASE Fails /\ UNCHANGED <<event, swept>>
  BY <1>1, <1>2, <1>3 DEF Fails
<1>4. ASSUME NEW now \in SweepInstants,
             swept' = now, event' = Expired(now), UNCHANGED failures
      PROVE  /\ event' \in [Keys -> EventRecords]
             /\ \A k \in Keys : event'[k].number = event[k].number
             /\ swept' \in Positions /\ failures' \in 0 .. MaxFailures
  <2>1. now \in Positions
    BY <1>4, EventBounds DEF Positions
  <2>2. \A k \in Keys : /\ event[k] \in EventRecords
                              /\ [event[k] EXCEPT !.state = "expired"] \in EventRecords
                              /\ [event[k] EXCEPT !.state = "expired"].number = event[k].number
    BY <1>1 DEF EventRecords, LiveStates
  <2> QED
    BY <1>1, <1>4, <2>1, <2>2 DEF Expired
<1>5. \/ Fails /\ UNCHANGED <<event, swept>>
      \/ \E now \in SweepInstants :
            swept' = now /\ event' = Expired(now) /\ UNCHANGED failures
  BY DEF Begin
<1> QED
  BY <1>2, <1>3, <1>4, <1>5

LEMMA ReadCursorsEffect ==
  ASSUME EventTypeOK, NEW p \in Passes, ReadCursors(p)
  PROVE  /\ run' = [run EXCEPT ![p] = run'[p]] /\ run'[p] \in PassRecords
         /\ run[p].at = "cursors" /\ run'[p].at = "drain" /\ run'[p].anchor = cursor
         /\ run'[p].todo = run[p].todo
         /\ UNCHANGED <<observed, cursor, event, ledger, intents, swept, drained,
                        unread, late, overlapped, failures>>
<1>1. run[p] \in PassRecords /\ cursor \in [Streams -> Positions]
  BY PassType DEF EventTypeOK
<1> QED
  BY <1>1 DEF ReadCursors, EventTypeOK, PassRecords

LEMMA EndEffect ==
  ASSUME EventTypeOK, NEW p \in Passes,
         Advance(p) \/ CutOff(p)
  PROVE  /\ run[p].at # "idle" /\ run' = [run EXCEPT ![p] = IdleRun]
         /\ failures' \in 0 .. MaxFailures
         /\ cursor' \in [Streams -> Positions]
         /\ \A s \in Streams :
               \/ cursor'[s] = cursor[s]
               \/ /\ run[p].at = "record" /\ run[p].todo = {} /\ s \notin run[p].blocked
                  /\ cursor'[s] = drained[s]
         /\ UNCHANGED <<observed, event, ledger, intents, swept, drained, unread, late,
                        overlapped>>
<1>1. /\ cursor \in [Streams -> Positions]
      /\ drained \in [Streams -> Positions]
      /\ failures \in 0 .. MaxFailures /\ MaxFailures \in Nat
  BY EventBounds DEF EventTypeOK
<1>2. CASE CutOff(p)
  BY <1>1, <1>2 DEF CutOff, Fails
<1>3. CASE Advance(p)
  <2>1. PICK advancing \in SUBSET Marked(p) : cursor' = AdvancedTo(advancing)
    BY <1>3 DEF Advance
  <2>2. \A s \in Streams :
           cursor'[s] = IF s \in advancing
                        THEN IF cursor[s] > drained[s] THEN cursor[s] ELSE drained[s]
                        ELSE cursor[s]
    BY <2>1 DEF AdvancedTo, Later
  <2>3. \A s \in advancing : s \notin run[p].blocked
    BY <2>1 DEF Marked, Blocked
  <2>4. cursor' \in [Streams -> Positions]
    BY <1>1, <2>1 DEF AdvancedTo, Later
  <2> QED
    BY <1>1, <1>3, <2>2, <2>3, <2>4 DEF Advance, Fails
<1> QED
  BY <1>2, <1>3

-----------------------------------------------------------------------------
(***************************************************************************)
(* The invariant is inductive.                                             *)
(***************************************************************************)
\* A step that gives one pass a new record keeps the passes' type.
LEMMA OneRunMoves ==
  ASSUME EventTypeOK, NEW p \in Passes, NEW r \in PassRecords, run' = [run EXCEPT ![p] = r]
  PROVE  /\ run' \in [Passes -> PassRecords] /\ run'[p] = r
         /\ \A q \in Passes \ {p} : run'[q] = run[q]
  BY DEF EventTypeOK, PassRecords

LEMMA EventTypeInit ==
  ASSUME EventInit
  PROVE  EventTypeOK
<1>1. /\ 0 \in Positions /\ 0 \in 0 .. MaxFailures
  BY EventBounds DEF Positions
<1>2. /\ observed \in [Streams -> [Times -> Prices \cup {Absent}]]
      /\ late \in [Streams -> SUBSET Times]
  BY DEF EventInit
<1>3. /\ cursor \in [Streams -> Positions]
      /\ drained \in [Streams -> Positions]
  BY <1>1 DEF EventInit
<1>4. event \in [Keys -> EventRecords]
  BY <1>1 DEF EventInit, NoEvent, EventRecords
<1>5. run \in [Passes -> PassRecords]
  BY IdleRunType DEF EventInit
<1>6. intents \in Seq(Transitions)
  BY DEF EventInit
<1> QED
  BY <1>1, <1>2, <1>3, <1>4, <1>5, <1>6 DEF EventInit, EventTypeOK, PassRecords, EventRecords

LEMMA EventTypeNext ==
  ASSUME EventTypeOK, [EventNext]_eventVars
  PROVE  EventTypeOK'
<1>1. /\ observed \in [Streams -> [Times -> Prices \cup {Absent}]]
      /\ late \in [Streams -> SUBSET Times]
      /\ cursor \in [Streams -> Positions]
      /\ event \in [Keys -> EventRecords]
      /\ ledger \subseteq Transitions /\ intents \in Seq(Transitions)
      /\ swept \in Positions /\ drained \in [Streams -> Positions]
      /\ run \in [Passes -> PassRecords] /\ unread \subseteq Transitions
      /\ overlapped \in BOOLEAN /\ failures \in 0 .. MaxFailures
  BY DEF EventTypeOK, EventRecords, PassRecords
<1> DEFINE TypedNext ==
      /\ observed' \in [Streams -> [Times -> Prices \cup {Absent}]]
      /\ late' \in [Streams -> SUBSET Times]
      /\ cursor' \in [Streams -> Positions]
      /\ event' \in [Keys -> EventRecords]
      /\ ledger' \subseteq Transitions /\ intents' \in Seq(Transitions)
      /\ swept' \in Positions /\ drained' \in [Streams -> Positions]
      /\ run' \in [Passes -> PassRecords] /\ unread' \subseteq Transitions
      /\ overlapped' \in BOOLEAN /\ failures' \in 0 .. MaxFailures
<1>2. SUFFICES TypedNext
  BY DEF EventTypeOK, EventRecords, PassRecords
<1>3. CASE UNCHANGED eventVars
  BY <1>1, <1>3 DEF eventVars
<1>4. ASSUME NEW s \in Streams, NEW i \in Times, NEW v \in Prices, Observe(s, i, v)
      PROVE  TypedNext
  BY <1>1, <1>4, ObserveGrows DEF Observe
<1>5. ASSUME NEW p \in Passes, Begin(p)
      PROVE  TypedNext
  BY <1>1, <1>5, BeginEffect, IdleRunType, OneRunMoves
<1>6. ASSUME NEW p \in Passes, ReadCursors(p)
      PROVE  TypedNext
  <2>1. run' \in [Passes -> PassRecords]
    BY <1>6, ReadCursorsEffect, OneRunMoves
  <2> QED
    BY <1>1, <1>6, <2>1, ReadCursorsEffect
<1>7. ASSUME NEW p \in Passes, Drain(p)
      PROVE  TypedNext
  <2>1. run' \in [Passes -> PassRecords]
    BY <1>7, DrainEffect, OneRunMoves
  <2>2. drained' \in [Streams -> Positions] /\ late' \in [Streams -> SUBSET Times]
    BY <1>7, DrainEffect
  <2>3. UNCHANGED <<observed, cursor, event, ledger, intents, swept, unread,
                    overlapped, failures>>
    BY <1>7, DrainEffect
  <2> QED
    BY <1>1, <2>1, <2>2, <2>3
<1>8. ASSUME NEW p \in Passes, Advance(p) \/ CutOff(p)
      PROVE  TypedNext
  <2>1. run' \in [Passes -> PassRecords]
    BY <1>8, EndEffect, IdleRunType, OneRunMoves
  <2> QED
    BY <1>1, <1>8, <2>1, EndEffect
<1>9. ASSUME NEW p \in Passes, NEW tr \in run[p].todo, Concludes(p, tr)
      PROVE  TypedNext
  <2>1. run' \in [Passes -> PassRecords]
    BY <1>9, ConcludeEffect, OneRunMoves
  <2>2. tr \in Transitions /\ UNCHANGED <<observed, swept, drained, late, overlapped>>
    BY <1>9, ConcludeEffect
  <2>3. intents' = intents \/ intents' = Append(intents, tr)
    BY <1>9, ConcludeBooks
  <2>4. intents' \in Seq(Transitions)
    <3>1. Append(intents, tr) \in Seq(Transitions)
      BY <1>1, <2>2, AppendProperties
    <3> QED
      BY <1>1, <2>3, <3>1
  <2> QED
    BY <1>1, <1>9, <2>1, <2>2, <2>4, ConcludeBooks
<1> QED
  BY <1>3, <1>4, <1>5, <1>6, <1>7, <1>8, <1>9, EventSteps

\* What the passes, the marks and the cursors refer to has been observed.
LEMMA LogIsKnownNext ==
  ASSUME EventTypeOK, LogIsKnown, [EventNext]_eventVars
  PROVE  LogIsKnown'
<1> DEFINE Known == /\ \A s \in Streams : /\ cursor'[s] \in Timely(s)' \cup {0}
                                         /\ drained'[s] \in Timely(s)' \cup {0}
                    /\ \A q \in Passes : \A tr \in run'[q].todo :
                          tr.curr \in Timely(tr.stream)'
<1>1. SUFFICES Known
  BY DEF LogIsKnown
<1>2. /\ \A s \in Streams : /\ cursor[s] \in Timely(s) \cup {0}
                            /\ drained[s] \in Timely(s) \cup {0}
      /\ \A q \in Passes : \A tr \in run[q].todo :
            tr.curr \in Timely(tr.stream) /\ tr.stream \in Streams
  BY PassType, TransitionType DEF LogIsKnown
<1>s. ASSUME UNCHANGED <<observed, late>> PROVE \A s : Timely(s)' = Timely(s)
  BY <1>s DEF Timely, Held
<1>3. CASE UNCHANGED eventVars
  BY <1>2, <1>3, <1>s DEF eventVars
<1>4. ASSUME NEW s \in Streams, NEW i \in Times, NEW v \in Prices, Observe(s, i, v)
      PROVE  Known
  <2>1. UNCHANGED <<cursor, drained, run>>
    BY <1>4 DEF Observe
  <2>2. \A q \in Streams : Timely(q) \subseteq Timely(q)'
    BY <1>4, ObserveGrows
  <2> QED
    BY <1>2, <2>1, <2>2
<1>5. ASSUME NEW p \in Passes, Begin(p)
      PROVE  Known
  <2> DEFINE begun == [IdleRun EXCEPT !.at = "cursors"]
  <2>1. /\ UNCHANGED <<observed, cursor, drained, late>> /\ run' = [run EXCEPT ![p] = begun]
    BY <1>5, BeginEffect
  <2>2. begun \in PassRecords /\ begun.todo = {}
    BY IdleRunType
  <2> HIDE DEF begun
  <2>3. run'[p].todo = {} /\ \A q \in Passes \ {p} : run'[q] = run[q]
    BY <2>1, <2>2, OneRunMoves
  <2> QED
    BY <1>2, <1>s, <2>1, <2>3
<1>6. ASSUME NEW p \in Passes, ReadCursors(p)
      PROVE  Known
  <2>1. /\ UNCHANGED <<observed, cursor, drained, late>>
        /\ run'[p].todo = run[p].todo /\ \A q \in Passes \ {p} : run'[q] = run[q]
    BY <1>6, ReadCursorsEffect, OneRunMoves
  <2> QED
    BY <1>2, <1>s, <2>1
<1>7. ASSUME NEW p \in Passes, Drain(p)
      PROVE  Known
  <2>1. /\ UNCHANGED cursor
        /\ \A s \in Streams : Timely(s)' = Timely(s) \cup Page(s) /\ IsHighWater(s, drained'[s])
        /\ \A tr \in run'[p].todo : tr.stream \in Streams /\ tr.curr \in Page(tr.stream)
    BY <1>7, DrainEffect
  <2>2. \A q \in Passes \ {p} : run'[q] = run[q]
    BY <1>7, DrainEffect, OneRunMoves
  <2>3. \A s \in Streams : drained'[s] \in Page(s) \cup {0}
    BY <2>1 DEF IsHighWater
  <2> QED
    BY <1>2, <2>1, <2>2, <2>3
<1>8. ASSUME NEW p \in Passes, Advance(p) \/ CutOff(p)
      PROVE  Known
  <2>1. /\ UNCHANGED <<observed, drained, late>>
        /\ \A s \in Streams : cursor'[s] = cursor[s] \/ cursor'[s] = drained[s]
    BY <1>8, EndEffect
  <2>2. run'[p].todo = {} /\ \A q \in Passes \ {p} : run'[q] = run[q]
    BY <1>8, EndEffect, IdleRunType, OneRunMoves
  <2> QED
    BY <1>2, <1>s, <2>1, <2>2
<1>9. ASSUME NEW p \in Passes, NEW tr \in run[p].todo, Concludes(p, tr)
      PROVE  Known
  <2>1. /\ UNCHANGED <<observed, drained, late>> /\ run'[p].todo \subseteq run[p].todo
        /\ cursor' = cursor \/ cursor' = CursorAt(tr.stream, tr.curr)
    BY <1>9, ConcludeEffect
  <2>2. \A q \in Passes \ {p} : run'[q] = run[q]
    BY <1>9, ConcludeEffect, OneRunMoves
  <2>3. cursor \in [Streams -> Positions]
    BY DEF EventTypeOK
  <2>4. \A s \in Streams :
           cursor'[s] = cursor[s] \/ (s = tr.stream /\ cursor'[s] = tr.curr)
    BY <2>1, <2>3 DEF CursorAt, Later
  <2>5. \A s \in Streams : cursor'[s] \in Timely(s)' \cup {0}
    BY <1>2, <1>s, <2>1, <2>4
  <2> QED
    BY <1>2, <1>s, <2>1, <2>2, <2>5
<1> QED
  BY <1>3, <1>4, <1>5, <1>6, <1>7, <1>8, <1>9, EventSteps

\* An event is opened with a notification of a movement that had none.
LEMMA OpeningCounts ==
  ASSUME EventTypeOK, IntentsAreClaimed, EveryEventIsAnnouncedOnce,
         NEW tr \in Transitions, tr \notin ledger, tr \in ledger', ledger \subseteq ledger',
         intents' = Append(intents, tr),
         event' = [event EXCEPT ![DedupKey(tr.stream)] = OpenedBy(tr)]
  PROVE  IntentsAreClaimed' /\ EveryEventIsAnnouncedOnce'
<1> DEFINE n == Len(intents)
           key == DedupKey(tr.stream)
           Old(k) == {i \in 1 .. n : DedupKey(intents[i].stream) = k}
           New(k) == {i \in 1 .. n + 1 : DedupKey(intents'[i].stream) = k}
<1>1. intents \in Seq(Transitions) /\ n \in Nat /\ DOMAIN intents = 1 .. n
  BY DEF EventTypeOK
<1>2. /\ intents' \in Seq(Transitions) /\ DOMAIN intents' = 1 .. n + 1
      /\ \A i \in 1 .. n : intents'[i] = intents[i]
      /\ intents'[n + 1] = tr
  <2>1. Append(intents, tr) \in Seq(Transitions) /\ Len(Append(intents, tr)) = n + 1
    BY <1>1, AppendProperties
  <2>2. /\ \A i \in 1 .. n : Append(intents, tr)[i] = intents[i]
        /\ Append(intents, tr)[n + 1] = tr
    BY <1>1, AppendProperties
  <2>3. DOMAIN Append(intents, tr) = 1 .. n + 1
    BY <1>1, <2>1
  <2> QED
    BY <2>1, <2>2, <2>3
<1> HIDE DEF n
<1>3. /\ \A k \in Keys : event[k].number = Cardinality(Old(k))
      /\ \A i, j \in 1 .. n : intents[i] = intents[j] => i = j
      /\ \A i \in 1 .. n : intents[i] \in ledger
  <2>1. \A k : Announcements(k) = Old(k)
    BY <1>1 DEF Announcements
  <2>2. \A k \in Keys : event[k].number = Cardinality(Announcements(k))
    BY Zenon DEF EveryEventIsAnnouncedOnce
  <2>3. \A k \in Keys : event[k].number = Cardinality(Old(k))
    BY <2>1, <2>2, Zenon
  <2>4. \A i, j \in DOMAIN intents : intents[i] = intents[j] => i = j
    BY DEF EveryEventIsAnnouncedOnce
  <2> QED
    BY <1>1, <2>3, <2>4 DEF IntentsAreClaimed
<1>4. \A i \in 1 .. n + 1 : i \in 1 .. n \/ i = n + 1
  BY <1>1
<1>5. \A i \in 1 .. n + 1 : intents'[i] \in ledger'
  BY <1>2, <1>3, <1>4
<1>6. \A i, j \in 1 .. n + 1 : intents'[i] = intents'[j] => i = j
  <2>1. \A i \in 1 .. n : intents'[i] \in ledger
    BY <1>2, <1>3
  <2> SUFFICES ASSUME NEW i \in 1 .. n + 1, NEW j \in 1 .. n + 1, intents'[i] = intents'[j]
               PROVE  i = j
    OBVIOUS
  <2>2. CASE i \in 1 .. n /\ j \in 1 .. n
    BY <1>2, <1>3, <2>2
  <2>3. CASE i = n + 1 \/ j = n + 1
    BY <1>2, <1>4, <2>1, <2>3
  <2> QED
    BY <1>4, <2>2, <2>3
<1>7. ASSUME NEW k \in Keys
      PROVE  event'[k].number = Cardinality(New(k))
  <2>1. event \in [Keys -> EventRecords] /\ event[k].number = Cardinality(Old(k))
    BY <1>3 DEF EventTypeOK, EventRecords
  <2>2. IsFiniteSet(Old(k)) /\ n + 1 \notin Old(k)
    <3>1. IsFiniteSet(1 .. n)
      BY <1>1, FS_Interval
    <3>2. Old(k) \subseteq 1 .. n /\ n + 1 \notin 1 .. n
      BY <1>1
    <3> QED
      BY <3>1, <3>2, FS_Subset
  <2>3. CASE k = key
    <3>1. New(k) = Old(k) \cup {n + 1}
      BY <1>1, <1>2, <1>4, <2>3
    <3>2. Cardinality(New(k)) = Cardinality(Old(k)) + 1
      BY <2>2, <3>1, FS_AddElement
    <3>3. event'[k] = OpenedBy(tr)
      BY <2>1, <2>3
    <3> QED
      BY <2>1, <2>3, <3>2, <3>3 DEF OpenedBy
  <2>4. CASE k # key
    <3>1. New(k) = Old(k)
      BY <1>1, <1>2, <1>4, <2>4
    <3>2. event'[k] = event[k]
      BY <2>1, <2>4
    <3> QED
      BY <2>1, <3>1, <3>2
  <2> QED
    BY <2>3, <2>4
<1>8. \A k : Announcements(k)' = New(k)
  BY <1>2 DEF Announcements
<1>9. \A k \in Keys :
         event'[k].number = Cardinality(Announcements(k)')
  BY <1>7, <1>8, Zenon
<1>10. \A i, j \in DOMAIN intents' : intents'[i] = intents'[j] => i = j
  BY <1>2, <1>6
<1>11. \A i \in DOMAIN intents' : intents'[i] \in ledger'
  BY <1>2, <1>5
<1> QED
  BY <1>9, <1>10, <1>11, Zenon DEF EveryEventIsAnnouncedOnce, IntentsAreClaimed

LEMMA AnnouncedNext ==
  ASSUME EventTypeOK, IntentsAreClaimed, EveryEventIsAnnouncedOnce,
         [EventNext]_eventVars
  PROVE  IntentsAreClaimed' /\ EveryEventIsAnnouncedOnce'
<1>1. ASSUME intents' = intents, ledger \subseteq ledger',
             \A k \in Keys : event'[k].number = event[k].number
      PROVE  IntentsAreClaimed' /\ EveryEventIsAnnouncedOnce'
  BY <1>1 DEF IntentsAreClaimed, EveryEventIsAnnouncedOnce, Announcements
<1>2. CASE UNCHANGED eventVars
  BY <1>1, <1>2 DEF eventVars
<1>3. ASSUME NEW s \in Streams, NEW i \in Times, NEW v \in Prices, Observe(s, i, v)
      PROVE  IntentsAreClaimed' /\ EveryEventIsAnnouncedOnce'
  BY <1>1, <1>3 DEF Observe
<1>4. ASSUME NEW p \in Passes, Begin(p)
      PROVE  IntentsAreClaimed' /\ EveryEventIsAnnouncedOnce'
  BY <1>1, <1>4, BeginEffect
<1>5. ASSUME NEW p \in Passes, ReadCursors(p)
      PROVE  IntentsAreClaimed' /\ EveryEventIsAnnouncedOnce'
  BY <1>1, <1>5, ReadCursorsEffect
<1>6. ASSUME NEW p \in Passes, Drain(p)
      PROVE  IntentsAreClaimed' /\ EveryEventIsAnnouncedOnce'
  <2>1. UNCHANGED <<event, ledger, intents>>
    BY <1>6 DEF Drain
  <2> QED
    BY <1>1, <2>1
<1>7. ASSUME NEW p \in Passes, Advance(p) \/ CutOff(p)
      PROVE  IntentsAreClaimed' /\ EveryEventIsAnnouncedOnce'
  BY <1>1, <1>7, EndEffect
<1>8. ASSUME NEW p \in Passes, NEW tr \in run[p].todo, Concludes(p, tr)
      PROVE  IntentsAreClaimed' /\ EveryEventIsAnnouncedOnce'
  <2>1. tr \in Transitions /\ ledger \subseteq ledger'
    BY <1>8, ConcludeEffect
  <2>2. CASE intents' = intents /\ \A k \in Keys : event'[k].number = event[k].number
    BY <1>1, <2>1, <2>2
  <2>3. CASE /\ tr \notin ledger /\ tr \in ledger' /\ intents' = Append(intents, tr)
             /\ event' = [event EXCEPT ![DedupKey(tr.stream)] = OpenedBy(tr)]
    BY <2>1, <2>3, OpeningCounts
  <2> QED
    BY <1>8, <2>2, <2>3, ConcludeBooks
<1> QED
  BY <1>2, <1>3, <1>4, <1>5, <1>6, <1>7, <1>8, EventSteps

\* The lists of the other passes do not matter while one pass runs alone.
LEMMA OthersIdle ==
  ASSUME OnePass, NEW p \in Passes, run[p].at # "idle", NEW q \in Passes \ {p}
  PROVE  run[q].at = "idle"
  BY DEF OnePass

LEMMA MaterialStays ==
  ASSUME observed' = observed
  PROVE  \A tr : Material(tr)' <=> Material(tr)
  BY DEF Material

LEMMA TimelyStays ==
  ASSUME UNCHANGED <<observed, late>>
  PROVE  \A s : Timely(s)' = Timely(s)
  BY DEF Timely, Held

LEMMA ObserveKeepsLonePass ==
  ASSUME EventTypeOK, LogIsKnown, LonePass,
         NEW s \in Streams, NEW i \in Times, NEW v \in Prices, Observe(s, i, v)
  PROVE  LonePass'
<1>1. UNCHANGED <<cursor, ledger, unread, run, drained>>
  BY DEF Observe
<1>2. \A q \in Streams : cursor[q] \in Positions /\ drained[q] \in Positions
  BY DEF EventTypeOK
<1>3. i \in Int /\ \A n \in Positions : n \in Int
  BY TimesAre
<1>4. OnePass' /\ AnchorIsCursor'
  BY <1>1 DEF LonePass, OnePass, AnchorIsCursor
<1>5. ASSUME NEW p \in Passes, run'[p].at = "record"
      PROVE  ListIsDrained(p)' /\ PageIsCovered(p)'
  <2>1. ListIsDrained(p) /\ PageIsCovered(p)
    BY <1>1, <1>5 DEF LonePass
  <2>2. Behind(s, i) \/ i > drained[s]
    BY <1>1, <1>2, <1>3, <1>5 DEF Behind
  <2>3. ASSUME NEW q \in Streams, q \notin run[p].blocked,
               NEW tr \in Adjacent(q, Timely(q)'), tr.curr <= drained[q], Material(tr)'
        PROVE  Concluded(tr) \/ tr \in run[p].todo
    <3>1. tr \in Adjacent(q, Timely(q)) /\ Material(tr)
      BY <1>2, <2>2, <2>3, ObserveKeepsAdjacent
    <3> QED
      BY <2>1, <2>3, <3>1 DEF PageIsCovered
  <2>4. PageIsCovered(p)'
    BY <1>1, <2>3 DEF PageIsCovered, Concluded, Adjacent
  <2> QED
    BY <1>1, <2>1, <2>4 DEF ListIsDrained
<1>6. ASSUME NEW q \in Streams
      PROVE  Covered(q, cursor[q])'
  <2>1. Covered(q, cursor[q])
    BY DEF LonePass
  <2>2. Behind(s, i) \/ i > cursor[s]
    BY <1>2, <1>3 DEF Behind
  <2>3. ASSUME NEW tr \in Adjacent(q, Timely(q)'), tr.curr <= cursor[q], Material(tr)'
        PROVE  Concluded(tr)
    <3>1. tr \in Adjacent(q, Timely(q)) /\ Material(tr)
      BY <1>2, <2>2, <2>3, ObserveKeepsAdjacent
    <3> QED
      BY <2>1, <2>3, <3>1 DEF Covered
  <2> QED
    BY <1>1, <2>3 DEF Covered, Concluded, Adjacent
<1> QED
  BY <1>4, <1>5, <1>6 DEF LonePass

\* What the cursors have passed stays covered while they stand still.
LEMMA CoveredStays ==
  ASSUME UNCHANGED <<observed, late, cursor, ledger, unread>>,
         \A s \in Streams : Covered(s, cursor[s])
  PROVE  \A s \in Streams : Covered(s, cursor[s])'
  BY MaterialStays, TimelyStays DEF Covered, Concluded, Adjacent

\* A drain covers its pages: a movement that is material lies behind the cursor,
\* or follows the cursor or another row of the page, and is on the list.
LEMMA DrainCoversPage ==
  ASSUME EventTypeOK, LogIsKnown, LonePass, NEW p \in Passes, Drain(p),
         NEW s \in Streams, NEW tr \in Adjacent(s, Timely(s) \cup Page(s)),
         tr.curr <= drained'[s], Material(tr)
  PROVE  \/ tr.curr <= cursor[s] /\ Concluded(tr)
         \/ tr.curr > cursor[s] /\ tr \in Movements(s, run[p].anchor[s])
<1> DEFINE rows == Timely(s) \cup Page(s)
<1>1. run[p].at = "drain" /\ run[p].anchor = cursor
  BY DEF Drain, LonePass, AnchorIsCursor
<1>2. /\ tr = [stream |-> s, prev |-> tr.prev, curr |-> tr.curr]
      /\ tr.stream = s /\ tr.prev \in rows /\ tr.curr \in rows
      /\ tr.prev < tr.curr /\ \A i \in rows : i <= tr.prev \/ tr.curr <= i
  BY AdjacentAre
<1>3. /\ rows \subseteq Held(s) /\ Held(s) \subseteq Times
      /\ \A i \in Page(s) : i \in Unconsumed(s) /\ i > cursor[s]
      /\ \A i \in Held(s) : i > cursor[s] => i \in Unconsumed(s)
  BY RowsAre DEF Unconsumed
<1>4. /\ \A i \in Times : i \in Int /\ i > 0
      /\ cursor[s] \in Int /\ (cursor[s] = 0 \/ cursor[s] \in Timely(s))
      /\ drained'[s] \in Int
  <2>1. cursor[s] \in Positions /\ drained'[s] \in Positions
    BY DrainEffect DEF EventTypeOK
  <2> QED
    BY <2>1, TimesAre DEF LogIsKnown
<1>5. /\ tr.prev \in Int /\ tr.prev > 0 /\ tr.curr \in Int /\ tr.curr > 0
      /\ tr \in Transitions
  BY <1>2, <1>3, <1>4 DEF Transitions
<1>6. CASE tr.curr <= cursor[s]
  <2>1. tr.prev \in Timely(s) /\ tr.curr \in Timely(s)
    BY <1>2, <1>3, <1>4, <1>5, <1>6
  <2>2. tr \in Adjacent(s, Timely(s))
    BY <1>2, <2>1, AdjacentAre
  <2> QED
    BY <1>6, <2>2 DEF LonePass, Covered
<1>7. CASE tr.curr > cursor[s]
  <2>1. tr.curr \in Page(s)
    <3>1. IsHighWater(s, drained'[s])
      BY DrainEffect
    <3>2. drained'[s] \in Page(s)
      BY <1>4, <1>5, <3>1 DEF IsHighWater
    <3> QED
      BY <1>2, <1>3, <1>7, <3>2, PageIsInitial
  <2>2. tr.prev > cursor[s] => tr.prev \in Page(s)
    BY <1>2, <1>3, <1>5, <2>1, PageIsInitial
  <2>3. Follows(s, cursor[s], tr.prev, tr.curr)
    <3> DEFINE earlier == {i \in Page(s) : i < tr.curr}
    <3>1. \A i \in earlier : i <= tr.prev
      BY <1>2, <1>3, <1>4, <1>5
    <3>2. CASE earlier = {}
      <4>1. tr.prev <= cursor[s]
        BY <1>2, <1>4, <1>5, <2>2, <3>2
      <4>2. cursor[s] <= tr.prev
        BY <1>2, <1>4, <1>5, <1>7, <4>1
      <4>3. tr.prev = cursor[s]
        BY <1>4, <1>5, <4>1, <4>2
      <4> QED
        BY <3>2, <4>3 DEF Follows
    <3>3. CASE earlier # {}
      <4>1. tr.prev \in earlier
        BY <1>2, <1>3, <1>4, <1>5, <2>2, <3>1, <3>3
      <4> QED
        BY <3>1, <3>3, <4>1 DEF Follows
    <3> QED
      BY <3>2, <3>3
  <2>4. observed[s][tr.prev] # observed[s][tr.curr]
    BY <1>2, <1>3, <1>5, MaterialMoves
  <2>5. tr \in [stream : {s}, prev : Times, curr : Page(s)]
    BY <1>2, <1>3, <2>1
  <2> QED
    BY <1>1, <1>7, <2>3, <2>4, <2>5 DEF Movements
<1> QED
  BY <1>4, <1>5, <1>6, <1>7

LEMMA DrainKeepsLonePass ==
  ASSUME EventTypeOK, LogIsKnown, LonePass, NEW p \in Passes, Drain(p)
  PROVE  LonePass'
<1>1. /\ run[p].at = "drain" /\ run'[p].at = "record"
      /\ \A q \in Passes \ {p} : run'[q] = run[q]
  BY DrainEffect, OneRunMoves
<1>2. /\ run'[p].todo = UNION {Movements(s, run[p].anchor[s]) : s \in Streams}
      /\ \A tr \in run'[p].todo : tr.stream \in Streams /\ tr.curr \in Page(tr.stream)
      /\ \A s \in Streams : IsHighWater(s, drained'[s]) /\ Timely(s)' = Timely(s) \cup Page(s)
      /\ UNCHANGED <<observed, cursor, ledger, unread>>
      /\ cursor \in [Streams -> Positions] /\ drained' \in [Streams -> Positions]
  BY DrainEffect DEF EventTypeOK
<1>3. \A q \in Passes \ {p} : run'[q].at = "idle"
  BY <1>1, OthersIdle DEF LonePass
<1>4. OnePass' /\ AnchorIsCursor'
  BY <1>1, <1>3 DEF OnePass, AnchorIsCursor
<1>5. ListIsDrained(p)'
  BY <1>2 DEF ListIsDrained, IsHighWater
<1>6. ASSUME NEW s \in Streams, NEW tr \in Adjacent(s, Timely(s)'),
             tr.curr <= drained'[s], Material(tr)
      PROVE  Concluded(tr) \/ (tr.curr > cursor[s] /\ tr \in run'[p].todo)
  BY <1>2, <1>6, DrainCoversPage
<1>7. PageIsCovered(p)'
  <2> SUFFICES ASSUME NEW s \in Streams, NEW tr \in Adjacent(s, Timely(s)'),
                      tr.curr <= drained'[s], Material(tr)'
               PROVE  Concluded(tr)' \/ tr \in run'[p].todo
    BY DEF PageIsCovered, Adjacent
  <2> QED
    BY <1>2, <1>6, MaterialStays DEF Concluded
<1>8. ASSUME NEW s \in Streams
      PROVE  Covered(s, cursor[s])'
  <2> SUFFICES ASSUME NEW tr \in Adjacent(s, Timely(s)'), tr.curr <= cursor[s], Material(tr)
               PROVE  Concluded(tr)
    BY <1>2, MaterialStays DEF Covered, Concluded, Adjacent
  <2>1. /\ tr = [stream |-> s, prev |-> tr.prev, curr |-> tr.curr]
        /\ tr.stream = s /\ tr.prev \in Timely(s)' /\ tr.curr \in Timely(s)'
        /\ tr.prev < tr.curr /\ \A i \in Timely(s)' : i <= tr.prev \/ tr.curr <= i
    BY AdjacentAre
  <2>2. /\ \A i \in Page(s) : i > cursor[s]
        /\ Timely(s)' \subseteq Times /\ Timely(s) \subseteq Timely(s)'
    BY <1>2, RowsAre DEF Unconsumed
  <2>3. tr.prev \in Int /\ tr.curr \in Int /\ cursor[s] \in Int
    BY <1>2, <2>1, <2>2, TimesAre
  <2>4. tr.prev \in Timely(s) /\ tr.curr \in Timely(s)
    BY <1>2, <2>1, <2>2, <2>3
  <2>5. tr \in Adjacent(s, Timely(s))
    BY <2>1, <2>2, <2>4, AdjacentAre
  <2> QED
    BY <2>5 DEF LonePass, Covered
<1>9. \A q \in Passes : run'[q].at = "record" => q = p
  BY <1>3
<1> QED
  BY <1>4, <1>5, <1>7, <1>8, <1>9 DEF LonePass

LEMMA BeginKeepsLonePass ==
  ASSUME EventTypeOK, LonePass, NEW p \in Passes, Begin(p)
  PROVE  overlapped' \/ LonePass'
<1> DEFINE begun == [IdleRun EXCEPT !.at = "cursors"]
<1>1. /\ run' = [run EXCEPT ![p] = begun]
      /\ overlapped' = (overlapped \/ \E q \in Passes : run[q].at # "idle")
      /\ UNCHANGED <<observed, cursor, ledger, unread, late>>
  BY BeginEffect
<1>2. begun \in PassRecords /\ begun.at = "cursors"
  BY IdleRunType
<1> HIDE DEF begun
<1>3. run'[p].at = "cursors" /\ \A q \in Passes \ {p} : run'[q] = run[q]
  BY <1>1, <1>2, OneRunMoves
<1> SUFFICES ASSUME \A q \in Passes : run[q].at = "idle"
             PROVE  LonePass'
  BY <1>1
<1>4. \A q \in Passes : run'[q].at \in {"idle", "cursors"}
  BY <1>3
<1>5. OnePass' /\ AnchorIsCursor'
  BY <1>3, <1>4 DEF OnePass, AnchorIsCursor
<1> QED
  BY <1>1, <1>4, <1>5, CoveredStays DEF LonePass

LEMMA ReadCursorsKeepsLonePass ==
  ASSUME EventTypeOK, LonePass, NEW p \in Passes, ReadCursors(p)
  PROVE  LonePass'
<1>1. /\ run[p].at = "cursors" /\ run'[p].at = "drain" /\ run'[p].anchor = cursor
      /\ UNCHANGED <<observed, cursor, ledger, unread, late>>
      /\ \A q \in Passes \ {p} : run'[q] = run[q]
  BY ReadCursorsEffect, OneRunMoves
<1>2. \A q \in Passes \ {p} : run'[q].at = "idle"
  BY <1>1, OthersIdle DEF LonePass
<1>3. OnePass' /\ AnchorIsCursor'
  BY <1>1, <1>2 DEF OnePass, AnchorIsCursor
<1>4. \A q \in Passes : run'[q].at # "record"
  BY <1>1, <1>2
<1> QED
  BY <1>1, <1>3, <1>4, CoveredStays DEF LonePass

\* At the end of its list a pass moves cursors to marks whose page it covered.
LEMMA EndKeepsLonePass ==
  ASSUME EventTypeOK, LonePass, NEW p \in Passes,
         Advance(p) \/ CutOff(p)
  PROVE  LonePass'
<1>1. /\ run[p].at # "idle" /\ run' = [run EXCEPT ![p] = IdleRun]
      /\ UNCHANGED <<observed, ledger, unread, late>>
      /\ \A s \in Streams :
            \/ cursor'[s] = cursor[s]
            \/ /\ run[p].at = "record" /\ run[p].todo = {} /\ s \notin run[p].blocked
               /\ cursor'[s] = drained[s]
  BY EndEffect
<1>2. \A q \in Passes : run'[q].at = "idle"
  <2>1. run'[p].at = "idle" /\ \A q \in Passes \ {p} : run'[q] = run[q]
    BY <1>1, IdleRunType, OneRunMoves
  <2> QED
    BY <1>1, <2>1, OthersIdle DEF LonePass
<1>3. OnePass' /\ AnchorIsCursor'
  BY <1>2 DEF OnePass, AnchorIsCursor
<1>4. ASSUME NEW s \in Streams
      PROVE  Covered(s, cursor'[s])
  <2>1. CASE cursor'[s] = cursor[s]
    BY <2>1 DEF LonePass
  <2>2. CASE /\ run[p].at = "record" /\ run[p].todo = {} /\ s \notin run[p].blocked
             /\ cursor'[s] = drained[s]
    BY <2>2 DEF LonePass, PageIsCovered, Covered
  <2> QED
    BY <1>1, <2>1, <2>2
<1>5. \A s \in Streams : Covered(s, cursor[s])'
  BY <1>1, <1>4, MaterialStays, TimelyStays DEF Covered, Concluded, Adjacent
<1> QED
  BY <1>2, <1>3, <1>5 DEF LonePass

\* The movements of a stream on a list are concluded in their order.
LEMMA HeadIsOldest ==
  ASSUME NEW p \in Passes, NEW tr, IsHead(p, tr),
         NEW u \in run[p].todo, u # tr, u.stream = tr.stream, tr.stream \in Streams
  PROVE  tr.curr < u.curr
<1>1. Precedes(tr, u)
  BY DEF IsHead
<1>2. /\ DOMAIN Order \subseteq Int
      /\ \A i, j \in DOMAIN Order : Order[i] = Order[j] => i = j
  BY EventBounds
<1>3. SUFFICES ASSUME NEW i \in DOMAIN Order, NEW j \in DOMAIN Order, i < j,
                      tr.stream = Order[i], u.stream = Order[j]
               PROVE  FALSE
  BY <1>1 DEF Precedes
<1>4. i = j
  BY <1>2, <1>3
<1> QED
  BY <1>2, <1>3, <1>4

LEMMA ConcludeKeepsLonePass ==
  ASSUME EventTypeOK, LonePass, NEW p \in Passes,
         NEW tr \in run[p].todo, Concludes(p, tr)
  PROVE  LonePass'
<1>1. /\ IsHead(p, tr) /\ tr \in Transitions /\ tr.stream \in Streams
      /\ run[p].at = "record" /\ run'[p].at = "record"
      /\ run'[p].todo = run[p].todo \ {tr}
      /\ \/ run'[p].blocked = run[p].blocked
         \/ run'[p].blocked = run[p].blocked \cup {tr.stream}
      /\ UNCHANGED <<observed, drained, late>>
      /\ ledger \subseteq ledger' /\ unread \subseteq unread'
      /\ Material(tr) =>
            tr \in ledger' \cup unread' \/ tr.stream \in run'[p].blocked
      /\ \/ cursor' = cursor
         \/ /\ cursor' = CursorAt(tr.stream, tr.curr)
            /\ tr \in ledger' /\ tr.stream \notin run[p].blocked
  BY ConcludeEffect, TransitionType DEF IsHead
<1>2. \A q \in Passes \ {p} : run'[q] = run[q]
  BY ConcludeEffect, OneRunMoves
<1>3. \A q \in Passes \ {p} : run'[q].at = "idle"
  BY <1>1, <1>2, OthersIdle DEF LonePass
<1>4. OnePass' /\ AnchorIsCursor'
  BY <1>1, <1>3 DEF OnePass, AnchorIsCursor
<1>5. ListIsDrained(p) /\ PageIsCovered(p)
  BY <1>1 DEF LonePass
<1>6. ListIsDrained(p)'
  BY <1>1, <1>5 DEF ListIsDrained
<1>7. /\ \A u : Concluded(u) => Concluded(u)'
      /\ \A u : Material(u)' <=> Material(u)
      /\ \A s : Adjacent(s, Timely(s))' = Adjacent(s, Timely(s))
  BY <1>1, MaterialStays, TimelyStays DEF Concluded, Adjacent
<1>8. ASSUME NEW s \in Streams, s \notin run'[p].blocked,
             NEW u \in Adjacent(s, Timely(s)), u.curr <= drained[s], Material(u)
      PROVE  Concluded(u)' \/ u \in run'[p].todo
  <2>1. s \notin run[p].blocked /\ u.stream = s
    BY <1>1, <1>8, AdjacentAre
  <2>2. Concluded(u) \/ u \in run[p].todo
    BY <1>5, <1>8, <2>1 DEF PageIsCovered
  <2>3. CASE u = tr
    BY <1>1, <1>8, <2>1, <2>3 DEF Concluded
  <2> QED
    BY <1>1, <1>7, <2>2, <2>3
<1>9. PageIsCovered(p)'
  BY <1>1, <1>7, <1>8 DEF PageIsCovered
<1>10. ASSUME NEW s \in Streams
       PROVE  Covered(s, cursor[s])'
  <2>1. cursor \in [Streams -> Positions]
    BY DEF EventTypeOK
  <2>2. \/ cursor'[s] = cursor[s]
        \/ /\ s = tr.stream /\ cursor'[s] = tr.curr
           /\ tr \in ledger' /\ s \notin run[p].blocked
    BY <1>1, <2>1 DEF CursorAt, Later
  <2> SUFFICES ASSUME NEW u \in Adjacent(s, Timely(s)), u.curr <= cursor'[s], Material(u)
               PROVE  Concluded(u)'
    BY <1>7 DEF Covered
  <2>3. CASE cursor'[s] = cursor[s]
    BY <1>7, <2>3 DEF LonePass, Covered
  <2>4. CASE s = tr.stream /\ cursor'[s] = tr.curr /\ tr \in ledger' /\ s \notin run[p].blocked
    <3>1. u.stream = s /\ u.curr \in Timely(s)
      BY AdjacentAre
    <3>2. u.curr \in Int /\ tr.curr \in Int /\ drained[s] \in Int /\ tr.curr <= drained[s]
      <4>1. u.curr \in Times
        BY <3>1, RowsAre
      <4>2. tr.curr \in Positions /\ drained[s] \in Positions
        BY <1>1, TransitionType DEF EventTypeOK
      <4> QED
        BY <1>5, <2>4, <4>1, <4>2, TimesAre DEF ListIsDrained
    <3>3. Concluded(u) \/ u \in run[p].todo
      BY <1>5, <2>4, <3>2 DEF PageIsCovered
    <3>4. CASE u \in run[p].todo
      <4>1. u = tr
        BY <1>1, <2>4, <3>1, <3>2, <3>4, HeadIsOldest
      <4> QED
        BY <2>4, <4>1 DEF Concluded
    <3> QED
      BY <1>7, <3>3, <3>4
  <2> QED
    BY <2>2, <2>3, <2>4
<1>11. \A q \in Passes : run'[q].at = "record" => q = p
  BY <1>3
<1> QED
  BY <1>4, <1>6, <1>9, <1>10, <1>11 DEF LonePass

LEMMA LonePassNext ==
  ASSUME EventTypeOK, LogIsKnown, overlapped \/ LonePass,
         [EventNext]_eventVars
  PROVE  overlapped' \/ LonePass'
<1>1. overlapped => overlapped'
  <2>1. ASSUME NEW p \in Passes, NEW tr \in run[p].todo, Concludes(p, tr)
        PROVE  overlapped' = overlapped
    BY <2>1, ConcludeEffect
  <2> QED
    BY <2>1, EventSteps DEF eventVars, Observe, Begin, ReadCursors,
       Drain, Advance, CutOff
<1> SUFFICES ASSUME LonePass PROVE overlapped' \/ LonePass'
  BY <1>1
<1>2. CASE UNCHANGED eventVars
  <2>1. UNCHANGED <<observed, cursor, ledger, unread, run, drained, late>>
    BY <1>2 DEF eventVars
  <2> QED
    BY <2>1, MaterialStays, TimelyStays DEF LonePass, OnePass, AnchorIsCursor, ListIsDrained, PageIsCovered,
       Covered, Concluded, Adjacent
<1> QED
  BY <1>2, ObserveKeepsLonePass, BeginKeepsLonePass, ReadCursorsKeepsLonePass,
     DrainKeepsLonePass, EndKeepsLonePass, ConcludeKeepsLonePass, EventSteps

-----------------------------------------------------------------------------
LEMMA EventInvInit == EventInit => EventInv
<1> SUFFICES ASSUME EventInit PROVE EventInv
  OBVIOUS
<1>1. EventTypeOK
  BY EventTypeInit
<1>2. LogIsKnown
  BY DEF EventInit, IdleRun, LogIsKnown
<1>3. IntentsAreClaimed
  BY DEF EventInit, IntentsAreClaimed
<1>4. EveryEventIsAnnouncedOnce
  <2>1. \A k : Announcements(k) = {}
    BY DEF EventInit, Announcements
  <2>2. \A k \in Keys : event[k].number = 0
    BY DEF EventInit, NoEvent
  <2>3. Cardinality({}) = 0
    BY FS_EmptySet
  <2>4. DOMAIN intents = {}
    BY DEF EventInit
  <2> QED
    BY <2>1, <2>2, <2>3, <2>4 DEF EveryEventIsAnnouncedOnce
<1>5. LonePass
  <2>1. /\ \A p \in Passes : run[p].at = "idle"
        /\ \A s \in Streams : cursor[s] = 0
    BY DEF EventInit, IdleRun
  <2>2. ASSUME NEW s \in Streams, NEW tr \in Adjacent(s, Timely(s)), tr.curr <= 0
        PROVE  FALSE
    <3>1. tr.curr \in Times
      BY AdjacentAre, RowsAre
    <3> QED
      BY <2>2, <3>1, TimesAre
  <2>3. \A s \in Streams : Covered(s, cursor[s])
    BY <2>1, <2>2 DEF Covered
  <2> QED
    BY <2>1, <2>3 DEF LonePass, OnePass, AnchorIsCursor
<1> QED
  BY <1>1, <1>2, <1>3, <1>4, <1>5 DEF EventInv

\* Passes that begin, overlap, fail, are cut off and drain again in any order:
\* every part of the invariant holds.
THEOREM EventInvariant == EventSpec => []EventInv
<1>1. EventInit => EventInv
  BY EventInvInit
<1>2. EventInv /\ [EventNext]_eventVars => EventInv'
  BY EventTypeNext, LogIsKnownNext, AnnouncedNext, LonePassNext DEF EventInv
<1> QED
  BY <1>1, <1>2, PTL DEF EventSpec

\* Every variable of the event producer keeps its type.
THEOREM EventsStayTyped == EventSpec => []EventTypeOK
<1>1. EventInv => EventTypeOK
  BY DEF EventInv
<1> QED
  BY <1>1, EventInvariant, PTL

\* recordConsumed, the blocked streams and the marks of the drain: while no two
\* passes overlapped, a material movement of the rows that came in time to be
\* drained, whatever order they came in, is ingested before its stream's cursor
\* passes it (or its threshold could not be read), for any number of streams and
\* pages.  A row that came behind the cursor or a mark under way is in nobody's
\* page: what that skips, NothingSkippedEver says.
THEOREM NoMovementIsSkipped == EventSpec => []NothingSkipped
<1>1. EventInv => NothingSkipped
  BY DEF EventInv, LonePass, Covered, Concluded, Adjacent, NothingSkipped, Passed
<1> QED
  BY <1>1, EventInvariant, PTL

\* InsertInputTransition and RecordEvent: whatever overlaps, fails and is drained
\* again, each event has one notification and no movement opens two events.
THEOREM EventsAreAnnouncedOnce == EventSpec => []EveryEventIsAnnouncedOnce
<1>1. EventInv => EveryEventIsAnnouncedOnce
  BY DEF EventInv
<1> QED
  BY <1>1, EventInvariant, PTL
==============================================================================
