------------------------- MODULE ApprovalLineageProofs -------------------------
(***************************************************************************)
(* Proofs about ApprovalLineage, for any lineages, requests and passes,    *)
(* and any bounds.                                                         *)
(***************************************************************************)
EXTENDS ApprovalLineage, SequenceTheorems, TLAPS

-----------------------------------------------------------------------------
(***************************************************************************)
(* The inductive invariant.                                                *)
(***************************************************************************)

\* A card is bound to an approvable version of its recommendation, and the
\* parameter versions of its action begin at 1 and skip none.
RowsAreBound ==
    \A l \in Lineages : \A v \in DOMAIN cards[l] :
        LET c == cards[l][v]
        IN  /\ c.rec \in DOMAIN recs[l] /\ recs[l][c.rec].approvable
            /\ c.action \in 1 .. v /\ c.pv >= 1
            /\ \A q \in 1 .. c.pv : KeyTaken(l, c.action, q)

EditsAreOrdered ==
    \A l \in Lineages : \A u, v \in DOMAIN cards[l] :
        u < v /\ cards[l][u].action = cards[l][v].action => cards[l][u].pv < cards[l][v].pv

\* A recommendation with a card has a newest one: CurrentOf is defined.
HeadsExist ==
    \A m \in Members : CardsOf(m) # {} =>
        \E id \in CardsOf(m) : \A d \in CardsOf(m) : d[2] <= id[2]

\* A card carries both pieces of evidence of an approval or neither, and one
\* that carries them was approved: it is authorized still, or voided.
Approvals ==
    \A id \in CardIds :
        /\ \/ confirmations[id] = <<>> /\ id \notin intents
           \/ /\ Len(confirmations[id]) = 1 /\ id \in intents /\ id \in Minted
              /\ StateHasAuthorized(Card(id).state) \/ Card(id).state = "invalidated"
        /\ id \in Minted /\ StateHasAuthorized(Card(id).state) => id \in intents

PassesAreSound ==
    \A p \in Passes : pass[p].pc # "idle" => pass[p].lineage \in Lineages

InFlight(w) == run[w].pc \in {"read", "decide", "reread"}

\* A request is about a card, and a bulk one about a card of its member.
RequestsAreSound ==
    \A w \in Callers :
        /\ InFlight(w) => run[w].card \in Minted
        /\ run[w].bulk /\ InFlight(w) =>
              run[w].member \in Members /\ run[w].card \in CardsOf(run[w].member)
        /\ run[w].pc \in {"member", "reread"} => run[w].bulk
        /\ run[w].pc = "idle" => ~run[w].bulk

\* A bulk request has every member of the version it bound still to do, under
\* way, or reported, and reports none of them twice.
Pending(w, m) == m \in run[w].todo \/ (InFlight(w) /\ m = run[w].member)
Reported(w, m) == \E i \in report : i[1] = w /\ i[2] = m

MembersAreReported ==
    \A w \in Callers :
        /\ ~run[w].bulk => \A i \in report : i[1] # w
        /\ run[w].bulk =>
              /\ run[w].bound \in DOMAIN sets
              /\ \A m \in sets[run[w].bound] : Pending(w, m) \/ Reported(w, m)
              /\ \A m \in Members : ~(Pending(w, m) /\ Reported(w, m))
              /\ InFlight(w) => run[w].member \notin run[w].todo
        /\ \A i, j \in report : i[1] = w /\ j[1] = w /\ i[2] = j[2] => i = j

LineageInv ==
    /\ TypeOK
    /\ RowsAreBound
    /\ EditsAreOrdered
    /\ HeadsExist
    /\ Approvals
    /\ PassesAreSound
    /\ RequestsAreSound
    /\ MembersAreReported

\* What a pass compared in its dedup read still holds while no other pass mints
\* into its lineage: its evidence is newer than that of the newest version.
PassIsNewer ==
    \A p \in Passes : pass[p].pc = "produce" /\ ~pass[p].overtaken =>
        LET rows == recs[pass[p].lineage] IN
            Len(rows) > 0 => rows[Len(rows)].ctx < pass[p].ctx

-----------------------------------------------------------------------------
(***************************************************************************)
(* Cards: what there is, and what a step does to it.                       *)
(***************************************************************************)

\* The minted cards are the versions of the lineages.
LEMMA MintedAre ==
  ASSUME TypeOK
  PROVE  /\ \A id \in Minted : /\ id[1] \in Lineages /\ id[2] \in DOMAIN cards[id[1]]
                               /\ id[2] \in 1 .. Len(cards[id[1]])
                               /\ id = <<id[1], id[2]>> /\ Card(id) = cards[id[1]][id[2]]
                               /\ Card(id) \in CardRows
         /\ \A l \in Lineages : \A v \in DOMAIN cards[l] :
               <<l, v>> \in Minted /\ v \in 1 .. MaxVersions
         /\ \A l \in Lineages : /\ cards[l] \in Seq(CardRows) /\ Len(cards[l]) \in Nat
                                /\ DOMAIN cards[l] = 1 .. Len(cards[l])
         /\ Minted \subseteq CardIds
<1>1. \A l \in Lineages : /\ cards[l] \in Seq(CardRows) /\ Len(cards[l]) \in Nat
                          /\ Len(cards[l]) <= MaxVersions
                          /\ DOMAIN cards[l] = 1 .. Len(cards[l])
                          /\ \A v \in 1 .. Len(cards[l]) : cards[l][v] \in CardRows
  BY LenProperties, ElementOfSeq DEF TypeOK
<1>2. MaxVersions \in Nat
  BY LineageBounds
<1>3. ASSUME NEW id \in Minted
      PROVE  /\ id[1] \in Lineages /\ id[2] \in 1 .. Len(cards[id[1]])
             /\ id = <<id[1], id[2]>>
  BY <1>1, <1>2 DEF Minted, CardIds
<1>4. ASSUME NEW l \in Lineages, NEW v \in 1 .. Len(cards[l])
      PROVE  <<l, v>> \in Minted /\ v \in 1 .. MaxVersions
  <2>1. v \in 1 .. MaxVersions
    BY <1>1, <1>2
  <2>2. <<l, v>> \in CardIds
    BY <2>1 DEF CardIds
  <2> QED
    BY <2>1, <2>2 DEF Minted
<1> QED
  BY <1>1, <1>3, <1>4 DEF Card, Minted

\* The kinds of steps a lineage can take: a version is minted, or a card walks
\* along the diagram.
Minting(l, row) ==
    /\ Len(cards[l]) < MaxVersions /\ ~KeyTaken(l, row.action, row.pv)
    /\ cards' = [cards EXCEPT ![l] = Append(cards[l], row)]
    /\ row.state = "draft"
    /\ row.rec \in DOMAIN recs'[l] /\ recs'[l][row.rec].approvable
    /\ \/ row.action = Len(cards[l]) + 1 /\ row.pv = 1
       \/ \E u \in DOMAIN cards[l] :
             row.action = cards[l][u].action /\ row.pv = cards[l][u].pv + 1

LEMMA MintEffect ==
  ASSUME TypeOK, NEW l \in Lineages, NEW row \in CardRows, Minting(l, row)
  PROVE  /\ cards' \in [Lineages -> Seq(CardRows)]
         /\ \A m \in Lineages \ {l} : cards'[m] = cards[m]
         /\ Len(cards'[l]) = Len(cards[l]) + 1
         /\ DOMAIN cards'[l] = 1 .. (Len(cards[l]) + 1)
         /\ \A v \in DOMAIN cards[l] : cards'[l][v] = cards[l][v]
         /\ cards'[l][Len(cards[l]) + 1] = row
         /\ \A m \in Lineages : Len(cards'[m]) <= MaxVersions
<1>t. /\ cards[l] \in Seq(CardRows) /\ Len(cards[l]) \in Nat
      /\ DOMAIN cards[l] = 1 .. Len(cards[l])
      /\ cards \in [Lineages -> Seq(CardRows)] /\ MaxVersions \in Nat
      /\ \A m \in Lineages : Len(cards[m]) <= MaxVersions
  BY MintedAre, LineageBounds DEF TypeOK
<1>1. cards' = [cards EXCEPT ![l] = Append(cards[l], row)] /\ Len(cards[l]) < MaxVersions
  BY DEF Minting
<1>2. /\ Append(cards[l], row) \in Seq(CardRows)
      /\ Len(Append(cards[l], row)) = Len(cards[l]) + 1
      /\ \A v \in 1 .. Len(cards[l]) : Append(cards[l], row)[v] = cards[l][v]
      /\ Append(cards[l], row)[Len(cards[l]) + 1] = row
  BY <1>t, AppendProperties
<1>3. DOMAIN Append(cards[l], row) = 1 .. (Len(cards[l]) + 1)
  BY <1>2, LenProperties
<1>4. cards'[l] = Append(cards[l], row) /\ \A m \in Lineages \ {l} : cards'[m] = cards[m]
  BY <1>t, <1>1
<1>5. cards' \in [Lineages -> Seq(CardRows)]
  BY <1>t, <1>1, <1>2
<1> QED
  BY <1>t, <1>1, <1>2, <1>3, <1>4, <1>5

Moving(id, to) == id \in Minted /\ to \in States /\ Advance(id, to)

LEMMA MoveEffect ==
  ASSUME TypeOK, NEW id, NEW to, Moving(id, to)
  PROVE  /\ cards' \in [Lineages -> Seq(CardRows)]
         /\ \A m \in Lineages : /\ Len(cards'[m]) = Len(cards[m])
                                /\ DOMAIN cards'[m] = DOMAIN cards[m]
         /\ \A m \in Lineages : \A v \in DOMAIN cards[m] :
               <<m, v>> # id => cards'[m][v] = cards[m][v]
         /\ LET c == cards'[id[1]][id[2]]
            IN  /\ c.rec = Card(id).rec /\ c.action = Card(id).action
                /\ c.pv = Card(id).pv /\ c.state = to
<1> DEFINE l == id[1]
           row == [cards[l][id[2]] EXCEPT !.state = to]
<1>t. /\ l \in Lineages /\ id[2] \in 1 .. Len(cards[l]) /\ id = <<l, id[2]>>
      /\ Card(id) = cards[l][id[2]] /\ Card(id) \in CardRows
      /\ cards[l] \in Seq(CardRows) /\ cards \in [Lineages -> Seq(CardRows)]
      /\ \A m \in Lineages : DOMAIN cards[m] = 1 .. Len(cards[m])
  BY MintedAre DEF Moving, TypeOK
<1>1. cards' = [cards EXCEPT ![l] = [cards[l] EXCEPT ![id[2]] = row]]
  BY DEF Moving, Advance
<1>2. /\ row \in CardRows /\ row.rec = Card(id).rec /\ row.action = Card(id).action
      /\ row.pv = Card(id).pv /\ row.state = to
  BY <1>t DEF CardRows, Moving
<1> HIDE DEF row
<1>3. /\ [cards[l] EXCEPT ![id[2]] = row] \in Seq(CardRows)
      /\ Len([cards[l] EXCEPT ![id[2]] = row]) = Len(cards[l])
      /\ \A v \in 1 .. Len(cards[l]) :
            [cards[l] EXCEPT ![id[2]] = row][v] = IF v = id[2] THEN row ELSE cards[l][v]
  BY <1>t, <1>2, ExceptSeq
<1>4. /\ cards'[l] = [cards[l] EXCEPT ![id[2]] = row]
      /\ \A m \in Lineages \ {l} : cards'[m] = cards[m]
      /\ cards' \in [Lineages -> Seq(CardRows)]
  BY <1>t, <1>1, <1>3
<1>5. \A m \in Lineages : /\ Len(cards'[m]) = Len(cards[m])
                          /\ DOMAIN cards'[m] = DOMAIN cards[m]
  <2> TAKE m \in Lineages
  <2>1. DOMAIN cards'[m] = 1 .. Len(cards'[m])
    BY <1>4, LenProperties
  <2> QED
    BY <1>t, <1>3, <1>4, <2>1
<1>6. ASSUME NEW m \in Lineages, NEW v \in DOMAIN cards[m], <<m, v>> # id
      PROVE  cards'[m][v] = cards[m][v]
  <2>1. CASE m = l
    BY <1>t, <1>3, <1>4, <1>6, <2>1
  <2>2. CASE m # l
    BY <1>4, <2>2
  <2> QED
    BY <2>1, <2>2
<1>7. cards'[l][id[2]] = row
  BY <1>t, <1>3, <1>4
<1> QED
  BY <1>2, <1>4, <1>5, <1>6, <1>7

-----------------------------------------------------------------------------
(***************************************************************************)
(* Recommendations only gain versions.                                     *)
(***************************************************************************)
PassRecords == [pc: {"idle", "dedup", "produce"}, lineage: Lineages \cup {"none"},
                ctx: Nat, expiry: Nat, overtaken: BOOLEAN]

RunRecords == [pc: {"idle", "member", "read", "decide", "reread"},
               bulk: BOOLEAN, card: CardIds \cup {NoCard},
               member: Members \cup {NoCard}, control: BOOLEAN,
               matches: BOOLEAN, now: Nat, bound: 0 .. MaxSelections,
               todo: SUBSET Members]

LEMMA RecsKeep ==
  ASSUME LineageInv, [Next]_vars
  PROVE  /\ recs' \in [Lineages -> Seq(RecRows)]
         /\ \A l \in Lineages : \A r \in DOMAIN recs[l] :
               r \in DOMAIN recs'[l] /\ recs'[l][r] = recs[l][r]
<1>t. /\ TypeOK /\ recs \in [Lineages -> Seq(RecRows)]
      /\ pass \in [Passes -> PassRecords]
  BY DEF LineageInv, TypeOK, PassRecords
<1>1. CASE \E p \in Passes, ok \in BOOLEAN : ProduceVersion(p, ok)
  <2>1. PICK p \in Passes, ok \in BOOLEAN : ProduceVersion(p, ok)
    BY <1>1
  <2> DEFINE l == pass[p].lineage
             row == [ctx |-> pass[p].ctx, approvable |-> ok, expiry |-> pass[p].expiry,
                     behind |-> pass[p].overtaken]
  <2>2. l \in Lineages /\ row \in RecRows
    BY <1>t, <2>1 DEF LineageInv, PassesAreSound, ProduceVersion, PassRecords, RecRows
  <2>3. recs' = [recs EXCEPT ![l] = Append(recs[l], row)]
    BY <2>1 DEF ProduceVersion
  <2> HIDE DEF row, l
  <2>4. /\ Append(recs[l], row) \in Seq(RecRows)
        /\ Len(Append(recs[l], row)) = Len(recs[l]) + 1
        /\ \A r \in 1 .. Len(recs[l]) : Append(recs[l], row)[r] = recs[l][r]
        /\ Len(recs[l]) \in Nat /\ DOMAIN recs[l] = 1 .. Len(recs[l])
    BY <1>t, <2>2, AppendProperties, LenProperties
  <2>5. DOMAIN Append(recs[l], row) = 1 .. (Len(recs[l]) + 1)
    BY <2>4, LenProperties
  <2>6. /\ recs' \in [Lineages -> Seq(RecRows)]
        /\ recs'[l] = Append(recs[l], row)
        /\ \A m \in Lineages \ {l} : recs'[m] = recs[m]
    BY <1>t, <2>2, <2>3, <2>4
  <2>7. ASSUME NEW m \in Lineages, NEW r \in DOMAIN recs[m]
        PROVE  r \in DOMAIN recs'[m] /\ recs'[m][r] = recs[m][r]
    <3>1. CASE m = l
      <4>1. r \in 1 .. Len(recs[l]) /\ r \in 1 .. (Len(recs[l]) + 1)
        BY <2>4, <2>7, <3>1
      <4> QED
        BY <2>4, <2>5, <2>6, <3>1, <4>1
    <3>2. CASE m # l
      BY <2>6, <2>7, <3>2
    <3> QED
      BY <3>1, <3>2
  <2> QED
    BY <2>6, <2>7
<1>2. CASE ~\E p \in Passes, ok \in BOOLEAN : ProduceVersion(p, ok)
  <2>1. recs' = recs
    BY <1>2 DEF Next, vars, EvidenceArrives, ListEligible, DedupRead, PassFails,
       PrepareRecommendationDraft, EditPrice, ReviewCard, ExecutionAdvances,
       InvalidateDependent, Tick, Confirm, ConfirmRead, ConfirmDecide, BulkDone,
       BulkReread, RequestFails, Crash, PreviewBulkSelection, ConfirmBulkSelection,
       BulkMember
  <2> QED
    BY <1>t, <2>1
<1> QED
  BY <1>1, <1>2

-----------------------------------------------------------------------------
(***************************************************************************)
(* What a step of the whole plane does to the cards.                       *)
(***************************************************************************)

\* Three kinds of steps leave the evidence of every approval alone: one that
\* leaves the cards alone, one that mints a card, and one that neither enters
\* an authorized state from outside nor leaves the authorized states but for an
\* invalidation.  The fourth is the approval of the head of a lineage.
Unapproved == UNCHANGED <<confirmations, intents>>

Stays == cards' = cards /\ Unapproved

Mints == Unapproved /\ \E l \in Lineages, row \in CardRows : Minting(l, row)

Harmless(from, to) ==
    /\ StateHasAuthorized(to) => StateHasAuthorized(from)
    /\ StateHasAuthorized(from) => StateHasAuthorized(to) \/ to = "invalidated"
    /\ from # "invalidated"
    /\ CanTransition(from, to) \/ (from = "approved" /\ to = "invalidated")

Walks == Unapproved /\ \E id \in Minted, to \in States :
            Moving(id, to) /\ Harmless(Card(id).state, to)

Approves(w) ==
    LET id == run[w].card
    IN  /\ run[w].pc = "decide" /\ id \in Minted
        /\ Card(id).state = "awaiting_confirmation"
        /\ IsCurrent(id) /\ run[w].now < Card(id).expiry
        /\ Moving(id, "approved") /\ Authorize(id, run[w].bound)

LEMMA DraftMints ==
  ASSUME TypeOK, Unapproved, NEW l \in Lineages, NEW r \in Nat, NEW action \in Nat,
         NEW pv \in Nat, NEW expiry \in Nat, MintDraft(l, r, action, pv, expiry),
         r \in DOMAIN recs'[l], recs'[l][r].approvable,
         \/ action = Len(cards[l]) + 1 /\ pv = 1
         \/ \E u \in DOMAIN cards[l] : action = cards[l][u].action /\ pv = cards[l][u].pv + 1
  PROVE  Mints
<1> DEFINE row == [rec |-> r, action |-> action, pv |-> pv, expiry |-> expiry,
                   state |-> "draft"]
<1>1. row \in CardRows
  BY DEF CardRows, States
<1>2. cards' = [cards EXCEPT ![l] = Append(cards[l], row)]
  BY DEF MintDraft
<1>3. Minting(l, row)
  BY <1>2 DEF Minting, MintDraft
<1> QED
  BY <1>1, <1>3 DEF Mints

\* A decision on a card that waits for its confirmation.
LEMMA DecideFlow ==
  ASSUME LineageInv, NEW w \in Callers, ConfirmDecide(w)
  PROVE  Stays \/ Walks \/ Approves(w)
<1> DEFINE id == run[w].card
           to == ConfirmOutcome(id, run[w].matches, run[w].now)
<1>t. /\ TypeOK /\ run[w] \in RunRecords /\ id \in Minted /\ run[w].pc = "decide"
      /\ Card(id) \in CardRows
  BY MintedAre DEF LineageInv, TypeOK, RunRecords, RequestsAreSound, InFlight, ConfirmDecide
<1>n. run[w].now \in Nat /\ Card(id).expiry \in Nat
  BY <1>t DEF RunRecords, CardRows
<1>1. CASE run[w].control /\ GuardedConfirm(id, to)
  <2>1. Advance(id, to) /\ Card(id).state = "awaiting_confirmation"
    BY <1>1 DEF ConfirmDecide, GuardedConfirm, MayAdvance
  <2>2. CASE to = "approved"
    <3>1. IsCurrent(id) /\ run[w].now < Card(id).expiry
      BY <1>n, <2>2 DEF ConfirmOutcome
    <3>2. Authorize(id, run[w].bound)
      BY <1>1, <2>2 DEF ConfirmDecide
    <3>3. Moving(id, "approved")
      BY <1>t, <2>1, <2>2 DEF Moving, States
    <3> QED
      BY <1>t, <2>1, <3>1, <3>2, <3>3 DEF Approves
  <2>3. CASE to # "approved"
    <3>1. to \in {"invalidated", "expired"}
      BY <2>3 DEF ConfirmOutcome
    <3>2. Unapproved
      BY <1>1, <2>3 DEF ConfirmDecide, Unapproved
    <3>3. Moving(id, to) /\ to \in States
      BY <1>t, <2>1, <3>1 DEF Moving, States
    <3>4. Harmless(Card(id).state, to)
      BY <1>1, <2>1, <3>1 DEF Harmless, StateHasAuthorized, GuardedConfirm, MayAdvance
    <3> HIDE DEF id, to
    <3> QED
      BY <1>t, <3>2, <3>3, <3>4 DEF Walks
  <2> QED
    BY <2>2, <2>3
<1>2. CASE ~(run[w].control /\ GuardedConfirm(id, to))
  BY <1>2 DEF ConfirmDecide, Stays, Unapproved
<1> QED
  BY <1>1, <1>2

\* Every step is one of the four.
LEMMA CardFlow ==
  ASSUME LineageInv, [Next]_vars
  PROVE  Stays \/ Mints \/ Walks \/ \E w \in Callers : ConfirmDecide(w) /\ Approves(w)
<1>t. /\ TypeOK /\ clock \in Nat /\ pass \in [Passes -> PassRecords]
      /\ recs \in [Lineages -> Seq(RecRows)]
  BY LineageBounds DEF LineageInv, TypeOK, PassRecords
<1>r. /\ recs' \in [Lineages -> Seq(RecRows)]
      /\ \A l \in Lineages : \A r \in DOMAIN recs[l] :
               r \in DOMAIN recs'[l] /\ recs'[l][r] = recs[l][r]
  BY RecsKeep
<1>s. \A l \in Lineages : /\ DOMAIN recs[l] = 1 .. Len(recs[l])
                          /\ Len(recs[l]) \in Nat /\ Len(cards[l]) \in Nat
                          /\ \A r \in DOMAIN recs[l] : recs[l][r] \in RecRows
  BY <1>t, MintedAre, LenProperties, ElementOfSeq
<1>1. ASSUME NEW p \in Passes, NEW ok \in BOOLEAN, ProduceVersion(p, ok)
      PROVE  Stays \/ Mints
  <2> DEFINE l == pass[p].lineage
             r == Len(recs[l]) + 1
             row == [ctx |-> pass[p].ctx, approvable |-> ok, expiry |-> pass[p].expiry,
                     behind |-> pass[p].overtaken]
  <2>1. /\ l \in Lineages /\ row \in RecRows /\ pass[p].expiry \in Nat
        /\ row.approvable = ok
    BY <1>t, <1>1 DEF LineageInv, PassesAreSound, ProduceVersion, PassRecords, RecRows
  <2>2. /\ recs' = [recs EXCEPT ![l] = Append(recs[l], row)]
        /\ Unapproved
        /\ ok => MintDraft(l, r, Len(cards[l]) + 1, 1, pass[p].expiry)
        /\ ~ok => cards' = cards
    BY <1>1 DEF ProduceVersion, Unapproved
  <2> HIDE DEF row
  <2>3. recs'[l][r] = row /\ r \in DOMAIN recs'[l]
    <3>1. recs'[l] = Append(recs[l], row)
      BY <1>t, <2>1, <2>2
    <3>2. /\ Append(recs[l], row)[r] = row /\ Len(Append(recs[l], row)) = r
          /\ Append(recs[l], row) \in Seq(RecRows)
      BY <1>t, <2>1, AppendProperties
    <3>3. r \in 1 .. r
      BY <1>s, <2>1
    <3> QED
      BY <3>1, <3>2, <3>3, LenProperties
  <2>4. CASE ok
    <3>1. recs'[l][r].approvable
      BY <2>1, <2>3, <2>4
    <3>2. r \in Nat /\ Len(cards[l]) + 1 \in Nat /\ 1 \in Nat
      BY <1>s, <2>1
    <3> HIDE DEF r, l
    <3> QED
      BY <1>t, <2>1, <2>2, <2>3, <2>4, <3>1, <3>2, DraftMints
  <2>5. CASE ~ok
    BY <2>2, <2>5 DEF Stays
  <2> QED
    BY <2>4, <2>5
<1>2. ASSUME NEW l \in Lineages, NEW r \in DOMAIN recs[l], PrepareRecommendationDraft(l, r)
      PROVE  Mints
  <2>1. recs' = recs /\ Unapproved /\ recs[l][r].approvable
        /\ MintDraft(l, r, Len(cards[l]) + 1, 1, recs[l][r].expiry)
    BY <1>2 DEF PrepareRecommendationDraft, Unapproved
  <2>2. r \in Nat /\ Len(cards[l]) + 1 \in Nat /\ recs[l][r].expiry \in Nat
    BY <1>s DEF RecRows
  <2> QED
    BY <1>t, <2>1, <2>2, DraftMints
<1>3. ASSUME NEW id \in CardIds, EditPrice(id)
      PROVE  Mints
  <2>1. /\ id \in Minted /\ Unapproved /\ recs' = recs
        /\ MintDraft(id[1], Card(id).rec, Card(id).action, Card(id).pv + 1, Expiry)
    BY <1>3 DEF EditPrice, Unapproved
  <2>2. /\ id[1] \in Lineages /\ id[2] \in DOMAIN cards[id[1]]
        /\ Card(id) = cards[id[1]][id[2]] /\ Card(id) \in CardRows
    BY <1>t, <2>1, MintedAre
  <2>3. /\ Card(id).rec \in Nat /\ Card(id).action \in Nat /\ Card(id).pv + 1 \in Nat
        /\ Expiry \in Nat
    BY <1>t, <2>2 DEF CardRows, Expiry
  <2>4. Card(id).rec \in DOMAIN recs[id[1]] /\ recs[id[1]][Card(id).rec].approvable
    BY <2>2 DEF LineageInv, RowsAreBound
  <2>5. \E u \in DOMAIN cards[id[1]] : /\ Card(id).action = cards[id[1]][u].action
                                       /\ Card(id).pv + 1 = cards[id[1]][u].pv + 1
    BY <2>2
  <2> QED
    BY <1>t, <2>1, <2>2, <2>3, <2>4, <2>5, DraftMints
<1>4. ASSUME NEW id \in CardIds, NEW to \in States, ReviewCard(id, to)
      PROVE  Walks
  <2>1. Moving(id, to) /\ Unapproved /\ id \in Minted
    BY <1>4 DEF ReviewCard, Moving, Unapproved
  <2>2. Harmless(Card(id).state, to)
    BY <1>4 DEF ReviewCard, MayAdvance, CanTransition, Transitions, Harmless,
       StateHasAuthorized
  <2> QED
    BY <2>1, <2>2 DEF Walks
<1>5. ASSUME NEW id \in CardIds, NEW to \in States, ExecutionAdvances(id, to)
      PROVE  Walks
  <2>1. Moving(id, to) /\ Unapproved /\ id \in Minted
    BY <1>5 DEF ExecutionAdvances, Moving, Unapproved
  <2>2. Harmless(Card(id).state, to)
    BY <1>5 DEF ExecutionAdvances, MayAdvance, Harmless, StateHasAuthorized, CanTransition,
       Transitions
  <2> QED
    BY <2>1, <2>2 DEF Walks
<1>6. ASSUME NEW id \in CardIds, InvalidateDependent(id)
      PROVE  Walks
  <2>1. Moving(id, "invalidated") /\ Unapproved /\ id \in Minted /\ "invalidated" \in States
    BY <1>6 DEF InvalidateDependent, Moving, Unapproved, States
  <2>2. Harmless(Card(id).state, "invalidated")
    BY <1>6 DEF InvalidateDependent, Harmless, StateHasAuthorized, CanTransition, Transitions
  <2> QED
    BY <2>1, <2>2 DEF Walks
<1>7. CASE \/ UNCHANGED vars \/ Tick
           \/ \E l \in Lineages : EvidenceArrives(l)
           \/ \E p \in Passes, l \in Lineages : ListEligible(p, l)
           \/ \E p \in Passes : DedupRead(p) \/ PassFails(p)
  BY <1>7 DEF vars, Tick, EvidenceArrives, ListEligible, DedupRead, PassFails, Stays,
     Unapproved
<1>8. CASE \/ \E w \in Callers, id \in CardIds, ok \in BOOLEAN : Confirm(w, id, ok)
           \/ \E w \in Callers : ConfirmRead(w) \/ BulkDone(w) \/ BulkReread(w)
                 \/ RequestFails(w) \/ Crash(w)
           \/ \E members \in SUBSET Members : PreviewBulkSelection(members)
           \/ \E w \in Callers, bound \in 1 .. MaxSelections : ConfirmBulkSelection(w, bound)
           \/ \E w \in Callers : \E m \in run[w].todo : BulkMember(w, m)
  BY <1>8 DEF Confirm, ConfirmRead, BulkDone, BulkReread, RequestFails, Crash,
     PreviewBulkSelection, ConfirmBulkSelection, BulkMember, Stays, Unapproved
<1> QED
  BY <1>1, <1>2, <1>3, <1>4, <1>5, <1>6, <1>7, <1>8, DecideFlow DEF Next

\* A card keeps everything but its state, and is never unminted.
LEMMA CardsKeep ==
  ASSUME LineageInv, [Next]_vars
  PROVE  /\ cards' \in [Lineages -> Seq(CardRows)]
         /\ \A l \in Lineages : Len(cards'[l]) <= MaxVersions
         /\ \A l \in Lineages : \A v \in DOMAIN cards[l] :
               /\ v \in DOMAIN cards'[l]
               /\ cards'[l][v].rec = cards[l][v].rec
               /\ cards'[l][v].action = cards[l][v].action
               /\ cards'[l][v].pv = cards[l][v].pv
<1>t. /\ TypeOK /\ cards \in [Lineages -> Seq(CardRows)]
      /\ \A l \in Lineages : /\ Len(cards[l]) <= MaxVersions
                             /\ DOMAIN cards[l] = 1 .. Len(cards[l]) /\ Len(cards[l]) \in Nat
  BY MintedAre DEF LineageInv, TypeOK
<1>1. CASE cards' = cards
  BY <1>t, <1>1
<1>2. ASSUME NEW l \in Lineages, NEW row \in CardRows, Minting(l, row),
             NEW m \in Lineages, NEW v \in DOMAIN cards[m]
      PROVE  v \in DOMAIN cards'[m] /\ cards'[m][v] = cards[m][v]
  <2>1. CASE m = l
    BY <1>t, <1>2, <2>1, MintEffect
  <2>2. CASE m # l
    BY <1>t, <1>2, <2>2, MintEffect
  <2> QED
    BY <2>1, <2>2
<1>3. ASSUME NEW id, NEW to, Moving(id, to), NEW m \in Lineages, NEW v \in DOMAIN cards[m]
      PROVE  /\ v \in DOMAIN cards'[m]
             /\ cards'[m][v].rec = cards[m][v].rec
             /\ cards'[m][v].action = cards[m][v].action
             /\ cards'[m][v].pv = cards[m][v].pv
  <2>1. CASE <<m, v>> = id
    <3>1. id[1] = m /\ id[2] = v
      BY <2>1
    <3>2. Card(id) = cards[m][v] /\ Card(id) \in CardRows
      BY <1>t, <1>3, <3>1, MintedAre DEF Moving
    <3>3. /\ cards'[m][v].rec = Card(id).rec /\ cards'[m][v].action = Card(id).action
          /\ cards'[m][v].pv = Card(id).pv
      BY <1>t, <1>3, <3>1, MoveEffect
    <3>4. v \in DOMAIN cards'[m]
      BY <1>t, <1>3, MoveEffect
    <3> QED
      BY <3>2, <3>3, <3>4
  <2>2. CASE <<m, v>> # id
    <3>1. \A n \in Lineages : \A u \in DOMAIN cards[n] :
             <<n, u>> # id => cards'[n][u] = cards[n][u]
      BY <1>t, <1>3, MoveEffect
    <3>2. cards'[m][v] = cards[m][v]
      BY <1>3, <2>2, <3>1
    <3>3. v \in DOMAIN cards'[m]
      BY <1>t, <1>3, MoveEffect
    <3> QED
      BY <3>2, <3>3
  <2> QED
    BY <2>1, <2>2
<1>4. CASE Mints
  BY <1>t, <1>2, <1>4, MintEffect DEF Mints
<1>5. ASSUME NEW id, NEW to, Moving(id, to)
      PROVE  /\ cards' \in [Lineages -> Seq(CardRows)]
             /\ \A l \in Lineages : Len(cards'[l]) <= MaxVersions
  BY <1>t, <1>5, MoveEffect
<1>6. CASE \E id, to : Moving(id, to)
  BY <1>3, <1>5, <1>6
<1> QED
  BY <1>1, <1>4, <1>6, CardFlow DEF Stays, Walks, Approves

\* The cards of a recommendation only increase.
LEMMA CardsOfKeep ==
  ASSUME LineageInv, [Next]_vars
  PROVE  /\ Minted \subseteq Minted'
         /\ \A m \in Members : CardsOf(m) \subseteq CardsOf(m)'
<1>t. TypeOK
  BY DEF LineageInv
<1>1. ASSUME NEW id \in Minted
      PROVE  id \in Minted' /\ Card(id)'.rec = Card(id).rec
  <2>1. /\ id[1] \in Lineages /\ id[2] \in DOMAIN cards[id[1]] /\ id \in CardIds
        /\ Card(id) = cards[id[1]][id[2]]
    BY <1>t, MintedAre
  <2>2. /\ id[2] \in DOMAIN cards'[id[1]]
        /\ cards'[id[1]][id[2]].rec = cards[id[1]][id[2]].rec
        /\ cards'[id[1]] \in Seq(CardRows)
    BY <2>1, CardsKeep
  <2>3. id[2] \in 1 .. Len(cards'[id[1]]) /\ Len(cards'[id[1]]) \in Nat
    BY <2>2, LenProperties
  <2>4. id[2] <= Len(cards'[id[1]])
    BY <2>3
  <2> QED
    BY <2>1, <2>2, <2>4 DEF Minted, Card
<1> QED
  BY <1>1 DEF CardsOf

-----------------------------------------------------------------------------
(***************************************************************************)
(* Parameter versions.                                                     *)
(***************************************************************************)

\* A key that is taken stays taken.
KeyTakenNext(l, action, pv) ==
    \E v \in DOMAIN cards'[l] : cards'[l][v].action = action /\ cards'[l][v].pv = pv

LEMMA KeysKeep ==
  ASSUME LineageInv, [Next]_vars
  PROVE  \A l \in Lineages : \A u \in DOMAIN cards[l] :
            KeyTakenNext(l, cards[l][u].action, cards[l][u].pv)
BY CardsKeep DEF KeyTakenNext

\* The version that is minted follows the ones before it, and every card keeps
\* what it was bound to.
LEMMA RowsAreBoundNext == LineageInv /\ [Next]_vars => RowsAreBound'
<1> SUFFICES ASSUME LineageInv, [Next]_vars PROVE RowsAreBound'
  OBVIOUS
<1>t. TypeOK /\ RowsAreBound
  BY DEF LineageInv
<1> DEFINE Bound(l, v) == LET c == cards'[l][v]
                          IN  /\ c.rec \in DOMAIN recs'[l] /\ recs'[l][c.rec].approvable
                              /\ c.action \in 1 .. v /\ c.pv >= 1
                              /\ \A q \in 1 .. c.pv : KeyTakenNext(l, c.action, q)
<1> SUFFICES ASSUME NEW l \in Lineages, NEW v \in DOMAIN cards'[l] PROVE Bound(l, v)
  BY DEF RowsAreBound, KeyTaken, KeyTakenNext
<1>k. ASSUME NEW m \in Lineages, NEW u \in DOMAIN cards[m],
             NEW q \in 1 .. cards[m][u].pv
      PROVE  KeyTakenNext(m, cards[m][u].action, q)
  <2>1. KeyTaken(m, cards[m][u].action, q)
    BY <1>k, <1>t DEF RowsAreBound
  <2>2. PICK w \in DOMAIN cards[m] :
          cards[m][w].action = cards[m][u].action /\ cards[m][w].pv = q
    BY <2>1 DEF KeyTaken
  <2> QED
    BY <2>2, KeysKeep
<1>1. CASE v \in DOMAIN cards[l]
  <2> DEFINE c == cards[l][v]
  <2>1. /\ c.rec \in DOMAIN recs[l] /\ recs[l][c.rec].approvable
        /\ c.action \in 1 .. v /\ c.pv >= 1
    BY <1>t, <1>1 DEF RowsAreBound
  <2>2. /\ cards'[l][v].rec = c.rec /\ cards'[l][v].action = c.action
        /\ cards'[l][v].pv = c.pv
    BY <1>1, CardsKeep
  <2>3. c.rec \in DOMAIN recs'[l] /\ recs'[l][c.rec].approvable
    BY <2>1, RecsKeep
  <2>4. \A q \in 1 .. c.pv : KeyTakenNext(l, c.action, q)
    BY <1>1, <1>k
  <2> HIDE DEF c
  <2> QED
    BY <2>1, <2>2, <2>3, <2>4
<1>2. CASE v \notin DOMAIN cards[l]
  <2>1. Mints
    <3>1. \A id, to : Moving(id, to) => DOMAIN cards'[l] = DOMAIN cards[l]
      BY <1>t, MoveEffect
    <3> QED
      BY <1>2, <3>1, CardFlow DEF Stays, Walks, Approves
  <2>2. PICK m \in Lineages, row \in CardRows : Minting(m, row)
    BY <2>1 DEF Mints
  <2>3. /\ m = l /\ v = Len(cards[l]) + 1 /\ cards'[l][v] = row
        /\ v \in DOMAIN cards'[l] /\ Len(cards[l]) \in Nat
        /\ DOMAIN cards[l] = 1 .. Len(cards[l])
        /\ \A u \in DOMAIN cards[l] : u \in DOMAIN cards'[l] /\ cards'[l][u] = cards[l][u]
    <3>1. DOMAIN cards[l] = 1 .. Len(cards[l]) /\ Len(cards[l]) \in Nat
      BY <1>t, MintedAre
    <3>2. m = l
      BY <1>2, <1>t, <2>2, MintEffect
    <3> QED
      BY <1>2, <1>t, <2>2, <3>1, <3>2, MintEffect
  <2>4. row.rec \in DOMAIN recs'[l] /\ recs'[l][row.rec].approvable
    BY <2>2, <2>3 DEF Minting
  <2>k. KeyTakenNext(l, row.action, row.pv)
    BY <2>3 DEF KeyTakenNext
  <2>5. CASE row.action = Len(cards[l]) + 1 /\ row.pv = 1
    <3>1. \A q \in 1 .. row.pv : q = row.pv
      BY <2>5
    <3>2. row.action \in 1 .. v /\ row.pv >= 1
      BY <2>3, <2>5
    <3> QED
      BY <2>3, <2>4, <2>k, <3>1, <3>2
  <2>6. ASSUME NEW u \in DOMAIN cards[l],
               row.action = cards[l][u].action /\ row.pv = cards[l][u].pv + 1
        PROVE  Bound(l, v)
    <3>1. /\ cards[l][u].action \in 1 .. u /\ cards[l][u].pv >= 1
      BY <1>t DEF RowsAreBound
    <3>2. cards[l][u].pv \in Nat /\ u \in 1 .. Len(cards[l])
      BY <1>t, <2>3, MintedAre, ElementOfSeq DEF CardRows
    <3>3. row.action \in 1 .. v /\ row.pv >= 1
      BY <2>3, <2>6, <3>1, <3>2
    <3>4. \A q \in 1 .. row.pv : q \in 1 .. cards[l][u].pv \/ q = row.pv
      BY <2>6, <3>2
    <3>5. \A q \in 1 .. cards[l][u].pv : KeyTakenNext(l, row.action, q)
      BY <2>6, <1>k
    <3>6. \A q \in 1 .. row.pv : KeyTakenNext(l, row.action, q)
      BY <2>k, <3>4, <3>5
    <3> QED
      BY <2>3, <2>4, <3>3, <3>6
  <2> QED
    BY <2>2, <2>3, <2>5, <2>6 DEF Minting
<1> QED
  BY <1>1, <1>2

\* An edit whose version would not be the last of its action collides on the
\* idempotency key: the versions in between are there.
LEMMA EditsAreOrderedNext == LineageInv /\ [Next]_vars => EditsAreOrdered'
<1> SUFFICES ASSUME LineageInv, [Next]_vars PROVE EditsAreOrdered'
  OBVIOUS
<1>t. TypeOK /\ RowsAreBound /\ EditsAreOrdered
  BY DEF LineageInv
<1> SUFFICES ASSUME NEW l \in Lineages, NEW u \in DOMAIN cards'[l], NEW v \in DOMAIN cards'[l],
                    u < v, cards'[l][u].action = cards'[l][v].action
             PROVE  cards'[l][u].pv < cards'[l][v].pv
  BY DEF EditsAreOrdered
<1>1. CASE u \in DOMAIN cards[l] /\ v \in DOMAIN cards[l]
  <2>1. /\ cards'[l][u].action = cards[l][u].action /\ cards'[l][u].pv = cards[l][u].pv
        /\ cards'[l][v].action = cards[l][v].action /\ cards'[l][v].pv = cards[l][v].pv
    BY <1>1, CardsKeep
  <2> QED
    BY <1>t, <1>1, <2>1 DEF EditsAreOrdered
<1>2. CASE ~(u \in DOMAIN cards[l] /\ v \in DOMAIN cards[l])
  <2>1. Mints
    <3>1. \A id, to : Moving(id, to) => DOMAIN cards'[l] = DOMAIN cards[l]
      BY <1>t, MoveEffect
    <3> QED
      BY <1>2, <3>1, CardFlow DEF Stays, Walks, Approves
  <2>2. PICK m \in Lineages, row \in CardRows : Minting(m, row)
    BY <2>1 DEF Mints
  <2>3. DOMAIN cards[l] = 1 .. Len(cards[l]) /\ Len(cards[l]) \in Nat
    BY <1>t, MintedAre
  <2>4. m = l
    BY <1>2, <1>t, <2>2, MintEffect
  <2>5. /\ u \in DOMAIN cards[l] /\ v = Len(cards[l]) + 1
        /\ cards'[l][u] = cards[l][u] /\ cards'[l][v] = row
    <3>1. DOMAIN cards'[l] = 1 .. (Len(cards[l]) + 1)
      BY <1>t, <2>2, <2>4, MintEffect
    <3>2. v = Len(cards[l]) + 1 /\ u \in DOMAIN cards[l]
      BY <1>2, <2>3, <3>1
    <3> QED
      BY <1>t, <2>2, <2>4, <3>2, MintEffect
  <2>6. /\ cards[l][u].action \in 1 .. u /\ cards[l][u].pv \in Nat /\ row.pv \in Nat
        /\ \A q \in 1 .. cards[l][u].pv : KeyTaken(l, cards[l][u].action, q)
        /\ row.action = cards[l][u].action
    BY <1>t, <2>3, <2>5, MintedAre, ElementOfSeq DEF CardRows, RowsAreBound
  <2>7. CASE row.action = Len(cards[l]) + 1
    BY <2>3, <2>5, <2>6, <2>7
  <2>8. CASE row.action # Len(cards[l]) + 1
    <3>1. PICK w \in DOMAIN cards[l] : row.pv = cards[l][w].pv + 1
      BY <2>2, <2>4, <2>8 DEF Minting
    <3>2. cards[l][w].pv \in Nat
      BY <1>t, <2>3, MintedAre, ElementOfSeq DEF CardRows
    <3>3. row.pv \notin 1 .. cards[l][u].pv
      BY <2>2, <2>4, <2>6 DEF Minting
    <3> QED
      BY <2>5, <2>6, <3>1, <3>2, <3>3
  <2> QED
    BY <2>7, <2>8
<1> QED
  BY <1>1, <1>2

\* A recommendation with a card has a newest one: the last that was minted.
LEMMA HeadsExistNext == LineageInv /\ [Next]_vars => HeadsExist'
<1> SUFFICES ASSUME LineageInv, [Next]_vars,
                    NEW m \in Members, NEW d0 \in CardsOf(m)'
             PROVE  \E id \in CardsOf(m)' : \A d \in CardsOf(m)' : d[2] <= id[2]
  BY DEF HeadsExist
<1>t. TypeOK /\ HeadsExist
  BY DEF LineageInv
<1>1. CASE CardsOf(m)' = CardsOf(m)
  BY <1>t, <1>1 DEF HeadsExist
<1>2. CASE CardsOf(m)' # CardsOf(m)
  <2>1. PICK id \in CardsOf(m)' : id \notin CardsOf(m)
    BY <1>2, CardsOfKeep
  <2>2. /\ id \in CardIds /\ id[1] \in Lineages /\ id[1] = m[1] /\ id[2] \in Nat
        /\ id[2] <= Len(cards'[id[1]])
        /\ cards'[id[1]][id[2]].rec = m[2]
        /\ cards'[id[1]] \in Seq(CardRows) /\ id = <<id[1], id[2]>> /\ id[2] >= 1
    BY <2>1, CardsKeep, LineageBounds DEF CardsOf, Minted, CardIds, Card
  <2>3. id[2] \notin DOMAIN cards[id[1]]
    <3>1. CASE id[2] \in DOMAIN cards[id[1]]
      <4>1. id \in Minted /\ Card(id).rec = m[2]
        <5>1. id \in Minted
          BY <1>t, <2>2, <3>1, MintedAre
        <5>2. cards'[id[1]][id[2]].rec = cards[id[1]][id[2]].rec
          BY <2>2, <3>1, CardsKeep
        <5> QED
          BY <2>2, <5>1, <5>2 DEF Card
      <4> QED
        BY <2>1, <2>2, <4>1 DEF CardsOf
    <3> QED
      BY <3>1
  <2>4. /\ DOMAIN cards[id[1]] = 1 .. Len(cards[id[1]]) /\ Len(cards[id[1]]) \in Nat
        /\ Len(cards'[id[1]]) \in Nat
    BY <1>t, <2>2, MintedAre, LenProperties
  <2>5. Len(cards'[id[1]]) <= Len(cards[id[1]]) + 1
    <3>1. \A a, b : Moving(a, b) => Len(cards'[id[1]]) = Len(cards[id[1]])
      BY <1>t, <2>2, MoveEffect
    <3>2. \A l \in Lineages, row \in CardRows :
             Minting(l, row) => Len(cards'[id[1]]) <= Len(cards[id[1]]) + 1
      BY <1>t, <2>2, <2>4, MintEffect
    <3> QED
      BY <2>4, <3>1, <3>2, CardFlow DEF Stays, Mints, Walks, Approves
  <2>6. id[2] = Len(cards'[id[1]])
    BY <2>2, <2>3, <2>4, <2>5
  <2>7. \A d \in CardsOf(m)' : d[2] <= id[2]
    BY <2>2, <2>6 DEF CardsOf, Minted
  <2> QED
    BY <2>1, <2>7
<1> QED
  BY <1>1, <1>2

-----------------------------------------------------------------------------
(***************************************************************************)
(* The evidence of approvals.                                              *)
(***************************************************************************)

\* A card is minted in Draft, and a move touches the state of its card only.
LEMMA MintStates ==
  ASSUME TypeOK, Mints
  PROVE  /\ \A id \in Minted : id \in Minted' /\ cards'[id[1]][id[2]] = Card(id)
         /\ \A id \in Minted' : id \in Minted \/ cards'[id[1]][id[2]].state = "draft"
<1>1. PICK l \in Lineages, row \in CardRows : Minting(l, row)
  BY DEF Mints
<1>2. /\ \A m \in Lineages \ {l} : cards'[m] = cards[m]
      /\ Len(cards'[l]) = Len(cards[l]) + 1
      /\ \A v \in DOMAIN cards[l] : cards'[l][v] = cards[l][v]
      /\ cards'[l][Len(cards[l]) + 1] = row /\ row.state = "draft"
  BY <1>1, MintEffect DEF Minting
<1>3. \A m \in Lineages : DOMAIN cards[m] = 1 .. Len(cards[m]) /\ Len(cards[m]) \in Nat
  BY MintedAre
<1>4. ASSUME NEW id \in Minted
      PROVE  id \in Minted' /\ cards'[id[1]][id[2]] = Card(id)
  <2>1. /\ id \in CardIds /\ id[1] \in Lineages /\ id[2] \in DOMAIN cards[id[1]]
        /\ Card(id) = cards[id[1]][id[2]] /\ id[2] \in 1 .. Len(cards[id[1]])
    BY MintedAre
  <2>2. id[2] <= Len(cards'[id[1]])
    BY <1>2, <1>3, <2>1
  <2>3. cards'[id[1]][id[2]] = cards[id[1]][id[2]]
    BY <1>2, <2>1
  <2> QED
    BY <2>1, <2>2, <2>3 DEF Minted
<1>5. ASSUME NEW id \in Minted', id \notin Minted
      PROVE  cards'[id[1]][id[2]].state = "draft"
  <2>1. /\ id \in CardIds /\ id[1] \in Lineages /\ id[2] \in Nat
        /\ id[2] <= Len(cards'[id[1]]) /\ ~(id[2] <= Len(cards[id[1]]))
    BY <1>5, LineageBounds DEF Minted, CardIds
  <2>2. id[1] = l
    BY <1>2, <2>1
  <2>3. id[2] = Len(cards[l]) + 1
    BY <1>2, <1>3, <2>1, <2>2
  <2> QED
    BY <1>2, <2>2, <2>3
<1> QED
  BY <1>4, <1>5

LEMMA MoveStates ==
  ASSUME TypeOK, NEW d \in Minted, NEW to, Moving(d, to)
  PROVE  /\ Minted' = Minted
         /\ cards'[d[1]][d[2]].state = to
         /\ \A id \in Minted \ {d} : cards'[id[1]][id[2]] = Card(id)
<1>1. /\ \A m \in Lineages : Len(cards'[m]) = Len(cards[m])
      /\ \A m \in Lineages : \A v \in DOMAIN cards[m] :
            <<m, v>> # d => cards'[m][v] = cards[m][v]
      /\ cards'[d[1]][d[2]].state = to
  BY MoveEffect
<1>2. Minted' = Minted
  BY <1>1 DEF Minted, CardIds
<1>3. ASSUME NEW id \in Minted, id # d
      PROVE  cards'[id[1]][id[2]] = Card(id)
  <2>1. /\ id[1] \in Lineages /\ id[2] \in DOMAIN cards[id[1]] /\ id = <<id[1], id[2]>>
        /\ Card(id) = cards[id[1]][id[2]]
    BY MintedAre
  <2> QED
    BY <1>1, <1>3, <2>1
<1> QED
  BY <1>1, <1>2, <1>3

\* Only an approval leaves evidence, and it finds none: the card it approves
\* was waiting for it.
LEMMA ApprovalsNext == LineageInv /\ [Next]_vars => Approvals'
<1> SUFFICES ASSUME LineageInv, [Next]_vars, NEW id \in CardIds
             PROVE  /\ \/ confirmations'[id] = <<>> /\ id \notin intents'
                       \/ /\ Len(confirmations'[id]) = 1 /\ id \in intents' /\ id \in Minted'
                          /\ \/ StateHasAuthorized(cards'[id[1]][id[2]].state)
                             \/ cards'[id[1]][id[2]].state = "invalidated"
                    /\ id \in Minted' /\ StateHasAuthorized(cards'[id[1]][id[2]].state)
                          => id \in intents'
  BY DEF Approvals, Card, StateHasAuthorized, CardIds
<1>t. TypeOK /\ Approvals /\ confirmations \in [CardIds -> Seq(0 .. MaxSelections)]
  BY DEF LineageInv, TypeOK
<1>a. /\ \/ confirmations[id] = <<>> /\ id \notin intents
         \/ /\ Len(confirmations[id]) = 1 /\ id \in intents /\ id \in Minted
            /\ StateHasAuthorized(Card(id).state) \/ Card(id).state = "invalidated"
      /\ id \in Minted /\ StateHasAuthorized(Card(id).state) => id \in intents
  BY <1>t DEF Approvals
<1>1. CASE Stays
  <2>1. Minted' = Minted /\ cards'[id[1]][id[2]] = Card(id)
    BY <1>1 DEF Stays, Minted, Card
  <2> QED
    BY <1>1, <1>a, <2>1 DEF Stays, Unapproved
<1>2. CASE Mints
  <2>1. ~StateHasAuthorized("draft")
    BY DEF StateHasAuthorized
  <2>2. confirmations' = confirmations /\ intents' = intents
    BY <1>2 DEF Mints, Unapproved
  <2> QED
    BY <1>t, <1>a, <1>2, <2>1, <2>2, MintStates
<1>3. CASE Walks
  <2>1. PICK d \in Minted, to \in States : Moving(d, to) /\ Harmless(Card(d).state, to)
    BY <1>3 DEF Walks
  <2>2. confirmations' = confirmations /\ intents' = intents
    BY <1>3 DEF Walks, Unapproved
  <2>3. /\ Minted' = Minted
        /\ cards'[d[1]][d[2]].state = to
        /\ id \in Minted /\ id # d => cards'[id[1]][id[2]] = Card(id)
    BY <1>t, <2>1, MoveStates
  <2>4. CASE id = d
    BY <1>a, <2>1, <2>2, <2>3, <2>4 DEF Harmless
  <2>5. CASE id # d
    BY <1>a, <2>2, <2>3, <2>5
  <2> QED
    BY <2>4, <2>5
<1>4. ASSUME NEW w \in Callers, Approves(w)
      PROVE  /\ \/ confirmations'[id] = <<>> /\ id \notin intents'
                \/ /\ Len(confirmations'[id]) = 1 /\ id \in intents' /\ id \in Minted'
                   /\ \/ StateHasAuthorized(cards'[id[1]][id[2]].state)
                      \/ cards'[id[1]][id[2]].state = "invalidated"
             /\ id \in Minted' /\ StateHasAuthorized(cards'[id[1]][id[2]].state)
                   => id \in intents'
  <2> DEFINE d == run[w].card
  <2>1. /\ d \in Minted /\ Moving(d, "approved") /\ Card(d).state = "awaiting_confirmation"
        /\ confirmations' = [confirmations EXCEPT ![d] = Append(confirmations[d], run[w].bound)]
        /\ intents' = intents \cup {d}
    BY <1>4 DEF Approves, Authorize
  <2> HIDE DEF d
  <2>3. /\ Minted' = Minted
        /\ cards'[d[1]][d[2]].state = "approved"
        /\ id \in Minted /\ id # d => cards'[id[1]][id[2]] = Card(id)
    BY <1>t, <2>1, MoveStates
  <2>4. CASE id = d
    <3>1. confirmations[id] = <<>>
      BY <1>a, <2>1, <2>4 DEF StateHasAuthorized
    <3>2. confirmations'[id] = Append(<<>>, run[w].bound)
      BY <1>t, <2>1, <2>4, <3>1
    <3>3. Len(confirmations'[id]) = 1
      BY <3>2
    <3> QED
      BY <2>1, <2>3, <2>4, <3>3 DEF StateHasAuthorized
  <2>5. CASE id # d
    <3>1. confirmations'[id] = confirmations[id]
      BY <1>t, <2>1, <2>5
    <3> QED
      BY <1>a, <2>1, <2>3, <2>5, <3>1
  <2> QED
    BY <2>4, <2>5
<1> QED
  BY <1>1, <1>2, <1>3, <1>4, CardFlow

-----------------------------------------------------------------------------
(***************************************************************************)
(* Passes and selection versions.                                          *)
(***************************************************************************)

\* A pass that is under way is about a lineage.
LEMMA PassNext ==
  LineageInv /\ [Next]_vars => pass' \in [Passes -> PassRecords] /\ PassesAreSound'
<1> SUFFICES ASSUME LineageInv, [Next]_vars
             PROVE  pass' \in [Passes -> PassRecords] /\ PassesAreSound'
  OBVIOUS
<1>t. /\ pass \in [Passes -> PassRecords] /\ PassesAreSound /\ clock \in Nat
      /\ evidence \in [Lineages -> Nat]
  BY LineageBounds DEF LineageInv, TypeOK, PassRecords
<1> DEFINE Sound(s) == s.pc # "idle" => s.lineage \in Lineages
<1>u. \A p \in Passes, s \in PassRecords :
         pass' = [pass EXCEPT ![p] = s] /\ Sound(s)
             => pass' \in [Passes -> PassRecords] /\ PassesAreSound'
  BY <1>t DEF PassesAreSound
<1>i. IdlePass \in PassRecords /\ Sound(IdlePass)
  BY DEF IdlePass, PassRecords
<1> HIDE DEF Sound
<1>1. ASSUME NEW p \in Passes, NEW l \in Lineages, ListEligible(p, l)
      PROVE  pass' \in [Passes -> PassRecords] /\ PassesAreSound'
  <2> DEFINE s == [pc |-> "dedup", lineage |-> l, ctx |-> evidence[l], expiry |-> 0,
                   overtaken |-> FALSE]
  <2>1. s \in PassRecords /\ Sound(s)
    BY <1>t DEF PassRecords, Sound
  <2>2. pass' = [pass EXCEPT ![p] = s]
    BY <1>1 DEF ListEligible
  <2> HIDE DEF s
  <2> QED
    BY <1>u, <2>1, <2>2
<1>2. ASSUME NEW p \in Passes, DedupRead(p)
      PROVE  pass' \in [Passes -> PassRecords] /\ PassesAreSound'
  <2> DEFINE s == [pass[p] EXCEPT !.pc = "produce", !.expiry = Expiry]
  <2>n. Expiry \in Nat /\ pass[p] \in PassRecords /\ pass[p].lineage \in Lineages
    BY <1>t, <1>2 DEF Expiry, DedupRead, PassesAreSound
  <2>1. s \in PassRecords /\ Sound(s)
    <3>1. s \in PassRecords
      BY <2>n DEF PassRecords
    <3>2. s.lineage = pass[p].lineage
      BY <2>n DEF PassRecords
    <3> QED
      BY <2>n, <3>1, <3>2 DEF Sound
  <2>2. pass' = [pass EXCEPT ![p] = IdlePass] \/ pass' = [pass EXCEPT ![p] = s]
    BY <1>2 DEF DedupRead
  <2> HIDE DEF s
  <2> QED
    BY <1>i, <1>u, <2>1, <2>2
<1>3. ASSUME NEW p \in Passes, PassFails(p)
      PROVE  pass' \in [Passes -> PassRecords] /\ PassesAreSound'
  <2>1. pass' = [pass EXCEPT ![p] = IdlePass]
    BY <1>3 DEF PassFails
  <2> QED
    BY <1>i, <1>u, <2>1
<1>5. ASSUME NEW p \in Passes, NEW ok \in BOOLEAN, ProduceVersion(p, ok)
      PROVE  pass' \in [Passes -> PassRecords] /\ PassesAreSound'
  <2>1. Overtake(p)
    BY <1>5 DEF ProduceVersion
  <2>2. ASSUME NEW q \in Passes PROVE pass'[q] \in PassRecords /\ Sound(pass'[q])
    <3>1. CASE pass'[q] = IdlePass
      BY <1>i, <3>1
    <3>2. CASE pass'[q] = pass[q]
      BY <1>t, <3>2 DEF Sound, PassesAreSound
    <3>3. CASE pass'[q] = [pass[q] EXCEPT !.overtaken = TRUE]
      <4>1. pass[q] \in PassRecords /\ Sound(pass[q])
        BY <1>t DEF Sound, PassesAreSound
      <4>2. pass'[q] \in PassRecords
        BY <3>3, <4>1 DEF PassRecords
      <4>3. pass'[q].pc = pass[q].pc /\ pass'[q].lineage = pass[q].lineage
        BY <3>3, <4>1 DEF PassRecords
      <4> QED
        BY <4>1, <4>2, <4>3 DEF Sound
    <3> QED
      BY <2>1, <3>1, <3>2, <3>3 DEF Overtake
  <2> QED
    BY <2>1, <2>2 DEF Overtake, Sound, PassesAreSound
<1>4. CASE pass' = pass
  BY <1>t, <1>4 DEF PassesAreSound
<1> QED
  BY <1>1, <1>2, <1>3, <1>4, <1>5 DEF Next, vars, EvidenceArrives,
     PrepareRecommendationDraft,
     EditPrice, ReviewCard, ExecutionAdvances, InvalidateDependent, Tick, Confirm,
     ConfirmRead, ConfirmDecide, BulkDone, BulkReread, RequestFails, Crash,
     PreviewBulkSelection, ConfirmBulkSelection, BulkMember

\* A sealed version keeps its members.
LEMMA SetsKeep ==
  ASSUME LineageInv, [Next]_vars
  PROVE  /\ sets' \in Seq(SUBSET Members)
         /\ \A b \in DOMAIN sets : b \in DOMAIN sets' /\ sets'[b] = sets[b]
<1>t. /\ sets \in Seq(SUBSET Members) /\ DOMAIN sets = 1 .. Len(sets) /\ Len(sets) \in Nat
  BY LenProperties DEF LineageInv, TypeOK
<1>1. ASSUME NEW members \in SUBSET Members, PreviewBulkSelection(members)
      PROVE  /\ sets' \in Seq(SUBSET Members)
             /\ \A b \in DOMAIN sets : b \in DOMAIN sets' /\ sets'[b] = sets[b]
  <2>1. sets' = Append(sets, members)
    BY <1>1 DEF PreviewBulkSelection
  <2>2. /\ sets' \in Seq(SUBSET Members) /\ Len(sets') = Len(sets) + 1
        /\ \A b \in 1 .. Len(sets) : sets'[b] = sets[b]
    BY <1>t, <2>1, AppendProperties
  <2>3. DOMAIN sets' = 1 .. (Len(sets) + 1)
    BY <2>2, LenProperties
  <2>4. \A b \in 1 .. Len(sets) : b \in 1 .. (Len(sets) + 1)
    BY <1>t
  <2> QED
    BY <1>t, <2>2, <2>3, <2>4
<1>2. CASE sets' = sets
  BY <1>t, <1>2
<1> QED
  BY <1>1, <1>2 DEF Next, vars, EvidenceArrives, ListEligible, DedupRead, PassFails,
     ProduceVersion, PrepareRecommendationDraft, EditPrice, ReviewCard, ExecutionAdvances,
     InvalidateDependent, Tick, Confirm, ConfirmRead, ConfirmDecide, BulkDone, BulkReread,
     RequestFails, Crash, ConfirmBulkSelection, BulkMember

-----------------------------------------------------------------------------
(***************************************************************************)
(* What a step of the whole plane does to a request and to its report.     *)
(***************************************************************************)

\* The card a bulk request takes is one of its member.
LEMMA CurrentIsThere ==
  ASSUME HeadsExist, NEW m \in Members, CardsOf(m) # {}
  PROVE  CurrentOf(m) \in CardsOf(m)
BY DEF HeadsExist, CurrentOf

\* A request is answered or dies, and its report with it.
Ends(w, c) == c = IdleCall /\ report' = {i \in report : i[1] # w}

\* A control is activated, or a selection version bound.
Activates(w, c) ==
    /\ run[w].pc = "idle" /\ c.pc = "read" /\ ~c.bulk /\ c.card \in Minted
    /\ report' = report

Seals(w, c) ==
    /\ run[w].pc = "idle" /\ c.pc = "member" /\ c.bulk
    /\ c.bound \in DOMAIN sets /\ c.todo = sets[c.bound]
    /\ report' = report

\* A confirmation goes on with the same card.
Continues(w, c) ==
    /\ InFlight(w) /\ c.pc \in {"decide", "reread"} /\ (c.pc = "reread" => c.bulk)
    /\ c.bulk = run[w].bulk /\ c.card = run[w].card /\ c.member = run[w].member
    /\ c.bound = run[w].bound /\ c.todo = run[w].todo
    /\ report' = report

\* A bulk request takes a member, or reports one.
Takes(w, c, m) ==
    /\ run[w].pc = "member" /\ m \in run[w].todo /\ CardsOf(m) # {}
    /\ c.pc = "read" /\ c.bulk /\ c.member = m /\ c.card = CurrentOf(m)
    /\ c.bound = run[w].bound /\ c.todo = run[w].todo \ {m}
    /\ report' = report

Reports(w, c, m) ==
    /\ run[w].bulk /\ c.pc = "member" /\ c.bulk /\ c.bound = run[w].bound
    /\ \/ InFlight(w) /\ m = run[w].member /\ c.todo = run[w].todo
       \/ run[w].pc = "member" /\ m \in run[w].todo /\ c.todo = run[w].todo \ {m}
    /\ \E item \in BulkItemStates : report' = report \cup {<<w, m, item>>}

CallStep(w, c) ==
    /\ c \in RunRecords /\ run' = [run EXCEPT ![w] = c]
    /\ \/ Ends(w, c) \/ Activates(w, c) \/ Seals(w, c) \/ Continues(w, c)
       \/ \E m \in Members : Takes(w, c, m) \/ Reports(w, c, m)

LEMMA AnswerFlow ==
  ASSUME LineageInv, NEW w \in Callers, InFlight(w), NEW item \in BulkItemStates,
         Answer(w, item)
  PROVE  \E c : CallStep(w, c)
<1>t. run[w] \in RunRecords /\ IdleCall \in RunRecords
  BY LineageBounds DEF LineageInv, TypeOK, RunRecords, IdleCall
<1>1. CASE run[w].bulk
  <2> DEFINE c == [IdleCall EXCEPT !.pc = "member", !.bulk = TRUE, !.matches = TRUE,
                      !.now = run[w].now, !.bound = run[w].bound, !.todo = run[w].todo]
  <2>2. c \in RunRecords /\ c.pc = "member" /\ c.bulk /\ c.bound = run[w].bound
        /\ c.todo = run[w].todo
    BY <1>t DEF RunRecords
  <2>3. run' = [run EXCEPT ![w] = c] /\ report' = report \cup {<<w, run[w].member, item>>}
    BY <1>1 DEF Answer
  <2>5. run[w].member \in Members
    BY <1>1 DEF LineageInv, RequestsAreSound
  <2> HIDE DEF c
  <2>6. Reports(w, c, run[w].member)
    BY <1>1, <2>2, <2>3 DEF Reports
  <2> QED
    BY <2>2, <2>3, <2>5, <2>6 DEF CallStep
<1>2. CASE ~run[w].bulk
  <2>1. run' = [run EXCEPT ![w] = IdleCall] /\ report' = report
    BY <1>2 DEF Answer
  <2>2. report' = {i \in report : i[1] # w}
    BY <1>2, <2>1 DEF LineageInv, MembersAreReported
  <2> QED
    BY <1>t, <2>1, <2>2 DEF CallStep, Ends
<1> QED
  BY <1>1, <1>2

LEMMA CallFlow ==
  ASSUME LineageInv, [Next]_vars
  PROVE  \/ run' = run /\ report' = report
         \/ \E w \in Callers : \E c : CallStep(w, c)
<1>t. /\ TypeOK /\ run \in [Callers -> RunRecords] /\ clock \in Nat
      /\ IdleCall \in RunRecords
  BY LineageBounds DEF LineageInv, TypeOK, RunRecords, IdleCall
<1>s. /\ DOMAIN sets \subseteq 1 .. Len(sets) /\ \A b \in DOMAIN sets : sets[b] \subseteq Members
  BY LenProperties, ElementOfSeq DEF LineageInv, TypeOK
<1>1. ASSUME NEW w \in Callers, NEW id \in CardIds, NEW ok \in BOOLEAN, Confirm(w, id, ok)
      PROVE  \E c : CallStep(w, c)
  <2> DEFINE c == [IdleCall EXCEPT !.pc = "read", !.card = id, !.matches = ok, !.now = clock]
  <2>1. IdleCall.bulk = FALSE
    BY DEF IdleCall
  <2>2. c \in RunRecords /\ c.pc = "read" /\ ~c.bulk /\ c.card = id
    BY <1>t, <2>1 DEF RunRecords
  <2>3. run' = [run EXCEPT ![w] = c]
    BY <1>1 DEF Confirm
  <2>4. Activates(w, c)
    BY <1>1, <2>2 DEF Confirm, Activates
  <2> HIDE DEF c
  <2> QED
    BY <2>2, <2>3, <2>4 DEF CallStep
<1>2. ASSUME NEW w \in Callers, ConfirmRead(w)
      PROVE  \E c : CallStep(w, c)
  <2> DEFINE seen == (Card(run[w].card).state = "awaiting_confirmation")
             c == [run[w] EXCEPT !.pc = "decide", !.control = seen]
  <2>1. seen \in BOOLEAN /\ run[w] \in RunRecords /\ InFlight(w)
    BY <1>t, <1>2 DEF ConfirmRead, InFlight
  <2>3. run' = [run EXCEPT ![w] = c] /\ report' = report
    BY <1>t, <1>2 DEF ConfirmRead
  <2> HIDE DEF seen
  <2>2. /\ c \in RunRecords /\ c.pc = "decide"
        /\ c.bulk = run[w].bulk /\ c.card = run[w].card /\ c.member = run[w].member
        /\ c.bound = run[w].bound /\ c.todo = run[w].todo
    BY <2>1 DEF RunRecords
  <2> HIDE DEF c
  <2>4. Continues(w, c)
    BY <2>1, <2>2, <2>3 DEF Continues
  <2> QED
    BY <2>2, <2>3, <2>4 DEF CallStep
<1>3. ASSUME NEW w \in Callers, ConfirmDecide(w)
      PROVE  \E c : CallStep(w, c)
  <2>1. InFlight(w) /\ run[w] \in RunRecords
    BY <1>t, <1>3 DEF ConfirmDecide, InFlight
  <2>2. CASE Refuse(w) /\ run[w].bulk
    <3> DEFINE c == [run[w] EXCEPT !.pc = "reread"]
    <3>1. run' = [run EXCEPT ![w] = c] /\ report' = report
      BY <2>2 DEF Refuse
    <3>2. /\ c \in RunRecords /\ c.pc = "reread" /\ c.bulk
          /\ c.bulk = run[w].bulk /\ c.card = run[w].card /\ c.member = run[w].member
          /\ c.bound = run[w].bound /\ c.todo = run[w].todo
      BY <2>1, <2>2 DEF RunRecords
    <3> HIDE DEF c
    <3>3. Continues(w, c)
      BY <2>1, <3>1, <3>2 DEF Continues
    <3> QED
      BY <3>1, <3>2, <3>3 DEF CallStep
  <2>3. CASE Refuse(w) /\ ~run[w].bulk
    <3>1. Answer(w, "failed")
      BY <2>3 DEF Refuse, Answer
    <3> QED
      BY <2>1, <3>1, AnswerFlow DEF BulkItemStates
  <2>4. \/ Answer(w, "authorized") \/ Answer(w, "invalidated") \/ Refuse(w)
    BY <1>3 DEF ConfirmDecide
  <2> QED
    BY <2>1, <2>2, <2>3, <2>4, AnswerFlow DEF BulkItemStates
<1>4. ASSUME NEW w \in Callers, RequestFails(w) \/ BulkReread(w)
      PROVE  \E c : CallStep(w, c)
  <2>1. /\ InFlight(w)
        /\ \E item \in BulkItemStates : Answer(w, item)
    BY <1>4 DEF RequestFails, BulkReread, InFlight, BulkItemStates
  <2> QED
    BY <2>1, AnswerFlow
<1>5. ASSUME NEW w \in Callers, Crash(w) \/ BulkDone(w)
      PROVE  \E c : CallStep(w, c)
  BY <1>t, <1>5 DEF Crash, BulkDone, CallStep, Ends
<1>6. ASSUME NEW w \in Callers, NEW bound \in 1 .. MaxSelections,
             ConfirmBulkSelection(w, bound)
      PROVE  \E c : CallStep(w, c)
  <2> DEFINE c == [IdleCall EXCEPT !.pc = "member", !.bulk = TRUE, !.matches = TRUE,
                      !.now = clock, !.bound = bound, !.todo = sets[bound]]
  <2>1. bound \in 0 .. MaxSelections /\ sets[bound] \in SUBSET Members
    BY <1>6, <1>s, LineageBounds DEF ConfirmBulkSelection
  <2>2. c \in RunRecords /\ c.pc = "member" /\ c.bulk /\ c.bound = bound
        /\ c.todo = sets[bound]
    BY <1>t, <2>1 DEF RunRecords
  <2>3. run' = [run EXCEPT ![w] = c]
    BY <1>6 DEF ConfirmBulkSelection
  <2>4. Seals(w, c)
    BY <1>6, <2>2 DEF ConfirmBulkSelection, Seals
  <2> HIDE DEF c
  <2> QED
    BY <2>2, <2>3, <2>4 DEF CallStep
<1>7. ASSUME NEW w \in Callers, NEW m \in run[w].todo, BulkMember(w, m)
      PROVE  \E c : CallStep(w, c)
  <2>1. /\ run[w] \in RunRecords /\ m \in Members /\ run[w].pc = "member" /\ run[w].bulk
    BY <1>t, <1>7 DEF RunRecords, BulkMember, LineageInv, RequestsAreSound
  <2>2. CASE /\ run' = [run EXCEPT ![w].todo = @ \ {m}]
             /\ report' = report \cup
                   {<<w, m, IF Executable(m) THEN "invalidated" ELSE "excluded">>}
    <3> DEFINE c == [run[w] EXCEPT !.todo = run[w].todo \ {m}]
    <3>1. run' = [run EXCEPT ![w] = c]
      BY <1>t, <2>2
    <3>2. /\ c \in RunRecords /\ c.pc = "member" /\ c.bulk /\ c.bound = run[w].bound
          /\ c.todo = run[w].todo \ {m}
      BY <2>1 DEF RunRecords
    <3> HIDE DEF c
    <3>3. Reports(w, c, m)
      BY <1>7, <2>1, <2>2, <3>2 DEF Reports, BulkItemStates
    <3> QED
      BY <2>1, <3>1, <3>2, <3>3 DEF CallStep
  <2>3. CASE /\ Executable(m) /\ CardsOf(m) # {}
             /\ run' = [run EXCEPT ![w].todo = @ \ {m}, ![w].member = m,
                                   ![w].card = CurrentOf(m), ![w].pc = "read"]
             /\ report' = report
    <3> DEFINE c == [run[w] EXCEPT !.todo = run[w].todo \ {m}, !.member = m,
                        !.card = CurrentOf(m), !.pc = "read"]
    <3>1. run' = [run EXCEPT ![w] = c]
      BY <1>t, <2>3
    <3>2. CurrentOf(m) \in CardIds
      BY <2>1, <2>3, CurrentIsThere DEF LineageInv, CardsOf, Minted
    <3>3. /\ c \in RunRecords /\ c.pc = "read" /\ c.bulk /\ c.member = m
          /\ c.card = CurrentOf(m) /\ c.bound = run[w].bound /\ c.todo = run[w].todo \ {m}
      BY <2>1, <3>2 DEF RunRecords
    <3> HIDE DEF c
    <3>4. Takes(w, c, m)
      BY <1>7, <2>1, <2>3, <3>3 DEF Takes
    <3> QED
      BY <2>1, <3>1, <3>3, <3>4 DEF CallStep
  <2> QED
    BY <1>7, <2>2, <2>3 DEF BulkMember
<1>8. CASE run' = run /\ report' = report
  BY <1>8
<1> QED
  BY <1>1, <1>2, <1>3, <1>4, <1>5, <1>6, <1>7, <1>8 DEF Next, vars, EvidenceArrives,
     ListEligible, DedupRead, PassFails, ProduceVersion, PrepareRecommendationDraft,
     EditPrice, ReviewCard, ExecutionAdvances, InvalidateDependent, Tick,
     PreviewBulkSelection

CardsOfNext(m) == {id \in Minted' : id[1] = m[1] /\ cards'[id[1]][id[2]].rec = m[2]}

\* The card of a request stays a card, and one of its member.
LEMMA RequestsAreSoundNext == LineageInv /\ [Next]_vars => RequestsAreSound'
<1> SUFFICES ASSUME LineageInv, [Next]_vars PROVE RequestsAreSound'
  OBVIOUS
<1>t. /\ RequestsAreSound /\ HeadsExist /\ run \in [Callers -> RunRecords]
      /\ Minted \subseteq Minted'
      /\ \A m \in Members : CardsOf(m) \subseteq CardsOfNext(m) /\ CardsOf(m) \subseteq Minted
  BY CardsOfKeep DEF LineageInv, TypeOK, RunRecords, CardsOf, CardsOfNext, Card
<1> DEFINE Sound(c) ==
      LET flying == c.pc \in {"read", "decide", "reread"}
      IN  /\ flying => c.card \in Minted'
          /\ c.bulk /\ flying => c.member \in Members /\ c.card \in CardsOfNext(c.member)
          /\ c.pc \in {"member", "reread"} => c.bulk
          /\ c.pc = "idle" => ~c.bulk
<1>1. ASSUME NEW x \in Callers, run'[x] = run[x]
      PROVE  Sound(run'[x])
  BY <1>t, <1>1 DEF RequestsAreSound, InFlight
<1>2. ASSUME NEW w \in Callers, NEW c, CallStep(w, c)
      PROVE  Sound(c)
  <2>1. CASE Ends(w, c)
    BY <2>1 DEF Ends, IdleCall
  <2>2. CASE Activates(w, c)
    BY <1>t, <2>2 DEF Activates
  <2>3. CASE Seals(w, c)
    BY <2>3 DEF Seals
  <2>4. CASE Continues(w, c)
    BY <1>t, <2>4 DEF Continues, RequestsAreSound, InFlight
  <2>5. ASSUME NEW m \in Members, Takes(w, c, m)
        PROVE  Sound(c)
    <3>1. CurrentOf(m) \in CardsOf(m)
      BY <1>t, <2>5, CurrentIsThere DEF Takes
    <3> QED
      BY <1>t, <2>5, <3>1 DEF Takes
  <2>6. ASSUME NEW m \in Members, Reports(w, c, m)
        PROVE  Sound(c)
    BY <2>6 DEF Reports
  <2> QED
    BY <1>2, <2>1, <2>2, <2>3, <2>4, <2>5, <2>6 DEF CallStep
<1>3. ASSUME NEW w \in Callers, NEW c, CallStep(w, c), NEW x \in Callers
      PROVE  Sound(run'[x])
  <2>1. run'[w] = c /\ (x # w => run'[x] = run[x])
    BY <1>t, <1>3 DEF CallStep
  <2> HIDE DEF Sound
  <2> QED
    BY <1>1, <1>2, <1>3, <2>1
<1>4. \A x \in Callers : Sound(run'[x])
  <2> HIDE DEF Sound
  <2> QED
    BY <1>1, <1>3, CallFlow
<1> QED
  BY <1>4 DEF RequestsAreSound, InFlight, CardsOf, CardsOfNext, Card

\* The bookkeeping of one bulk request, as a relation of its members to do,
\* under way and reported.
Books(x) ==
    /\ ~run[x].bulk => \A i \in report : i[1] # x
    /\ run[x].bulk =>
          /\ run[x].bound \in DOMAIN sets
          /\ \A m \in sets[run[x].bound] : Pending(x, m) \/ Reported(x, m)
          /\ \A m \in Members : ~(Pending(x, m) /\ Reported(x, m))
          /\ InFlight(x) => run[x].member \notin run[x].todo
    /\ \A i, j \in report : i[1] = x /\ j[1] = x /\ i[2] = j[2] => i = j

\* A step of one request leaves the books of the others alone.
LEMMA BooksOfOthers ==
  ASSUME LineageInv, [Next]_vars, NEW x \in Callers, run'[x] = run[x],
         {i \in report' : i[1] = x} = {i \in report : i[1] = x}
  PROVE  Books(x)'
<1>1. Books(x)
  BY DEF LineageInv, MembersAreReported, Books
<1>2. \A i : i \in report' /\ i[1] = x <=> i \in report /\ i[1] = x
  OBVIOUS
<1>3. \A m : Reported(x, m)' <=> Reported(x, m)
  BY <1>2 DEF Reported
<1>4. \A m : Pending(x, m)' <=> Pending(x, m)
  BY DEF Pending, InFlight
<1>5. run[x].bulk => /\ run[x].bound \in DOMAIN sets'
                     /\ sets'[run[x].bound] = sets[run[x].bound]
  BY <1>1, SetsKeep DEF Books
<1>6. InFlight(x)' <=> InFlight(x)
  BY DEF InFlight
<1> QED
  BY <1>1, <1>2, <1>3, <1>4, <1>5, <1>6 DEF Books

\* A step of a request keeps its own: a member that is reported was to do or
\* under way, and is neither any more.
LEMMA BooksOfCaller ==
  ASSUME LineageInv, [Next]_vars, NEW w \in Callers, NEW c, CallStep(w, c)
  PROVE  Books(w)'
<1>t. /\ Books(w) /\ run'[w] = c /\ RequestsAreSound
      /\ \A b \in DOMAIN sets : b \in DOMAIN sets' /\ sets'[b] = sets[b]
      /\ \A b \in DOMAIN sets : sets[b] \subseteq Members
  BY SetsKeep, LenProperties, ElementOfSeq
     DEF LineageInv, TypeOK, MembersAreReported, Books, CallStep
<1> DEFINE Flying == c.pc \in {"read", "decide", "reread"}
           Under(m) == m \in c.todo \/ (Flying /\ m = c.member)
           Told(m) == \E i \in report' : i[1] = w /\ i[2] = m
           Kept == /\ ~c.bulk => \A i \in report' : i[1] # w
                   /\ c.bulk =>
                         /\ c.bound \in DOMAIN sets'
                         /\ \A m \in sets'[c.bound] : Under(m) \/ Told(m)
                         /\ \A m \in Members : ~(Under(m) /\ Told(m))
                         /\ Flying => c.member \notin c.todo
                   /\ \A i, j \in report' : i[1] = w /\ j[1] = w /\ i[2] = j[2] => i = j
<1>k. SUFFICES Kept
  BY <1>t DEF Books, Pending, Reported, InFlight
<1>n. run[w].pc = "idle" => \A i \in report : i[1] # w
  BY <1>t DEF RequestsAreSound, Books
<1>1. CASE Ends(w, c)
  BY <1>1 DEF Ends, IdleCall
<1>2. CASE Activates(w, c)
  BY <1>2, <1>n DEF Activates
<1>3. CASE Seals(w, c)
  BY <1>3, <1>n, <1>t DEF Seals
<1>4. CASE Continues(w, c)
  <2>1. report' = report /\ c.bulk = run[w].bulk /\ c.bound = run[w].bound /\ Flying
        /\ InFlight(w) /\ c.member = run[w].member /\ c.todo = run[w].todo
    BY <1>4 DEF Continues
  <2>2. \A m : Under(m) <=> Pending(w, m)
    BY <2>1 DEF Pending
  <2>3. \A m : Told(m) <=> Reported(w, m)
    BY <2>1 DEF Reported
  <2> HIDE DEF Under, Told, Flying
  <2> QED
    BY <1>t, <2>1, <2>2, <2>3 DEF Books
<1>5. ASSUME NEW m \in Members, Takes(w, c, m)
      PROVE  Kept
  <2>1. /\ report' = report /\ c.bulk /\ run[w].bulk /\ c.bound = run[w].bound /\ Flying
        /\ ~InFlight(w) /\ c.member = m /\ c.todo = run[w].todo \ {m} /\ m \in run[w].todo
    BY <1>5, <1>t DEF Takes, InFlight, RequestsAreSound
  <2>2. \A x : Under(x) <=> Pending(w, x)
    BY <2>1 DEF Pending
  <2>3. \A x : Told(x) <=> Reported(w, x)
    BY <2>1 DEF Reported
  <2> HIDE DEF Under, Told, Flying
  <2> QED
    BY <1>t, <2>1, <2>2, <2>3 DEF Books
<1>6. ASSUME NEW m \in Members, Reports(w, c, m)
      PROVE  Kept
  <2>1. /\ c.bulk /\ run[w].bulk /\ c.bound = run[w].bound /\ ~Flying
    BY <1>6 DEF Reports
  <2>2. Pending(w, m) /\ \A x : Under(x) <=> Pending(w, x) /\ x # m
    <3>1. CASE InFlight(w) /\ m = run[w].member /\ c.todo = run[w].todo
      BY <1>t, <2>1, <3>1 DEF Pending, Books
    <3>2. CASE run[w].pc = "member" /\ m \in run[w].todo /\ c.todo = run[w].todo \ {m}
      BY <2>1, <3>2 DEF Pending, InFlight
    <3> QED
      BY <1>6, <3>1, <3>2 DEF Reports
  <2>3. ~Reported(w, m)
    BY <1>t, <2>1, <2>2 DEF Books
  <2>4. PICK item \in BulkItemStates : report' = report \cup {<<w, m, item>>}
    BY <1>6 DEF Reports
  <2>5. \A x : Told(x) <=> Reported(w, x) \/ x = m
    <3>1. \A i : i \in report' <=> i \in report \/ i = <<w, m, item>>
      BY <2>4
    <3>2. <<w, m, item>>[1] = w /\ <<w, m, item>>[2] = m
      OBVIOUS
    <3>3. Told(m)
      BY <3>1, <3>2
    <3>4. ASSUME NEW x, Told(x) PROVE Reported(w, x) \/ x = m
      BY <3>1, <3>2, <3>4 DEF Reported
    <3>5. ASSUME NEW x, Reported(w, x) PROVE Told(x)
      BY <3>1, <3>5 DEF Reported
    <3> QED
      BY <3>3, <3>4, <3>5
  <2>6. \A i, j \in report' : i[1] = w /\ j[1] = w /\ i[2] = j[2] => i = j
    BY <1>t, <2>3, <2>4 DEF Books, Reported
  <2> HIDE DEF Under, Told, Flying
  <2> QED
    BY <1>t, <2>1, <2>2, <2>3, <2>5, <2>6 DEF Books
<1> QED
  BY <1>1, <1>2, <1>3, <1>4, <1>5, <1>6 DEF CallStep

LEMMA MembersAreReportedNext == LineageInv /\ [Next]_vars => MembersAreReported'
<1> SUFFICES ASSUME LineageInv, [Next]_vars PROVE \A x \in Callers : Books(x)'
  BY DEF MembersAreReported, Books
<1>r. run \in [Callers -> RunRecords]
  BY DEF LineageInv, TypeOK, RunRecords
<1>1. CASE run' = run /\ report' = report
  BY <1>1, BooksOfOthers
<1>2. ASSUME NEW w \in Callers, NEW c, CallStep(w, c), NEW x \in Callers
      PROVE  Books(x)'
  <2>1. CASE x = w
    BY <1>2, <2>1, BooksOfCaller
  <2>2. CASE x # w
    <3>1. run'[x] = run[x]
      BY <1>r, <1>2, <2>2 DEF CallStep
    <3>2. {i \in report' : i[1] = x} = {i \in report : i[1] = x}
      BY <1>2, <2>2 DEF CallStep, Ends, Activates, Seals, Continues, Takes, Reports
    <3> QED
      BY <3>1, <3>2, BooksOfOthers
  <2> QED
    BY <2>1, <2>2
<1> QED
  BY <1>1, <1>2, CallFlow

-----------------------------------------------------------------------------
(***************************************************************************)
(* The invariant.                                                          *)
(***************************************************************************)

LEMMA CallTypes ==
  LineageInv /\ [Next]_vars =>
      /\ run' \in [Callers -> RunRecords]
      /\ report' \subseteq Callers \X Members \X BulkItemStates
<1> SUFFICES ASSUME LineageInv, [Next]_vars
             PROVE  /\ run' \in [Callers -> RunRecords]
                    /\ report' \subseteq Callers \X Members \X BulkItemStates
  OBVIOUS
<1>t. run \in [Callers -> RunRecords] /\ report \subseteq Callers \X Members \X BulkItemStates
  BY DEF LineageInv, TypeOK, RunRecords
<1>1. ASSUME NEW w \in Callers, NEW c, CallStep(w, c)
      PROVE  report' \subseteq Callers \X Members \X BulkItemStates
  <2>1. ASSUME NEW m \in Members, Reports(w, c, m)
        PROVE  report' \subseteq Callers \X Members \X BulkItemStates
    BY <1>t, <2>1 DEF Reports
  <2>2. report' \subseteq report
            \/ \E m \in Members : Reports(w, c, m)
    BY <1>1 DEF CallStep, Ends, Activates, Seals, Continues, Takes
  <2> QED
    BY <1>t, <2>1, <2>2
<1>2. ASSUME NEW w \in Callers, NEW c, CallStep(w, c)
      PROVE  run' \in [Callers -> RunRecords]
  BY <1>t, <1>2 DEF CallStep
<1> QED
  BY <1>t, <1>1, <1>2, CallFlow

LEMMA EvidenceTypes ==
  LineageInv /\ [Next]_vars =>
      confirmations' \in [CardIds -> Seq(0 .. MaxSelections)] /\ intents' \subseteq CardIds
<1> SUFFICES ASSUME LineageInv, [Next]_vars
             PROVE  /\ confirmations' \in [CardIds -> Seq(0 .. MaxSelections)]
                    /\ intents' \subseteq CardIds
  OBVIOUS
<1>t. /\ TypeOK /\ confirmations \in [CardIds -> Seq(0 .. MaxSelections)]
      /\ intents \subseteq CardIds /\ run \in [Callers -> RunRecords]
  BY DEF LineageInv, TypeOK, RunRecords
<1>1. CASE Unapproved
  BY <1>t, <1>1 DEF Unapproved
<1>2. ASSUME NEW w \in Callers, Approves(w)
      PROVE  /\ confirmations' \in [CardIds -> Seq(0 .. MaxSelections)]
             /\ intents' \subseteq CardIds
  <2>1. run[w].card \in CardIds /\ run[w].bound \in 0 .. MaxSelections
    BY <1>t, <1>2 DEF RunRecords, Approves, Minted
  <2>2. Append(confirmations[run[w].card], run[w].bound) \in Seq(0 .. MaxSelections)
    BY <1>t, <2>1, AppendProperties
  <2> QED
    BY <1>t, <1>2, <2>1, <2>2 DEF Approves, Authorize
<1> QED
  BY <1>1, <1>2, CardFlow DEF Stays, Mints, Walks

LEMMA TypeNext == LineageInv /\ [Next]_vars => TypeOK'
<1> SUFFICES ASSUME LineageInv, [Next]_vars PROVE TypeOK'
  OBVIOUS
<1>t. /\ evidence \in [Lineages -> 0 .. MaxEvidence] /\ clock \in 0 .. MaxClock
      /\ failures \in 0 .. MaxFailures
  BY DEF LineageInv, TypeOK
<1>1. evidence' \in [Lineages -> 0 .. MaxEvidence]
  <2>1. ASSUME NEW l \in Lineages, EvidenceArrives(l)
        PROVE  evidence' \in [Lineages -> 0 .. MaxEvidence]
    <3>1. evidence[l] + 1 \in 0 .. MaxEvidence
      BY <1>t, <2>1, LineageBounds DEF EvidenceArrives
    <3> QED
      BY <1>t, <2>1, <3>1 DEF EvidenceArrives
  <2> QED
    BY <1>t, <2>1 DEF Next, vars, ListEligible, DedupRead, PassFails, ProduceVersion,
       PrepareRecommendationDraft, EditPrice, ReviewCard, ExecutionAdvances,
       InvalidateDependent, Tick, Confirm, ConfirmRead, ConfirmDecide, BulkDone,
       BulkReread, RequestFails, Crash, PreviewBulkSelection, ConfirmBulkSelection,
       BulkMember
<1>2. clock' \in 0 .. MaxClock
  <2>1. Tick => clock' \in 0 .. MaxClock
    BY <1>t, LineageBounds DEF Tick
  <2> QED
    BY <1>t, <2>1 DEF Next, vars, EvidenceArrives, ListEligible, DedupRead, PassFails,
       ProduceVersion, PrepareRecommendationDraft, EditPrice, ReviewCard,
       ExecutionAdvances, InvalidateDependent, Confirm, ConfirmRead, ConfirmDecide,
       BulkDone, BulkReread, RequestFails, Crash, PreviewBulkSelection,
       ConfirmBulkSelection, BulkMember
<1>3. failures' \in 0 .. MaxFailures
  <2>1. failures < MaxFailures => failures + 1 \in 0 .. MaxFailures
    BY <1>t, LineageBounds
  <2>2. failures' = failures \/ (failures < MaxFailures /\ failures' = failures + 1)
    BY DEF Next, vars, EvidenceArrives, ListEligible, DedupRead, PassFails,
       ProduceVersion, PrepareRecommendationDraft, EditPrice, ReviewCard,
       ExecutionAdvances, InvalidateDependent, Tick, Confirm, ConfirmRead, ConfirmDecide,
       BulkDone, BulkReread, RequestFails, Crash, PreviewBulkSelection,
       ConfirmBulkSelection, BulkMember
  <2> QED
    BY <1>t, <2>1, <2>2
<1> QED
  BY <1>1, <1>2, <1>3, CardsKeep, RecsKeep, SetsKeep, PassNext, CallTypes, EvidenceTypes
     DEF TypeOK, PassRecords, RunRecords

LEMMA LineageInit == Init => LineageInv
<1> SUFFICES ASSUME Init PROVE LineageInv
  OBVIOUS
<1>n. /\ MaxSelections \in Nat /\ MaxEvidence \in Nat /\ MaxClock \in Nat
      /\ MaxFailures \in Nat /\ MaxVersions \in Nat
  BY LineageBounds
<1>1. TypeOK
  <2>1. cards \in [Lineages -> Seq(CardRows)] /\ recs \in [Lineages -> Seq(RecRows)]
    BY EmptySeq DEF Init
  <2>2. \A l \in Lineages : Len(cards[l]) <= MaxVersions
    BY <1>n DEF Init
  <2>3. confirmations \in [CardIds -> Seq(0 .. MaxSelections)] /\ sets \in Seq(SUBSET Members)
    BY EmptySeq DEF Init
  <2>4. /\ evidence \in [Lineages -> 0 .. MaxEvidence] /\ clock \in 0 .. MaxClock
        /\ failures \in 0 .. MaxFailures /\ intents \subseteq CardIds /\ report = {}
    BY <1>n DEF Init
  <2>5. pass \in [Passes -> PassRecords]
    BY DEF Init, PassRecords, IdlePass
  <2>6. run \in [Callers -> RunRecords]
    BY <1>n DEF Init, RunRecords, IdleCall
  <2> QED
    BY <2>1, <2>2, <2>3, <2>4, <2>5, <2>6 DEF TypeOK, PassRecords, RunRecords
<1>2. Minted = {}
  BY <1>n DEF Init, Minted, CardIds
<1>3. RowsAreBound /\ EditsAreOrdered
  BY DEF Init, RowsAreBound, EditsAreOrdered
<1>4. HeadsExist
  BY <1>2 DEF HeadsExist, CardsOf
<1>5. Approvals
  BY <1>2 DEF Init, Approvals
<1>6. PassesAreSound
  BY DEF Init, PassesAreSound, IdlePass
<1>7. RequestsAreSound
  BY DEF Init, RequestsAreSound, InFlight, IdleCall
<1>8. MembersAreReported
  BY DEF Init, MembersAreReported, IdleCall
<1> QED
  BY <1>1, <1>3, <1>4, <1>5, <1>6, <1>7, <1>8 DEF LineageInv

LEMMA LineageNext == LineageInv /\ [Next]_vars => LineageInv'
BY TypeNext, RowsAreBoundNext, EditsAreOrderedNext, HeadsExistNext, ApprovalsNext,
   PassNext, RequestsAreSoundNext, MembersAreReportedNext DEF LineageInv

\* Minting, review, edits, confirmations, bulk requests, producer passes and the
\* other planes' moves of a card, in any order: every part of the invariant holds.
THEOREM LineageInvariant == Spec => []LineageInv
BY LineageInit, LineageNext, PTL DEF Spec

-----------------------------------------------------------------------------
(***************************************************************************)
(* The theorems.                                                           *)
(***************************************************************************)

\* Every variable of the approval plane keeps its type.
THEOREM LineageTypeCorrect == Spec => []TypeOK
<1>1. LineageInv => TypeOK
  BY DEF LineageInv
<1> QED
  BY <1>1, LineageInvariant, PTL

\* ConfirmIndividual and ConfirmBulkSelection: however many requests activate
\* the control of a card, in whatever order their reads and transactions fall,
\* it is authorized once, and its audit record and its durable intent are there
\* together or not at all.
THEOREM ApprovedOnce == Spec => []AuthorizedOnce
<1>1. LineageInv => AuthorizedOnce
  <2> SUFFICES ASSUME LineageInv, NEW id \in Minted
               PROVE  /\ Len(confirmations[id]) <= 1
                      /\ Len(confirmations[id]) = 1 <=> id \in intents
                      /\ StateHasAuthorized(Card(id).state) => id \in intents
    BY DEF AuthorizedOnce
  <2>1. id \in CardIds
    BY DEF Minted
  <2>2. /\ \/ confirmations[id] = <<>> /\ id \notin intents
           \/ Len(confirmations[id]) = 1 /\ id \in intents
        /\ StateHasAuthorized(Card(id).state) => id \in intents
    BY <2>1 DEF LineageInv, Approvals
  <2>3. /\ confirmations[id] = <<>> => Len(confirmations[id]) = 0
        /\ Len(confirmations[id]) \in Nat
    BY <2>1, LenProperties DEF LineageInv, TypeOK
  <2> DEFINE n == Len(confirmations[id])
  <2>4. n \in Nat /\ (n = 0 \/ n = 1)
    BY <2>2, <2>3
  <2>5. n <= 1
    <3> HIDE DEF n
    <3> QED
      BY <2>4
  <2>6. n = 1 <=> id \in intents
    <3>1. CASE id \in intents
      BY <2>2, <3>1
    <3>2. CASE id \notin intents
      BY <2>2, <2>3, <3>2
    <3> QED
      BY <3>1, <3>2
  <2> QED
    BY <2>2, <2>5, <2>6
<1> QED
  BY <1>1, LineageInvariant, PTL

\* EditPrice: however many edits of one card are under way, the parameter
\* versions of its action increase in the order in which they were minted.
THEOREM EditsDoNotFork == Spec => []EditsAreLinear
<1>1. LineageInv => EditsAreLinear
  <2> SUFFICES ASSUME LineageInv, NEW c \in Minted, NEW d \in Minted, c[1] = d[1],
                      Card(c).action = Card(d).action, c[2] < d[2]
               PROVE  Card(c).pv < Card(d).pv
    BY DEF EditsAreLinear
  <2>1. /\ c[1] \in Lineages /\ c[2] \in DOMAIN cards[c[1]] /\ Card(c) = cards[c[1]][c[2]]
        /\ d[2] \in DOMAIN cards[c[1]] /\ Card(d) = cards[c[1]][d[2]]
    BY MintedAre DEF LineageInv
  <2> QED
    BY <2>1 DEF LineageInv, EditsAreOrdered
<1> QED
  BY <1>1, LineageInvariant, PTL

\* ConfirmIndividual under LockApprovalLineage: a version minted while the
\* request waited supersedes the card it was about to approve.
THEOREM OnlyHeadsAreApproved == Spec => ApprovesOnlyHead
<1> DEFINE Step == \A id \in Minted :
              confirmations'[id] # confirmations[id] =>
                  /\ id = Current(id[1])
                  /\ \E w \in Callers : run[w].card = id /\ run[w].now < Card(id).expiry
<1>1. LineageInv /\ [Next]_vars => [Step]_vars
  <2> SUFFICES ASSUME LineageInv, [Next]_vars, NEW id \in Minted,
                      confirmations'[id] # confirmations[id]
               PROVE  /\ id = Current(id[1])
                      /\ \E w \in Callers : run[w].card = id /\ run[w].now < Card(id).expiry
    OBVIOUS
  <2>1. PICK w \in Callers : Approves(w)
    BY CardFlow DEF Stays, Mints, Walks, Unapproved
  <2>2. id = run[w].card
    <3>1. confirmations \in [CardIds -> Seq(0 .. MaxSelections)] /\ id \in CardIds
      BY DEF LineageInv, TypeOK, Minted
    <3> QED
      BY <2>1, <3>1 DEF Approves, Authorize
  <2> QED
    BY <2>1, <2>2 DEF Approves, IsCurrent
<1>2. Spec => [][Step]_vars
  BY <1>1, LineageInvariant, PTL DEF Spec
<1> QED
  BY <1>2 DEF ApprovesOnlyHead

\* What one step reports is one item, of the member that is under way.
LEMMA AnswerTells ==
  ASSUME NEW w \in Callers, NEW item, Answer(w, item), NEW i \in report' \ report
  PROVE  run[w].bulk /\ i = <<w, run[w].member, item>>
BY DEF Answer

\* The cards whose authorization stands after the step.
Authorized(m) ==
    {id \in CardsOf(m) : StateHasAuthorized(cards'[id[1]][id[2]].state)}

TellsTruth(i) ==
    /\ i[3] \in {"authorized", "already_authorized"} =>
          \E id \in CardsOf(i[2]) : id \in intents'
    /\ i[3] \in {"invalidated", "excluded"} =>
          CardsOf(i[2]) = {} \/ Authorized(i[2]) # CardsOf(i[2])

LEMMA DecisionTellsTruth ==
  ASSUME LineageInv, NEW w \in Callers, ConfirmDecide(w), NEW i \in report' \ report
  PROVE  TellsTruth(i)
<1> DEFINE id == run[w].card
           to == ConfirmOutcome(id, run[w].matches, run[w].now)
<1>1. InFlight(w) /\ report' # report
  BY DEF ConfirmDecide, InFlight
<1>2. /\ Advance(id, to) /\ (to = "approved" => id \in intents')
      /\ Answer(w, IF to = "approved" THEN "authorized" ELSE "invalidated")
  BY <1>1 DEF ConfirmDecide, Refuse, Authorize
<1>3. /\ run[w].bulk
      /\ i = <<w, run[w].member, IF to = "approved" THEN "authorized" ELSE "invalidated">>
  BY <1>2, AnswerTells
<1>4. id \in CardsOf(run[w].member) /\ id \in Minted
  BY <1>1, <1>3 DEF LineageInv, RequestsAreSound
<1>5. CASE to = "approved"
  BY <1>2, <1>3, <1>4, <1>5 DEF TellsTruth
<1>6. CASE to # "approved"
  <2>1. to \in {"invalidated", "expired"}
    BY <1>6 DEF ConfirmOutcome
  <2>2. Moving(id, to)
    BY <1>2, <1>4, <2>1 DEF Moving, States
  <2>3. cards'[id[1]][id[2]].state = to
    BY <1>4, <2>2, MoveStates DEF LineageInv
  <2>4. id \notin Authorized(run[w].member)
    BY <2>1, <2>3 DEF Authorized, StateHasAuthorized
  <2> QED
    BY <1>3, <1>4, <1>6, <2>4 DEF TellsTruth
<1> QED
  BY <1>5, <1>6

LEMMA RereadTellsTruth ==
  ASSUME LineageInv, NEW w \in Callers, BulkReread(w), NEW i \in report' \ report
  PROVE  TellsTruth(i)
<1> DEFINE m == run[w].member
           item == IF StateHasAuthorized(CurrentCardState(w))
                   THEN "already_authorized" ELSE "invalidated"
<1>1. InFlight(w) /\ Answer(w, item) /\ cards' = cards /\ intents' = intents
  BY DEF BulkReread, InFlight
<1>2. run[w].bulk /\ i = <<w, m, item>>
  BY <1>1, AnswerTells
<1>3. m \in Members /\ CardsOf(m) # {}
  BY <1>1, <1>2 DEF LineageInv, RequestsAreSound
<1>4. CurrentOf(m) \in CardsOf(m) /\ CurrentCardState(w) = Card(CurrentOf(m)).state
  BY <1>3, CurrentIsThere DEF LineageInv, CurrentCardState
<1>5. CASE StateHasAuthorized(CurrentCardState(w))
  <2>1. CurrentOf(m) \in intents
    BY <1>4, <1>5 DEF LineageInv, Approvals, CardsOf, Minted
  <2> QED
    BY <1>1, <1>2, <1>4, <1>5, <2>1 DEF TellsTruth
<1>6. CASE ~StateHasAuthorized(CurrentCardState(w))
  <2>1. CurrentOf(m) \notin Authorized(m)
    BY <1>1, <1>4, <1>6 DEF Authorized, Card
  <2> QED
    BY <1>2, <1>4, <1>6, <2>1 DEF TellsTruth
<1> QED
  BY <1>5, <1>6

LEMMA MemberTellsTruth ==
  ASSUME LineageInv, NEW w \in Callers, NEW m \in run[w].todo, BulkMember(w, m),
         NEW i \in report' \ report
  PROVE  TellsTruth(i)
<1>1. /\ Executable(m) => CardsOf(m) = {}
      /\ i = <<w, m, IF Executable(m) THEN "invalidated" ELSE "excluded">>
  BY DEF BulkMember
<1>2. ~Executable(m) => CardsOf(m) = {}
  <2> SUFFICES ASSUME NEW id \in CardsOf(m) PROVE Executable(m)
    OBVIOUS
  <2>1. id \in Minted /\ id[1] = m[1] /\ Card(id).rec = m[2]
    BY DEF CardsOf
  <2>2. id[1] \in Lineages /\ id[2] \in DOMAIN cards[id[1]] /\ Card(id) = cards[id[1]][id[2]]
    BY <2>1, MintedAre DEF LineageInv
  <2> QED
    BY <2>1, <2>2 DEF LineageInv, RowsAreBound, Executable
<1> QED
  BY <1>1, <1>2 DEF TellsTruth

\* ConfirmBulkSelection: what it reports of a member is so when it is reported,
\* although the request reads and decides in separate steps and races other
\* requests for the card.
THEOREM ReportsAreTrue == Spec => ReportIsTrue
<1>1. LineageInv /\ [Next]_vars => [\A i \in report' \ report : TellsTruth(i)]_vars
  <2> SUFFICES ASSUME LineageInv, [Next]_vars, NEW i \in report' \ report
               PROVE  TellsTruth(i)
    OBVIOUS
  <2>1. ASSUME NEW w \in Callers, RequestFails(w)
        PROVE  TellsTruth(i)
    <3>1. i = <<w, run[w].member, "failed">>
      BY <2>1, AnswerTells DEF RequestFails
    <3> QED
      BY <3>1 DEF TellsTruth
  <2>2. ASSUME NEW w \in Callers, Crash(w) \/ BulkDone(w)
        PROVE  TellsTruth(i)
    BY <2>2 DEF Crash, BulkDone
  <2>3. CASE report' = report
    BY <2>3
  <2> QED
    BY <2>1, <2>2, <2>3, DecisionTellsTruth, RereadTellsTruth, MemberTellsTruth
       DEF Next, vars, EvidenceArrives, ListEligible, DedupRead, PassFails, ProduceVersion,
           PrepareRecommendationDraft, EditPrice, ReviewCard, ExecutionAdvances,
           InvalidateDependent, Tick, Confirm, ConfirmRead, PreviewBulkSelection,
           ConfirmBulkSelection
<1>2. Spec => [][\A i \in report' \ report : TellsTruth(i)]_vars
  BY <1>1, LineageInvariant, PTL DEF Spec
<1> QED
  BY <1>2 DEF ReportIsTrue, TellsTruth, Authorized

\* ConfirmBulkSelection: it answers with one item for every member of the
\* version it bound, whatever failed on the way and was sealed meanwhile.
THEOREM EveryMemberIsAnswered == Spec => EveryMemberIsReported
<1> DEFINE Step == \A w \in Callers : BulkDone(w) =>
              \A m \in sets[run[w].bound] :
                  \E i \in report : i[1] = w /\ i[2] = m /\
                      \A j \in report : j[1] = w /\ j[2] = m => j = i
<1>1. LineageInv => Step
  <2> SUFFICES ASSUME LineageInv, NEW w \in Callers, BulkDone(w),
                      NEW m \in sets[run[w].bound]
               PROVE  \E i \in report : i[1] = w /\ i[2] = m /\
                          \A j \in report : j[1] = w /\ j[2] = m => j = i
    OBVIOUS
  <2>1. run[w].bulk /\ ~Pending(w, m)
    BY DEF LineageInv, RequestsAreSound, BulkDone, Pending, InFlight
  <2>2. PICK i \in report : i[1] = w /\ i[2] = m
    BY <2>1 DEF LineageInv, MembersAreReported, Reported
  <2> QED
    BY <2>2 DEF LineageInv, MembersAreReported
<1>2. Spec => [][Step]_vars
  <2>1. LineageInv /\ [Next]_vars => [Step]_vars
    BY <1>1
  <2> QED
    BY <2>1, LineageInvariant, PTL DEF Spec
<1> QED
  BY <1>2 DEF EveryMemberIsReported

\* A pass that mints compares with the newest version before it, and every
\* other pass of the lineage that has compared already is overtaken by it.
LEMMA NewerNext ==
  ASSUME LineageInv, NewerEvidenceOnly, PassIsNewer, [Next]_vars
  PROVE  NewerEvidenceOnly' /\ PassIsNewer'
<1>t. /\ pass \in [Passes -> PassRecords] /\ recs \in [Lineages -> Seq(RecRows)]
      /\ \A l \in Lineages : /\ DOMAIN recs[l] = 1 .. Len(recs[l]) /\ Len(recs[l]) \in Nat
                             /\ \A r \in DOMAIN recs[l] : recs[l][r].ctx \in Nat
      /\ \A p \in Passes : pass[p].ctx \in Nat /\ pass[p].overtaken \in BOOLEAN
  <2>1. pass \in [Passes -> PassRecords] /\ recs \in [Lineages -> Seq(RecRows)]
    BY DEF LineageInv, TypeOK, PassRecords
  <2>2. \A l \in Lineages : DOMAIN recs[l] = 1 .. Len(recs[l]) /\ Len(recs[l]) \in Nat
    BY <2>1, LenProperties
  <2>3. ASSUME NEW l \in Lineages, NEW r \in DOMAIN recs[l] PROVE recs[l][r].ctx \in Nat
    <3>1. recs[l][r] \in RecRows
      BY <2>1, <2>2, <2>3, ElementOfSeq
    <3> QED
      BY <3>1 DEF RecRows
  <2>4. ASSUME NEW p \in Passes PROVE pass[p].ctx \in Nat /\ pass[p].overtaken \in BOOLEAN
    BY <2>1 DEF PassRecords
  <2> QED
    BY <2>1, <2>2, <2>3, <2>4
<1>1. ASSUME NEW p \in Passes, NEW ok \in BOOLEAN, ProduceVersion(p, ok)
      PROVE  NewerEvidenceOnly' /\ PassIsNewer'
  <2> DEFINE l == pass[p].lineage
             row == [ctx |-> pass[p].ctx, approvable |-> ok, expiry |-> pass[p].expiry,
                     behind |-> pass[p].overtaken]
  <2>1. /\ l \in Lineages /\ row \in RecRows /\ row.ctx = pass[p].ctx
        /\ row.behind = pass[p].overtaken
        /\ recs' = [recs EXCEPT ![l] = Append(recs[l], row)]
        /\ Overtake(p)
        /\ Len(recs[l]) > 0 => row.behind \/ recs[l][Len(recs[l])].ctx < row.ctx
    BY <1>t, <1>1
       DEF LineageInv, PassesAreSound, ProduceVersion, PassRecords, RecRows, PassIsNewer
  <2>2. PassIsNewer'
    <3> SUFFICES ASSUME NEW q \in Passes, pass'[q].pc = "produce", ~pass'[q].overtaken,
                        Len(recs'[pass'[q].lineage]) > 0
                 PROVE  recs'[pass'[q].lineage][Len(recs'[pass'[q].lineage])].ctx
                            < pass'[q].ctx
      BY DEF PassIsNewer
    <3>1. pass'[q] # IdlePass /\ pass'[q] # [pass[q] EXCEPT !.overtaken = TRUE]
      BY <1>t DEF IdlePass, PassRecords
    <3>2. pass'[q] = pass[q] /\ ~(pass[q].pc = "produce" /\ pass[q].lineage = l)
      BY <2>1, <3>1 DEF Overtake
    <3>3. pass[q].lineage \in Lineages /\ pass[q].lineage # l
      BY <3>2 DEF LineageInv, PassesAreSound
    <3>4. recs'[pass[q].lineage] = recs[pass[q].lineage]
      BY <1>t, <2>1, <3>3
    <3> QED
      BY <3>2, <3>4 DEF PassIsNewer
  <2> HIDE DEF row, l
  <2>3. /\ Len(Append(recs[l], row)) = Len(recs[l]) + 1
        /\ Append(recs[l], row) \in Seq(RecRows)
        /\ \A r \in 1 .. Len(recs[l]) : Append(recs[l], row)[r] = recs[l][r]
        /\ Append(recs[l], row)[Len(recs[l]) + 1] = row
    BY <1>t, <2>1, AppendProperties
  <2>4. DOMAIN Append(recs[l], row) = 1 .. (Len(recs[l]) + 1)
    BY <2>3, LenProperties
  <2>5. ASSUME NEW m \in Lineages, NEW v \in DOMAIN recs'[m], v > 1
        PROVE  recs'[m][v].behind \/ recs'[m][v - 1].ctx < recs'[m][v].ctx
    <3>1. CASE m # l
      BY <1>t, <2>1, <2>5, <3>1 DEF NewerEvidenceOnly
    <3>2. CASE m = l
      <4>1. recs'[m] = Append(recs[l], row)
        BY <1>t, <2>1, <3>2
      <4>2. v \in 1 .. (Len(recs[l]) + 1) /\ v - 1 \in 1 .. Len(recs[l])
        BY <1>t, <2>1, <2>4, <2>5, <4>1
      <4>3. recs'[m][v - 1] = recs[l][v - 1]
        BY <2>3, <4>1, <4>2
      <4>4. CASE v \in 1 .. Len(recs[l])
        <5>1. recs'[m][v] = recs[l][v] /\ v \in DOMAIN recs[l]
          BY <1>t, <2>1, <2>3, <4>1, <4>4
        <5> QED
          BY <2>1, <2>5, <4>3, <5>1 DEF NewerEvidenceOnly
      <4>5. CASE v \notin 1 .. Len(recs[l])
        <5>1. v = Len(recs[l]) + 1 /\ v - 1 = Len(recs[l]) /\ Len(recs[l]) > 0
          BY <1>t, <2>1, <4>2, <4>5
        <5>2. recs'[m][v] = row
          BY <2>3, <4>1, <5>1
        <5> QED
          BY <2>1, <4>3, <5>1, <5>2
      <4> QED
        BY <4>4, <4>5
    <3> QED
      BY <3>1, <3>2
  <2>6. NewerEvidenceOnly'
    BY <2>5 DEF NewerEvidenceOnly
  <2> QED
    BY <2>2, <2>6
<1>o. ASSUME NEW p \in Passes, recs' = recs, \A q \in Passes \ {p} : pass'[q] = pass[q],
             pass'[p].pc = "produce" =>
                LET rows == recs[pass'[p].lineage] IN
                    Len(rows) > 0 => rows[Len(rows)].ctx < pass'[p].ctx
      PROVE  PassIsNewer'
  <2> SUFFICES ASSUME NEW q \in Passes, pass'[q].pc = "produce", ~pass'[q].overtaken
               PROVE  LET rows == recs[pass'[q].lineage] IN
                          Len(rows) > 0 => rows[Len(rows)].ctx < pass'[q].ctx
    BY <1>o DEF PassIsNewer
  <2>1. CASE q = p
    BY <1>o, <2>1
  <2>2. CASE q # p
    BY <1>o, <2>2 DEF PassIsNewer
  <2> QED
    BY <2>1, <2>2
<1>2. ASSUME NEW p \in Passes, DedupRead(p)
      PROVE  NewerEvidenceOnly' /\ PassIsNewer'
  <2> DEFINE l == pass[p].lineage
  <2>1. /\ recs' = recs /\ l \in Lineages /\ NewerEvidenceOnly'
        /\ \A q \in Passes \ {p} : pass'[q] = pass[q]
    BY <1>t, <1>2 DEF DedupRead, LineageInv, PassesAreSound, NewerEvidenceOnly
  <2>2. CASE AlreadyProduced(l, pass[p].ctx)
    <3>1. pass'[p].pc = "idle"
      BY <1>t, <1>2, <2>2 DEF DedupRead, IdlePass
    <3> QED
      BY <1>o, <2>1, <3>1
  <2>3. CASE ~AlreadyProduced(l, pass[p].ctx)
    <3>1. /\ pass'[p].lineage = l /\ pass'[p].ctx = pass[p].ctx
      BY <1>t, <1>2, <2>3 DEF DedupRead, PassRecords
    <3>2. ASSUME Len(recs[l]) > 0
          PROVE  recs[l][Len(recs[l])].ctx < pass[p].ctx
      <4>1. recs[l] # <<>> /\ Len(recs[l]) \in DOMAIN recs[l]
        BY <1>t, <2>1, <3>2
      <4> QED
        BY <1>t, <2>1, <2>3, <4>1 DEF AlreadyProduced
    <3> QED
      BY <1>o, <2>1, <3>1, <3>2
  <2> QED
    BY <2>2, <2>3
<1>3. ASSUME NEW p \in Passes, PassFails(p) \/ \E l \in Lineages : ListEligible(p, l)
      PROVE  NewerEvidenceOnly' /\ PassIsNewer'
  <2>1. /\ recs' = recs /\ pass'[p].pc # "produce"
        /\ \A q \in Passes \ {p} : pass'[q] = pass[q]
    BY <1>t, <1>3 DEF PassFails, ListEligible, IdlePass
  <2>2. NewerEvidenceOnly'
    BY <2>1 DEF NewerEvidenceOnly
  <2> QED
    BY <1>o, <2>1, <2>2
<1>4. CASE recs' = recs /\ pass' = pass
  BY <1>4 DEF NewerEvidenceOnly, PassIsNewer
<1> QED
  BY <1>1, <1>2, <1>3, <1>4 DEF Next, vars, EvidenceArrives, PrepareRecommendationDraft,
     EditPrice, ReviewCard, ExecutionAdvances, InvalidateDependent, Tick, Confirm,
     ConfirmRead, ConfirmDecide, BulkDone, BulkReread, RequestFails, Crash,
     PreviewBulkSelection, ConfirmBulkSelection, BulkMember

\* recommendation.Producer, of any number of overlapping passes: a version that is
\* not from strictly newer evidence than the one before it was minted by a pass
\* that another one overtook between its dedup read and its transaction.
THEOREM OnlyNewerEvidenceMints == Spec => []NewerEvidenceOnly
<1>1. Init => NewerEvidenceOnly /\ PassIsNewer
  BY DEF Init, NewerEvidenceOnly, PassIsNewer, IdlePass
<1>2. LineageInv /\ NewerEvidenceOnly /\ PassIsNewer /\ [Next]_vars
          => NewerEvidenceOnly' /\ PassIsNewer'
  BY NewerNext
<1> QED
  BY <1>1, <1>2, LineageInvariant, PTL DEF Spec

-----------------------------------------------------------------------------
(***************************************************************************)
(* The life of a card.                                                     *)
(***************************************************************************)
StateOf(id) == IF id \in Minted THEN Card(id).state ELSE "none"

Life == INSTANCE CardLife WITH Cards <- CardIds, state <- [id \in CardIds |-> StateOf(id)]

\* What a walk along the diagram is to the life of its card.
LEMMA WalkIsLife ==
  ASSUME NEW id \in CardIds, NEW to \in States, id \in Minted, Card(id).state \in States,
         Harmless(Card(id).state, to) \/ (Card(id).state = "awaiting_confirmation"
                                          /\ to = "approved"),
         Life!Moves(id, to)
  PROVE  Life!Approval \/ Life!Execution
<1> DEFINE lives == [c \in CardIds |-> StateOf(c)]
<1>1. lives[id] = Card(id).state
  BY DEF StateOf
<1>2. CASE Card(id).state = "approved" /\ to = "invalidated"
  <2>1. Life!Void(id)
    BY <1>1, <1>2 DEF Life!Void
  <2> QED
    BY <2>1 DEF Life!Execution
<1>3. CASE CanTransition(Card(id).state, to) /\ Card(id).state # "invalidated"
  <2>1. \/ Card(id).state \in {"draft", "ready_for_review", "awaiting_confirmation"}
        \/ StateHasAuthorized(Card(id).state)
    BY <1>3 DEF CanTransition, Transitions, StateHasAuthorized
  <2>2. Life!CanTransition(lives[id], to) /\ to \in Life!States
    BY <1>1, <1>3 DEF Life!CanTransition, Life!Transitions, Life!States, CanTransition,
       Transitions, States
  <2>3. Life!StateHasAuthorized(lives[id]) <=> StateHasAuthorized(Card(id).state)
    BY <1>1 DEF Life!StateHasAuthorized, StateHasAuthorized
  <2> HIDE DEF lives
  <2>4. Life!Review(id) \/ Life!Decide(id) \/ Life!Execute(id)
    BY <1>1, <2>1, <2>2, <2>3 DEF Life!Review, Life!Decide, Life!Execute, lives
  <2> QED
    BY <2>4 DEF Life!Approval, Life!Execution
<1> QED
  BY <1>2, <1>3 DEF Harmless, CanTransition, Transitions

\* A move of one card is a move of its life.
LEMMA MovesLife ==
  ASSUME TypeOK, NEW id \in Minted, NEW to \in States, Moving(id, to)
  PROVE  Life!Moves(id, to)
<1>1. /\ Minted' = Minted /\ cards'[id[1]][id[2]].state = to
      /\ \A d \in Minted \ {id} : cards'[d[1]][d[2]] = Card(d)
  BY MoveStates
<1>2. id \in CardIds
  BY DEF Minted
<1>3. ASSUME NEW c \in CardIds
      PROVE  StateOf(c)' = IF c = id THEN to ELSE StateOf(c)
  BY <1>1 DEF StateOf, Card
<1>4. [c \in CardIds |-> StateOf(c)]'
          = [[c \in CardIds |-> StateOf(c)] EXCEPT ![id] = to]
  BY <1>2, <1>3 DEF CardIds
<1> QED
  BY <1>4 DEF Life!Moves

LEMMA LifeInit == Init => Life!Init
<1> SUFFICES ASSUME Init
             PROVE  \A id \in CardIds : StateOf(id) = "none"
  BY DEF Life!Init
<1>1. \A id \in CardIds : id[1] \in Lineages /\ id[2] \in Nat /\ id[2] >= 1
  BY LineageBounds DEF CardIds
<1>2. \A id \in CardIds : Len(cards[id[1]]) = 0
  BY <1>1 DEF Init
<1>3. \A id \in CardIds : ~(id[2] <= 0)
  BY <1>1
<1> QED
  BY <1>2, <1>3 DEF StateOf, Minted

\* A step of the approval plane is a step of one card's life, or of none.
LEMMA LifeNext == LineageInv /\ [Next]_vars => [Life!Next]_(Life!vars)
<1> SUFFICES ASSUME LineageInv, [Next]_vars
             PROVE  [Life!Next]_(Life!vars)
  OBVIOUS
<1> DEFINE lives == [id \in CardIds |-> StateOf(id)]
<1>t. TypeOK /\ \A id \in Minted : id \in CardIds /\ Card(id).state \in States
  BY MintedAre DEF LineageInv, CardRows
<1>1. CASE Stays
  <2>1. lives' = lives
    BY <1>1 DEF Stays, StateOf, Minted, Card, CardIds
  <2> QED
    BY <2>1 DEF Life!vars
<1>2. CASE Mints
  <2>1. PICK l \in Lineages, row \in CardRows : Minting(l, row)
    BY <1>2 DEF Mints
  <2>a. PICK n : n = Len(cards[l]) + 1
    OBVIOUS
  <2> DEFINE id == <<l, n>>
  <2>2. /\ \A m \in Lineages \ {l} : cards'[m] = cards[m]
        /\ Len(cards'[l]) = Len(cards[l]) + 1
        /\ \A v \in DOMAIN cards[l] : cards'[l][v] = cards[l][v]
        /\ cards'[l][n] = row /\ row.state = "draft"
    BY <1>t, <2>1, <2>a, MintEffect DEF Minting
  <2>3. \A m \in Lineages : DOMAIN cards[m] = 1 .. Len(cards[m]) /\ Len(cards[m]) \in Nat
    BY <1>t, MintedAre
  <2>4. id \in CardIds /\ id \notin Minted /\ id \in Minted'
    BY <2>1, <2>a, <2>2, <2>3, LineageBounds DEF Minting, CardIds, Minted
  <2>5. StateOf(id) = "none" /\ StateOf(id)' = "draft"
    <3>1. id[1] = l /\ id[2] = n
      OBVIOUS
    <3>2. cards'[id[1]][id[2]].state = "draft"
      BY <2>2, <3>1
    <3> HIDE DEF id
    <3> QED
      BY <2>4, <3>2 DEF StateOf, Card
  <2>6. ASSUME NEW c \in CardIds, c # id
        PROVE  StateOf(c)' = StateOf(c)
    <3>1. /\ \A d \in Minted : d \in Minted' /\ cards'[d[1]][d[2]] = Card(d)
      BY <1>t, <1>2, MintStates
    <3>2. c[1] \in Lineages /\ c[2] \in Nat /\ c = <<c[1], c[2]>>
      BY DEF CardIds
    <3>3. c[2] <= Len(cards'[c[1]]) => c[2] <= Len(cards[c[1]])
      BY <2>a, <2>2, <2>3, <2>6, <3>2
    <3>4. c \in Minted' <=> c \in Minted
      BY <3>1, <3>3 DEF Minted
    <3> QED
      BY <3>1, <3>4 DEF StateOf, Card
  <2> HIDE DEF id
  <2>7. lives' = [lives EXCEPT ![id] = "draft"] /\ lives[id] = "none"
    <3>1. lives' = [c \in CardIds |-> StateOf(c)']
      BY DEF CardIds
    <3>2. [lives EXCEPT ![id] = "draft"]
              = [c \in CardIds |-> IF c = id THEN "draft" ELSE StateOf(c)]
      OBVIOUS
    <3> QED
      BY <2>4, <2>5, <2>6, <3>1, <3>2
  <2>8. Life!Mint(id)
    BY <2>7 DEF Life!Mint, Life!Moves
  <2> QED
    BY <2>4, <2>8 DEF Life!Approval, Life!Next
<1>3. CASE Walks
  <2>1. PICK id \in Minted, to \in States : Moving(id, to) /\ Harmless(Card(id).state, to)
    BY <1>3 DEF Walks
  <2> QED
    BY <1>t, <2>1, MovesLife, WalkIsLife DEF Life!Next
<1>4. ASSUME NEW w \in Callers, Approves(w)
      PROVE  Life!Next
  <2> DEFINE id == run[w].card
  <2>1. /\ id \in Minted /\ Moving(id, "approved")
        /\ Card(id).state = "awaiting_confirmation" /\ "approved" \in States
    BY <1>4 DEF Approves, States
  <2> HIDE DEF id
  <2> QED
    BY <1>t, <2>1, MovesLife, WalkIsLife DEF Life!Next
<1> QED
  BY <1>1, <1>2, <1>3, <1>4, CardFlow

\* The approval plane keeps its side of the contract, ApprovalLineage implements
\* CardLife: whatever requests, edits, passes and reopens are in flight, a step
\* mints one card, or takes one card one edge along the diagram - reviewed and
\* decided about before its approval, executed only after it - or voids an
\* approved one.
THEOREM LineageIsCardLife == Spec => Life!Spec
BY LifeInit, LifeNext, LineageInvariant, PTL DEF Spec, Life!Spec

\* card.go: "nothing executes from the stale card"; ExpireDependentForVariant: "an
\* already-Invalidated card is terminal".  The FROM-guard of AdvanceTx
\* and the lineage lock keep a card that has ended where it is, whatever request
\* read it before; and only an opened control gives a card authority.
THEOREM EndedCardsStay == Spec => EndIsFinal
<1> DEFINE Step == \A id \in Minted :
              LET old == Card(id).state
                  new == cards'[id[1]][id[2]].state
              IN  new # old =>
                     /\ ~Ended(old)
                     /\ StateHasAuthorized(new) /\ ~StateHasAuthorized(old) =>
                           old = "awaiting_confirmation" /\ new = "approved"
<1>1. LineageInv /\ [Next]_vars => [Step]_vars
  <2> SUFFICES ASSUME LineageInv, [Next]_vars, NEW id \in Minted
               PROVE  LET old == Card(id).state
                          new == cards'[id[1]][id[2]].state
                      IN  new # old =>
                             /\ ~Ended(old)
                             /\ StateHasAuthorized(new) /\ ~StateHasAuthorized(old) =>
                                   old = "awaiting_confirmation" /\ new = "approved"
    OBVIOUS
  <2>t. TypeOK
    BY DEF LineageInv
  <2>1. CASE Stays
    BY <2>1 DEF Stays, Card
  <2>2. CASE Mints
    BY <2>t, <2>2, MintStates
  <2>3. CASE Walks
    <3>1. PICK d \in Minted, to \in States : Moving(d, to) /\ Harmless(Card(d).state, to)
      BY <2>3 DEF Walks
    <3>2. /\ cards'[d[1]][d[2]].state = to
          /\ id # d => cards'[id[1]][id[2]] = Card(id)
      BY <2>t, <3>1, MoveStates
    <3>3. ~Ended(Card(d).state) /\ (StateHasAuthorized(to) => StateHasAuthorized(Card(d).state))
      BY <3>1 DEF Harmless, Ended, Terminal, CanTransition, Transitions, States,
         StateHasAuthorized
    <3> QED
      BY <3>2, <3>3
  <2>4. ASSUME NEW w \in Callers, Approves(w)
        PROVE  LET old == Card(id).state
                   new == cards'[id[1]][id[2]].state
               IN  new # old =>
                      /\ ~Ended(old)
                      /\ StateHasAuthorized(new) /\ ~StateHasAuthorized(old) =>
                            old = "awaiting_confirmation" /\ new = "approved"
    <3> DEFINE d == run[w].card
    <3>1. d \in Minted /\ Moving(d, "approved") /\ Card(d).state = "awaiting_confirmation"
      BY <2>4 DEF Approves
    <3> HIDE DEF d
    <3>2. /\ cards'[d[1]][d[2]].state = "approved"
          /\ id # d => cards'[id[1]][id[2]] = Card(id)
      BY <2>t, <3>1, MoveStates
    <3>3. ~Ended("awaiting_confirmation")
      BY DEF Ended, Terminal, CanTransition, Transitions, States
    <3> QED
      BY <3>1, <3>2, <3>3
  <2> QED
    BY <2>1, <2>2, <2>3, <2>4, CardFlow
<1>2. Spec => [][Step]_vars
  BY <1>1, LineageInvariant, PTL DEF Spec
<1> QED
  BY <1>2 DEF EndIsFinal
=============================================================================
