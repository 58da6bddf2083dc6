--------------------------- MODULE ApprovalLineage ---------------------------
(***************************************************************************)
(* The approval plane: how card versions are minted into a lineage and how *)
(* their structured controls are activated, one by one or in bulk.         *)
(*                                                                         *)
(*   recommendation.Producer      a listing, a dedup read and a transaction *)
(*   PrepareRecommendationDraft, EditPrice                                 *)
(*                                mint a further version of a lineage      *)
(*   ConfirmIndividual            a read, then a transaction that holds    *)
(*                                the lineage lock                         *)
(*   PreviewBulkSelection, ConfirmBulkSelection                            *)
(*                                a sealed selection version, and a loop   *)
(*                                that confirms its members one by one     *)
(*                                                                         *)
(* Writers that take LockApprovalLineage are serialized, so each of their  *)
(* transactions is one step; what they read before it is a step of its     *)
(* own.  What becomes of a card after its approval is ActionExecution; here *)
(* it is any walk along the diagram.                                       *)
(***************************************************************************)
EXTENDS ApprovalMachine, Integers, Sequences

CONSTANTS
    Lineages,       \* card lineages; one recommendation lineage each
    Callers,        \* confirmation requests in flight
    Passes,         \* producer passes in flight
    MaxVersions,    \* bound: card versions per lineage
    MaxRecs,        \* bound: recommendation versions per lineage
    MaxEvidence,    \* bound: evidence versions of a lineage's event
    MaxSelections,  \* bound: selection-set versions
    MaxClock,       \* bound on time
    MaxFailures     \* bound on failed transactions and crashes

ASSUME LineageBounds ==
    /\ MaxVersions \in Nat /\ MaxRecs \in Nat /\ MaxEvidence \in Nat
    /\ MaxSelections \in Nat /\ MaxClock \in Nat /\ MaxFailures \in Nat

VARIABLES
    cards,          \* approval_cards: the versions of each lineage, oldest first
    recs,           \* recommendations: the versions of each lineage, oldest first
    evidence,       \* the evidence version of the lineage's event; 0: no event yet
    confirmations,  \* confirmation audit records of each card: the selection
                    \* version of the request, 0 for an individual one
    intents,        \* cards with a durable execute_approved job
    sets,           \* selection_sets: the sealed membership of each version
    clock,
    failures,
    pass,           \* local state of every producer pass
    run,            \* local state of every confirmation request
    report          \* the items bulk confirmations in flight have settled so far

vars == <<cards, recs, evidence, confirmations, intents, sets, clock, failures,
          pass, run, report>>

-----------------------------------------------------------------------------

CardIds == Lineages \X (1 .. MaxVersions)
Members == Lineages \X (1 .. MaxRecs)
NoCard  == <<"none", 0>>

\* A card: the recommendation version it was minted from, the action it is
\* bound to (named by the version that introduced it), the version of the
\* action's parameters, its expiry and its state.
CardRows == [rec: Nat, action: Nat, pv: Nat, expiry: Nat, state: States]

RecRows == [ctx: Nat, approvable: BOOLEAN, expiry: Nat, behind: BOOLEAN]

BulkItemStates ==
    {"authorized", "already_authorized", "excluded", "invalidated", "failed"}

IdlePass == [pc |-> "idle", lineage |-> "none", ctx |-> 0, expiry |-> 0,
             overtaken |-> FALSE]
IdleCall == [pc |-> "idle", bulk |-> FALSE, card |-> NoCard, member |-> NoCard,
             control |-> FALSE, matches |-> FALSE, now |-> 0, bound |-> 0,
             todo |-> {}]

TypeOK ==
    /\ cards \in [Lineages -> Seq(CardRows)]
    /\ \A l \in Lineages : Len(cards[l]) <= MaxVersions
    /\ recs \in [Lineages -> Seq(RecRows)]
    /\ evidence \in [Lineages -> 0 .. MaxEvidence]
    /\ confirmations \in [CardIds -> Seq(0 .. MaxSelections)]
    /\ intents \subseteq CardIds
    /\ sets \in Seq(SUBSET Members)
    /\ clock \in 0 .. MaxClock
    /\ failures \in 0 .. MaxFailures
    /\ pass \in [Passes -> [pc: {"idle", "dedup", "produce"},
                            lineage: Lineages \cup {"none"}, ctx: Nat,
                            expiry: Nat, overtaken: BOOLEAN]]
    /\ run \in [Callers -> [pc: {"idle", "member", "read", "decide", "reread"},
                            bulk: BOOLEAN, card: CardIds \cup {NoCard},
                            member: Members \cup {NoCard}, control: BOOLEAN,
                            matches: BOOLEAN, now: Nat, bound: 0 .. MaxSelections,
                            todo: SUBSET Members]]
    /\ report \subseteq Callers \X Members \X BulkItemStates

Init ==
    /\ cards = [l \in Lineages |-> <<>>]
    /\ recs = [l \in Lineages |-> <<>>]
    /\ evidence = [l \in Lineages |-> 0]
    /\ confirmations = [id \in CardIds |-> <<>>]
    /\ intents = {}
    /\ sets = <<>>
    /\ clock = 0
    /\ failures = 0
    /\ pass = [p \in Passes |-> IdlePass]
    /\ run = [w \in Callers |-> IdleCall]
    /\ report = {}

-----------------------------------------------------------------------------

Card(id) == cards[id[1]][id[2]]
Minted == {id \in CardIds : id[2] <= Len(cards[id[1]])}

\* GetCurrentApprovalCard: the greatest version of the lineage.
Current(l) == <<l, Len(cards[l])>>

\* GetCurrentApprovalCardByRecommendation: the greatest version minted from
\* the recommendation, whatever has been minted into the lineage since.
CardsOf(m) == {id \in Minted : id[1] = m[1] /\ Card(id).rec = m[2]}
CurrentOf(m) == CHOOSE id \in CardsOf(m) : \A d \in CardsOf(m) : d[2] <= id[2]

\* AdvanceTx: a defined move, and the card is still where the caller says.
MayAdvance(id, from, to) == CanTransition(from, to) /\ Card(id).state = from
Advance(id, to) == cards' = [cards EXCEPT ![id[1]][id[2]].state = to]

\* UNIQUE(idempotency_key) of approval_cards: an action and a parameter version.
NoKey(l, action, pv) == FALSE
KeyTaken(l, action, pv) ==
    \E v \in DOMAIN cards[l] : cards[l][v].action = action /\ cards[l][v].pv = pv

\* The validity of what is computed now: one tick of the clock.
Expiry == clock + 1

\* mintDraftCardTx: the next version of the lineage, in Draft.
MintDraft(l, r, action, pv, expiry) ==
    /\ Len(cards[l]) < MaxVersions
    /\ ~KeyTaken(l, action, pv)
    /\ cards' = [cards EXCEPT ![l] = Append(@,
          [rec |-> r, action |-> action, pv |-> pv, expiry |-> expiry,
           state |-> "draft"])]

-----------------------------------------------------------------------------
(***************************************************************************)
(* The runtime producer.                                                   *)
(***************************************************************************)

\* The event of a lineage opens or is refreshed with new evidence.
EvidenceArrives(l) ==
    /\ evidence[l] < MaxEvidence
    /\ evidence' = [evidence EXCEPT ![l] = @ + 1]
    /\ UNCHANGED <<cards, recs, confirmations, intents, sets, clock, failures, pass,
                   run, report>>

\* Eligible: the pass remembers the evidence version it listed.
ListEligible(p, l) ==
    /\ pass[p].pc = "idle"
    /\ evidence[l] > 0
    /\ pass' = [pass EXCEPT ![p] =
          [pc |-> "dedup", lineage |-> l, ctx |-> evidence[l], expiry |-> 0,
           overtaken |-> FALSE]]
    /\ UNCHANGED <<cards, recs, evidence, confirmations, intents, sets, clock,
                   failures, run, report>>

\* The newest recommendation was produced from this evidence or from newer.
NeverProduced(l, ctx) == FALSE
AlreadyProduced(l, ctx) ==
    recs[l] # <<>> /\ recs[l][Len(recs[l])].ctx >= ctx

\* produceOne up to its dedup read: the inputs are resolved now, and
\* CurrentRecommendationForLineage reads outside any transaction.
DedupRead(p) ==
    /\ pass[p].pc = "dedup"
    /\ pass' = [pass EXCEPT ![p] =
          IF AlreadyProduced(@.lineage, @.ctx) THEN IdlePass
          ELSE [@ EXCEPT !.pc = "produce", !.expiry = Expiry]]
    /\ UNCHANGED <<cards, recs, evidence, confirmations, intents, sets, clock,
                   failures, run, report>>

\* The passes after p has minted: p is done, and what another pass on its lineage
\* read before is stale (overtaken is a history, behind keeps it with the row).
Overtake(p) ==
    pass' = [q \in Passes |->
        IF q = p THEN IdlePass
        ELSE IF pass[q].pc = "produce" /\ pass[q].lineage = pass[p].lineage
        THEN [pass[q] EXCEPT !.overtaken = TRUE]
        ELSE pass[q]]

\* ProduceVersion: the recommendation version and, if it is approvable, its
\* Draft card under a fresh action.  It does not compare the evidence again.
ProduceVersion(p, approvable) ==
    /\ pass[p].pc = "produce"
    /\ LET l == pass[p].lineage
           r == Len(recs[l]) + 1
       IN  /\ r <= MaxRecs
           /\ recs' = [recs EXCEPT ![l] =
                 Append(@, [ctx |-> pass[p].ctx, approvable |-> approvable,
                            expiry |-> pass[p].expiry, behind |-> pass[p].overtaken])]
           /\ IF approvable THEN MintDraft(l, r, Len(cards[l]) + 1, 1, pass[p].expiry)
              ELSE UNCHANGED cards
    /\ Overtake(p)
    /\ UNCHANGED <<evidence, confirmations, intents, sets, clock, failures, run, report>>

\* The event fails (a read, the transaction, a lost process); the next pass
\* starts over.
PassFails(p) ==
    /\ pass[p].pc # "idle"
    /\ failures < MaxFailures
    /\ failures' = failures + 1
    /\ pass' = [pass EXCEPT ![p] = IdlePass]
    /\ UNCHANGED <<cards, recs, evidence, confirmations, intents, sets, clock, run,
                   report>>

-----------------------------------------------------------------------------
(***************************************************************************)
(* The other writers of a lineage.                                         *)
(***************************************************************************)

\* PrepareRecommendationDraft: a chat Draft of a persisted, approvable
\* recommendation, under a fresh action, valid as long as the recommendation.
PrepareRecommendationDraft(l, r) ==
    /\ r \in DOMAIN recs[l]
    /\ recs[l][r].approvable
    /\ MintDraft(l, r, Len(cards[l]) + 1, 1, recs[l][r].expiry)
    /\ UNCHANGED <<recs, evidence, confirmations, intents, sets, clock, failures, pass,
                   run, report>>

\* EditPrice: the next parameter version of the card's action, with a fresh
\* window.  An edit of a version that was already edited collides on the
\* idempotency key.
EditPrice(id) ==
    /\ id \in Minted
    /\ MintDraft(id[1], Card(id).rec, Card(id).action, Card(id).pv + 1, Expiry)
    /\ UNCHANGED <<recs, evidence, confirmations, intents, sets, clock, failures, pass,
                   run, report>>

\* Advance: a Draft is validated (or blocked), and a ready card is opened.
ReviewCard(id, to) ==
    /\ id \in Minted
    /\ to \in {"ready_for_review", "blocked", "awaiting_confirmation"}
    /\ MayAdvance(id, Card(id).state, to)
    /\ Advance(id, to)
    /\ UNCHANGED <<recs, evidence, confirmations, intents, sets, clock, failures, pass,
                   run, report>>

\* The execution plane takes an approved card on; accepted stands for every
\* external result.
ExecutionAdvances(id, to) ==
    /\ id \in Minted
    /\ to \in {"revalidating", "executing", "accepted", "invalidated"}
    /\ StateHasAuthorized(Card(id).state)
    /\ MayAdvance(id, Card(id).state, to)
    /\ Advance(id, to)
    /\ UNCHANGED <<recs, evidence, confirmations, intents, sets, clock, failures, pass,
                   run, report>>

\* ExpireDependentForVariant: an identity reopen voids a live control, and an
\* approval by both edges in one transaction.
InvalidateDependent(id) ==
    /\ id \in Minted
    /\ Card(id).state \in {"approved", "awaiting_confirmation", "revalidating"}
    /\ Advance(id, "invalidated")
    /\ UNCHANGED <<recs, evidence, confirmations, intents, sets, clock, failures, pass,
                   run, report>>

Tick ==
    /\ clock < MaxClock
    /\ clock' = clock + 1
    /\ UNCHANGED <<cards, recs, evidence, confirmations, intents, sets, failures, pass,
                   run, report>>

-----------------------------------------------------------------------------
(***************************************************************************)
(* Confirmation.                                                           *)
(***************************************************************************)

\* The operator activates the control of a card; the presented binding is
\* the card's own or a stale echo.  The instant is taken here.
Confirm(w, id, matches) ==
    /\ run[w].pc = "idle"
    /\ id \in Minted
    /\ run' = [run EXCEPT ![w] = [IdleCall EXCEPT
          !.pc = "read", !.card = id, !.matches = matches, !.now = clock]]
    /\ UNCHANGED <<cards, recs, evidence, confirmations, intents, sets, clock,
                   failures, pass, report>>

\* GetApprovalCard, before the lineage lock is held.
ConfirmRead(w) ==
    /\ run[w].pc = "read"
    /\ run' = [run EXCEPT ![w].pc = "decide",
                          ![w].control = Card(run[w].card).state = "awaiting_confirmation"]
    /\ UNCHANGED <<cards, recs, evidence, confirmations, intents, sets, clock,
                   failures, pass, report>>

\* The card the control must belong to: the head of the lineage, read under
\* the lock.
AnyVersion(id) == TRUE
IsCurrent(id) == id = Current(id[1])

\* Card.Confirm: expiry first, then the presented binding.
ConfirmOutcome(id, matches, now) ==
    CASE ~IsCurrent(id)                                        -> "invalidated"
      [] IsCurrent(id) /\ now >= Card(id).expiry               -> "expired"
      [] IsCurrent(id) /\ now < Card(id).expiry /\ ~matches    -> "invalidated"
      [] OTHER                                                 -> "approved"

\* The approval's evidence: its audit record and its durable intent, unique
\* by card, in the same transaction.
Authorize(id, bound) ==
    /\ confirmations' = [confirmations EXCEPT ![id] = Append(@, bound)]
    /\ intents' = intents \cup {id}

\* How a request goes on: an individual one is answered, a bulk one reports
\* the member and takes the next.
Answer(w, item) ==
    IF run[w].bulk
    THEN /\ run' = [run EXCEPT ![w] = [IdleCall EXCEPT
               !.pc = "member", !.bulk = TRUE, !.matches = TRUE, !.now = run[w].now,
               !.bound = run[w].bound, !.todo = run[w].todo]]
         /\ report' = report \cup {<<w, run[w].member, item>>}
    ELSE run' = [run EXCEPT ![w] = IdleCall] /\ UNCHANGED report

\* ErrNoControl or ErrRejectedTransition: nothing was activated.  A bulk
\* request looks again before it reports the member.
SkipRefused(w) ==
    /\ run' = [run EXCEPT ![w] = IF @.bulk THEN [@ EXCEPT !.pc = "member"] ELSE IdleCall]
    /\ UNCHANGED report
Refuse(w) ==
    IF run[w].bulk
    THEN run' = [run EXCEPT ![w].pc = "reread"] /\ UNCHANGED report
    ELSE run' = [run EXCEPT ![w] = IdleCall] /\ UNCHANGED report

\* FROM-guard of the confirming UPDATE, on the row as it is now.
UnguardedConfirm(id, to) == TRUE
GuardedConfirm(id, to) == MayAdvance(id, "awaiting_confirmation", to)

\* The transaction that holds the lineage lock.  The control check looks at
\* the row read before the lock; the UPDATE looks at the row itself.
ConfirmDecide(w) ==
    /\ run[w].pc = "decide"
    /\ LET id == run[w].card
           to == ConfirmOutcome(id, run[w].matches, run[w].now)
       IN  IF run[w].control /\ GuardedConfirm(id, to)
           THEN /\ Advance(id, to)
                /\ IF to = "approved" THEN Authorize(id, run[w].bound)
                   ELSE UNCHANGED <<confirmations, intents>>
                /\ Answer(w, IF to = "approved" THEN "authorized" ELSE "invalidated")
           ELSE /\ UNCHANGED <<cards, confirmations, intents>>
                /\ Refuse(w)
    /\ UNCHANGED <<recs, evidence, sets, clock, failures, pass>>

\* Any read or transaction of a request fails: it is rolled back, and a bulk
\* request reports the member and goes on.
RequestFails(w) ==
    /\ run[w].pc \in {"read", "decide", "reread"}
    /\ failures < MaxFailures
    /\ failures' = failures + 1
    /\ Answer(w, "failed")
    /\ UNCHANGED <<cards, recs, evidence, confirmations, intents, sets, clock, pass>>

\* The process dies under a request: no answer.
Crash(w) ==
    /\ run[w].pc # "idle"
    /\ failures < MaxFailures
    /\ failures' = failures + 1
    /\ run' = [run EXCEPT ![w] = IdleCall]
    /\ report' = {i \in report : i[1] # w}
    /\ UNCHANGED <<cards, recs, evidence, confirmations, intents, sets, clock, pass>>

-----------------------------------------------------------------------------
(***************************************************************************)
(* Bulk approval.                                                          *)
(***************************************************************************)

\* PreviewBulkSelection and CreateSelectionSet: a new version, sealed with
\* exactly these members, one per variant.
PreviewBulkSelection(members) ==
    /\ Len(sets) < MaxSelections
    /\ \A m, n \in members : m[1] = n[1] => m = n
    /\ \A m \in members : m[2] \in DOMAIN recs[m[1]]
    /\ sets' = Append(sets, members)
    /\ UNCHANGED <<cards, recs, evidence, confirmations, intents, clock, failures,
                   pass, run, report>>

\* bindSelectionVersion: only the current version binds, and it binds its
\* membership once, for the whole request.
Binds(bound) == bound = Len(sets)

ConfirmBulkSelection(w, bound) ==
    /\ run[w].pc = "idle"
    /\ bound \in DOMAIN sets
    /\ Binds(bound)
    /\ run' = [run EXCEPT ![w] = [IdleCall EXCEPT
          !.pc = "member", !.bulk = TRUE, !.matches = TRUE, !.now = clock,
          !.bound = bound, !.todo = sets[bound]]]
    /\ UNCHANGED <<cards, recs, evidence, confirmations, intents, sets, clock,
                   failures, pass, report>>

\* The disposition of a member, sealed with its version: dispositionOf.
Executable(m) == recs[m[1]][m[2]].approvable

\* authorizeBulkMember, up to the individual confirmation.
BulkMember(w, m) ==
    /\ run[w].pc = "member"
    /\ m \in run[w].todo
    /\ \/ /\ Executable(m) => CardsOf(m) = {}
          /\ run' = [run EXCEPT ![w].todo = @ \ {m}]
          /\ report' = report \cup
                {<<w, m, IF Executable(m) THEN "invalidated" ELSE "excluded">>}
       \/ /\ Executable(m) /\ CardsOf(m) # {}
          /\ run' = [run EXCEPT ![w].todo = @ \ {m}, ![w].member = m,
                                ![w].card = CurrentOf(m), ![w].pc = "read"]
          /\ UNCHANGED report
    /\ UNCHANGED <<cards, recs, evidence, confirmations, intents, sets, clock,
                   failures, pass>>

BulkDone(w) ==
    /\ run[w].pc = "member"
    /\ run[w].todo = {}
    /\ run' = [run EXCEPT ![w] = IdleCall]
    /\ report' = {i \in report : i[1] # w}
    /\ UNCHANGED <<cards, recs, evidence, confirmations, intents, sets, clock,
                   failures, pass>>

\* currentCardState: read afresh, never taken from before the attempt.
StaleState(w) == IF run[w].control THEN "awaiting_confirmation" ELSE "draft"
CurrentCardState(w) == Card(CurrentOf(run[w].member)).state

BulkReread(w) ==
    /\ run[w].pc = "reread"
    /\ Answer(w, IF StateHasAuthorized(CurrentCardState(w))
                 THEN "already_authorized" ELSE "invalidated")
    /\ UNCHANGED <<cards, recs, evidence, confirmations, intents, sets, clock,
                   failures, pass>>

-----------------------------------------------------------------------------

Next ==
    \/ \E l \in Lineages : EvidenceArrives(l)
    \/ \E p \in Passes, l \in Lineages : ListEligible(p, l)
    \/ \E p \in Passes : DedupRead(p) \/ PassFails(p)
    \/ \E p \in Passes, ok \in BOOLEAN : ProduceVersion(p, ok)
    \/ \E l \in Lineages : \E r \in DOMAIN recs[l] : PrepareRecommendationDraft(l, r)
    \/ \E id \in CardIds : EditPrice(id)
    \/ \E id \in CardIds, to \in States : ReviewCard(id, to) \/ ExecutionAdvances(id, to)
    \/ \E id \in CardIds : InvalidateDependent(id)
    \/ Tick
    \/ \E w \in Callers, id \in CardIds, ok \in BOOLEAN : Confirm(w, id, ok)
    \/ \E w \in Callers :
          ConfirmRead(w) \/ ConfirmDecide(w) \/ BulkDone(w) \/ BulkReread(w)
          \/ RequestFails(w) \/ Crash(w)
    \/ \E members \in SUBSET Members : PreviewBulkSelection(members)
    \/ \E w \in Callers, bound \in 1 .. MaxSelections : ConfirmBulkSelection(w, bound)
    \/ \E w \in Callers : \E m \in run[w].todo : BulkMember(w, m)

Spec == Init /\ [][Next]_vars

-----------------------------------------------------------------------------
(***************************************************************************)
(* Safety.                                                                 *)
(***************************************************************************)

\* However often a control is activated - twice, by a bulk and an individual
\* request, by a resume - a card is authorized once: one confirmation record,
\* one durable intent, and never one without the other.
AuthorizedOnce ==
    \A id \in Minted :
        /\ Len(confirmations[id]) <= 1
        /\ Len(confirmations[id]) = 1 <=> id \in intents
        /\ StateHasAuthorized(Card(id).state) => id \in intents

\* Nothing executes from a stale card: whatever request read it before, a card
\* that was blocked, expired, invalidated or settled stays what it is, although
\* the diagram has an edge from Invalidated back to Draft; and a card gains its
\* authority from its own opened control only.
EndIsFinal ==
    [][\A id \in Minted :
          LET old == Card(id).state
              new == cards'[id[1]][id[2]].state
          IN  new # old =>
                 /\ ~Ended(old)
                 /\ StateHasAuthorized(new) /\ ~StateHasAuthorized(old) =>
                       old = "awaiting_confirmation" /\ new = "approved"]_vars

\* A version minted while a confirmation waits for the lineage supersedes the
\* card it was about to approve: only the head of a lineage is ever approved,
\* and only for a request made before its expiry.
ApprovesOnlyHead ==
    [][\A id \in Minted :
          confirmations'[id] # confirmations[id] =>
              /\ id = Current(id[1])
              /\ \E w \in Callers : run[w].card = id /\ run[w].now < Card(id).expiry]_vars

\* Concurrent edits of one card do not fork its action: its parameter versions
\* increase strictly in the order in which its cards were minted.
EditsAreLinear ==
    \A c, d \in Minted :
        c[1] = d[1] /\ Card(c).action = Card(d).action /\ c[2] < d[2] =>
            Card(c).pv < Card(d).pv

\* What a bulk confirmation reports of a member is so when it is reported: an
\* authorization stands behind authorized and already_authorized, and a member
\* whose cards are all authorized is never reported invalidated or excluded,
\* although the request lost a race for them.
ReportIsTrue ==
    [][\A i \in report' \ report :
          LET authorized == {id \in CardsOf(i[2]) :
                                StateHasAuthorized(cards'[id[1]][id[2]].state)}
          IN  /\ i[3] \in {"authorized", "already_authorized"} =>
                    \E id \in CardsOf(i[2]) : id \in intents'
              /\ i[3] \in {"invalidated", "excluded"} =>
                    CardsOf(i[2]) = {} \/ authorized # CardsOf(i[2])]_vars

\* ConfirmBulkSelection answers with one item for every member of the version
\* it bound, whatever failed or was lost on the way and whatever version was
\* sealed meanwhile.
EveryMemberIsReported ==
    [][\A w \in Callers : BulkDone(w) =>
          \A m \in sets[run[w].bound] :
              \E i \in report : i[1] = w /\ i[2] = m /\
                  \A j \in report : j[1] = w /\ j[2] = m => j = i]_vars

\* producer.go: "a strictly newer evidence version (a refreshed event) is the
\* only thing that mints a new version", of passes that overlap too: a version
\* from the evidence of the one before it, or from older, was minted by a pass
\* that another one overtook between its dedup read and its transaction.
NewerEvidenceOnly ==
    \A l \in Lineages : \A v \in DOMAIN recs[l] :
        v > 1 => recs[l][v].behind \/ recs[l][v - 1].ctx < recs[l][v].ctx

\* The same without the excuse, which overlapping passes refute.
NewerEvidenceOnlyEver ==
    \A l \in Lineages : \A i, j \in DOMAIN recs[l] :
        i < j => recs[l][i].ctx < recs[l][j].ctx

\* bulk_confirm.go: "re-confirming produces AT MOST ONE authorization/action
\* per eligible member".
OneAuthorizationPerMember ==
    \A c, d \in Minted :
        c # d /\ c[1] = d[1] /\ Card(c).rec = Card(d).rec =>
            \A bound \in DOMAIN sets :
                confirmations[c] # <<bound>> \/ confirmations[d] # <<bound>>

\* bulk_confirm.go: a member reported invalidated "fails closed, never
\* executes".
InvalidatedNeverExecutes ==
    [][\A i \in report' \ report : i[3] = "invalidated" =>
          \A id \in CardsOf(i[2]) :
              ~StateHasPendingExecution(cards'[id[1]][id[2]].state)]_vars
=============================================================================
