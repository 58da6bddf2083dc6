--------------------------- MODULE ActionExecution ---------------------------
(***************************************************************************)
(* The execution plane: what happens to an approval card from the commit   *)
(* of its confirmation to its terminal state.                              *)
(*                                                                         *)
(*   execution.Service.Execute      one action per database transaction or *)
(*                                  read, run by any number of concurrent  *)
(*                                  callers (the River execute_approved    *)
(*                                  worker, HTTP handlers, replicas)       *)
(*   reconcile.ReconcilePending     a read and a later transaction         *)
(*   recommendation.ExpireDependentForVariant                              *)
(*                                  a list and one transaction per card    *)
(*   RecommendOnlyReconciler        the external-match pass                *)
(*                                                                         *)
(* A transaction is one step.  Between two steps of a caller any other     *)
(* caller may run, and a caller may stop (crash, cancelled context,        *)
(* database error): what it committed stays, the rest is lost.             *)
(*                                                                         *)
(* Cards start as ConfirmIndividual commits them: approved, with the       *)
(* confirmation audited and the execute_approved job enqueued.             *)
(***************************************************************************)
EXTENDS ApprovalMachine, Integers, FiniteSets

CONSTANTS
    Cards,          \* approval_cards rows (each carries its own idempotency key)
    Actions,        \* action ids
    ActionOf,       \* the action a card is bound to
    Callers,        \* concurrent invocations of Execute
    RiverWorkers,   \* those that run the execute_approved job
    Modes,          \* the execution postures the deployment can be in
    MaxAttempts,    \* River's attempts per job
    MaxFailures     \* bound on crashes and database errors

ASSUME CallersAssumption == RiverWorkers \subseteq Callers
ASSUME ActionOfAssumption == ActionOf \in [Cards -> Actions]
ASSUME ModesAssumption == Modes \subseteq {"write", "recommend_only", "dark"}
ASSUME BoundsAssumption == MaxAttempts \in Nat /\ MaxFailures \in Nat

VARIABLES
    card,       \* approval_cards.state
    exec,       \* action_executions, by action
    ro,         \* recommend_only_actions, by action
    window,     \* actions with an outcome_windows row
    trail,      \* audit_records
    notified,   \* durable notification intents
    writes,     \* how often the marketplace received a price write for a card
    answer,     \* its answer to the last one
    mode,       \* live: is the capability verified and the region enabled?
    gates,      \* live: would the nine EXE-001 gates pass for the card?
    attempts,   \* attempts the card's job has left; 0: completed or discarded
    failures,   \* crashes and database errors so far, and the cards whose claim
                \* was lost with a caller that no queue runs again
    run,        \* the local state of every caller of Execute
    listed,     \* what an expiry pass listed and has not visited yet
    recon       \* calls of ReconcilePending between their read and their transaction

dbVars  == <<card, exec, ro, window, trail, notified>>
extVars == <<writes, answer, mode, gates>>
vars    == <<card, exec, ro, window, trail, notified, writes, answer, mode,
             gates, attempts, failures, run, listed, recon>>

-----------------------------------------------------------------------------

\* ExternalState and its terminal members.
ExternalStates == {"accepted", "rejected", "pending_reconciliation", "failed"}
ExternalTerminal(e) == e \in {"accepted", "rejected", "failed"}

\* The answers the marketplace can give, after Classify: a 2xx, a 4xx, any
\* other status, or nothing that can be trusted (timeout, transport error).
\* The unknown one is pending_reconciliation, never a guess.
Classified == ExternalStates

\* cardStateFor: the card state an external state stands for.
CardStateFor(e) ==
    CASE e = "accepted" -> "accepted"
      [] e = "rejected" -> "rejected"
      [] e = "failed"   -> "failed"
      [] OTHER          -> "pending_reconciliation"

RecommendOnlyStates ==
    {"awaiting_external_execution", "externally_executed", "lapsed"}

\* A row of action_executions.  Its idempotency key is its card's, and no two
\* cards share one, so "the key is taken" is "the row belongs to this card".
NoRow == [card |-> "none", ext |-> "none", gateBlocked |-> FALSE]
Row(c, blocked) ==
    [card |-> c, ext |-> "pending_reconciliation", gateBlocked |-> blocked]

\* A row of recommend_only_actions.
NotTracked == [card |-> "none", state |-> "none"]

Entry(c, type, state) == [card |-> c, type |-> type, state |-> state]

Steps == {"idle", "lookup", "lookup_ro", "resolve", "heal", "begin", "gate",
          "park", "track", "claim", "send", "commit"}

\* Locals of a finished call: nothing of it survives.
Idle(c) == [pc |-> "idle", card |-> c, seen |-> "approved", ok |-> FALSE,
            ext |-> "pending_reconciliation", wrote |-> FALSE]

ExecRows == {NoRow} \cup [card: Cards, ext: ExternalStates, gateBlocked: BOOLEAN]

TrackRows == {NotTracked} \cup [card: Cards, state: RecommendOnlyStates]

AuditTypes == {"confirmation", "execution_started", "revalidation_blocked",
               "external_result", "reconciliation", "recommend_only", "terminal"}

AuditRecords == [card: Cards, type: AuditTypes,
                 state: {""} \cup ExternalStates \cup RecommendOnlyStates]

Locals == [pc: Steps, card: Cards, seen: States, ok: BOOLEAN,
           ext: ExternalStates, wrote: BOOLEAN]

TypeOK ==
    /\ card \in [Cards -> States]
    /\ exec \in [Actions -> ExecRows]
    /\ ro \in [Actions -> TrackRows]
    /\ window \subseteq Actions
    /\ trail \subseteq AuditRecords
    /\ notified \subseteq {"execution_failure", "safety_failure"} \X Cards
    /\ writes \in [Cards -> Nat]
    /\ answer \in [Cards -> {"none"} \cup ExternalStates]
    /\ mode \in Modes
    /\ gates \in [Cards -> BOOLEAN]
    /\ attempts \in [Cards -> 0 .. MaxAttempts]
    /\ failures \in [count : 0 .. MaxFailures, orphaned : SUBSET Cards]
    /\ run \in [Callers -> Locals]
    /\ listed \subseteq Cards \X States
    /\ recon \subseteq Actions \X {"accepted", "failed"}

Init ==
    /\ card = [c \in Cards |-> "approved"]
    /\ exec = [a \in Actions |-> NoRow]
    /\ ro = [a \in Actions |-> NotTracked]
    /\ window = {}
    /\ trail = {Entry(c, "confirmation", "") : c \in Cards}
    /\ notified = {}
    /\ writes = [c \in Cards |-> 0]
    /\ answer = [c \in Cards |-> "none"]
    /\ mode \in Modes
    /\ gates \in [Cards -> BOOLEAN]
    /\ attempts = [c \in Cards |-> MaxAttempts]
    /\ failures = [count |-> 0, orphaned |-> {}]
    /\ run \in [Callers -> {Idle(c) : c \in Cards}]
    /\ listed = {}
    /\ recon = {}

-----------------------------------------------------------------------------
(***************************************************************************)
(* AdvanceTx: the move must be an edge of the table and the UPDATE is      *)
(* guarded by the state the caller believes the card is in.  Otherwise     *)
(* ErrRejectedTransition, and nothing changed.                             *)
(***************************************************************************)
MayAdvance(c, from, to) == CanTransition(from, to) /\ card[c] = from

Advance(c, to) == card' = [card EXCEPT ![c] = to]

\* UNIQUE(action_id) and UNIQUE(idempotency_key) of action_executions.
NeverTaken(a) == FALSE
Taken(a) == exec[a] # NoRow

\* RecordExecutionResult and ReconcileActionExecution: FROM-guarded on
\* pending, a settled row is kept.
OverwriteResult(a, e) == [exec EXCEPT ![a].ext = e]
RecordResult(a, e) ==
    IF exec[a].ext = "pending_reconciliation"
    THEN [exec EXCEPT ![a].ext = e]
    ELSE exec

\* OpenOutcomeWindow: UNIQUE(action_id), opening twice opens one.
SkipOutcomeWindow(a) == UNCHANGED window
OpenOutcomeWindow(a) == window' = window \cup {a}

\* SafetyFailureTx: the durable notification of a gate-blocked card.
SafetyFailure(c) == notified' = notified \cup {<<"safety_failure", c>>}

(***************************************************************************)
(* How a call of Execute ends.  For the River worker a nil error completes *)
(* the job, an error spends an attempt, and a snooze spends nothing.       *)
(***************************************************************************)
Return(w) ==
    /\ run' = [run EXCEPT ![w] = Idle(run[w].card)]
    /\ attempts' = IF w \in RiverWorkers
                   THEN [attempts EXCEPT ![run[w].card] = 0]
                   ELSE attempts

SpendAttempt(n) == IF n > 0 THEN n - 1 ELSE 0

ReturnError(w) ==
    /\ run' = [run EXCEPT ![w] = Idle(run[w].card)]
    /\ attempts' = IF w \in RiverWorkers
                   THEN [attempts EXCEPT ![run[w].card] = SpendAttempt(@)]
                   ELSE attempts

Snooze(w) ==
    /\ run' = [run EXCEPT ![w] = Idle(run[w].card)]
    /\ UNCHANGED attempts

Goto(w, step) == run' = [run EXCEPT ![w].pc = step] /\ UNCHANGED attempts

At(w, step) == run[w].pc = step

-----------------------------------------------------------------------------
(***************************************************************************)
(* Execute, step by step.                                                  *)
(***************************************************************************)

\* Execute reads the card.  A River worker runs the job of a card that has
\* one (delivery is at least once, so two workers may hold the same job); an
\* HTTP caller may name any card at any time.
Execute(w, c) ==
    /\ At(w, "idle")
    /\ w \in RiverWorkers => attempts[c] > 0
    /\ run' = [run EXCEPT ![w] = [Idle(c) EXCEPT !.pc = "lookup", !.seen = card[c]]]
    /\ UNCHANGED <<dbVars, extVars, attempts, failures, listed, recon>>

\* GetActionExecutionByAction.  A recorded execution is replayed without a
\* write; replayWrite repairs the card only if it was read as executing and
\* the record is pending.
LookupExecution(w) ==
    /\ At(w, "lookup")
    /\ LET row == exec[ActionOf[run[w].card]] IN
         \/ row = NoRow /\ Goto(w, "lookup_ro")
         \/ /\ row # NoRow
            /\ run[w].seen = "executing" /\ row.ext = "pending_reconciliation"
            /\ Goto(w, "heal")
         \/ /\ row # NoRow
            /\ ~(run[w].seen = "executing" /\ row.ext = "pending_reconciliation")
            /\ Return(w)
    /\ UNCHANGED <<dbVars, extVars, failures, listed, recon>>

\* replayWrite converges a card a crash left behind its pending record.
ReplayWrite(w) ==
    /\ At(w, "heal")
    /\ LET c == run[w].card IN
         IF MayAdvance(c, "executing", "pending_reconciliation")
         THEN /\ Advance(c, "pending_reconciliation")
              /\ trail' = trail \cup
                    {Entry(c, "external_result", "pending_reconciliation")}
         ELSE UNCHANGED <<card, trail>>
    /\ Return(w)
    /\ UNCHANGED <<exec, ro, window, notified, extVars, failures, listed, recon>>

\* The states Execute starts or resumes from.
FreshOnly(s) == s = "approved"
Executable(s) == s \in {"approved", "revalidating", "executing"}

\* GetRecommendOnlyAction, then the entry check on the card as it was read.
LookupRecommendOnly(w) ==
    /\ At(w, "lookup_ro")
    /\ \/ ro[ActionOf[run[w].card]] # NotTracked /\ Return(w)
       \/ /\ ro[ActionOf[run[w].card]] = NotTracked
          /\ ~Executable(run[w].seen)
          /\ ReturnError(w)
       \/ /\ ro[ActionOf[run[w].card]] = NotTracked
          /\ Executable(run[w].seen)
          /\ Goto(w, "resolve")
    /\ UNCHANGED <<dbVars, extVars, failures, listed, recon>>

\* Where a resolved call goes on: the write path resumes from the state the
\* card was read in; without write capability only an approved card may be
\* tracked, and a blocked one is invalidated over the same two transactions
\* as on the write path.
ResumeWithoutGate(seen, canWrite, ok) ==
    IF seen = "approved" THEN (IF canWrite \/ ~ok THEN "begin" ELSE "track")
    ELSE "claim"

AfterResolve(seen, canWrite, ok) ==
    CASE seen = "approved" /\ (canWrite \/ ~ok)  -> "begin"
      [] seen = "approved" /\ ~canWrite /\ ok    -> "track"
      [] seen = "revalidating"                   -> "gate"
      [] seen = "executing" /\ ok                -> "claim"
      [] OTHER                                   -> "park"

\* Resolve: the live signals and the enablement are read here and used in
\* later transactions.  EvaluateGates is a function of what was read.
Resolve(w) ==
    /\ At(w, "resolve")
    /\ \/ mode = "dark" /\ Snooze(w)
       \/ mode = "recommend_only" /\ run[w].seen # "approved" /\ ReturnError(w)
       \/ /\ mode = "write" \/ (mode = "recommend_only" /\ run[w].seen = "approved")
          /\ LET ok == gates[run[w].card] IN
               run' = [run EXCEPT
                   ![w].ok = ok,
                   ![w].pc = AfterResolve(run[w].seen, mode = "write", ok)]
          /\ UNCHANGED attempts
    /\ UNCHANGED <<dbVars, extVars, failures, listed, recon>>

\* Approved -> Revalidating, with only its state-history row.
BeginRevalidation(w) ==
    /\ At(w, "begin")
    /\ IF MayAdvance(run[w].card, "approved", "revalidating")
       THEN Advance(run[w].card, "revalidating") /\ Goto(w, "gate")
       ELSE UNCHANGED card /\ ReturnError(w)
    /\ UNCHANGED <<exec, ro, window, trail, notified, extVars, failures, listed, recon>>

\* The gate boundary.  A block invalidates the card, audits it and enqueues
\* the safety notification; a pass moves it to Executing with its audit.
GateBoundary(w) ==
    /\ At(w, "gate")
    /\ LET c  == run[w].card
           to == IF run[w].ok THEN "executing" ELSE "invalidated"
       IN  IF MayAdvance(c, "revalidating", to)
           THEN /\ Advance(c, to)
                /\ trail' = trail \cup
                     {Entry(c, IF run[w].ok THEN "execution_started"
                               ELSE "revalidation_blocked", "")}
                /\ IF run[w].ok THEN UNCHANGED notified ELSE SafetyFailure(c)
                /\ IF run[w].ok THEN Goto(w, "claim") ELSE Return(w)
           ELSE /\ UNCHANGED <<card, trail, notified>>
                /\ ReturnError(w)
    /\ UNCHANGED <<exec, ro, window, extVars, failures, listed, recon>>

\* A resume from Executing whose gates now fail: the card is parked as
\* pending, with a no-write marker row unless its own row is already there.
\* Another card's row for the action violates UNIQUE(action_id): rollback.
ParkGateBlocked(w) ==
    /\ At(w, "park")
    /\ LET c == run[w].card
           a == ActionOf[c]
       IN  \/ /\ ~MayAdvance(c, "executing", "pending_reconciliation")
              /\ UNCHANGED dbVars
              /\ Return(w)
           \/ /\ MayAdvance(c, "executing", "pending_reconciliation")
              /\ Taken(a) /\ exec[a].card # c
              /\ UNCHANGED dbVars
              /\ ReturnError(w)
           \/ /\ MayAdvance(c, "executing", "pending_reconciliation")
              /\ ~Taken(a) \/ exec[a].card = c
              /\ Advance(c, "pending_reconciliation")
              /\ exec' = IF Taken(a) THEN exec ELSE [exec EXCEPT ![a] = Row(c, TRUE)]
              /\ trail' = trail \cup
                    {Entry(c, "revalidation_blocked", "pending_reconciliation")}
              /\ SafetyFailure(c)
              /\ Return(w)
              /\ UNCHANGED <<ro, window>>
    /\ UNCHANGED <<extVars, failures, listed, recon>>

\* recordRecommendOnly: the tracking row (kept if one exists) and its audit.
\* The transaction does not look at the card.
RecordRecommendOnly(w) ==
    /\ At(w, "track")
    /\ LET c == run[w].card
           a == ActionOf[c]
       IN  /\ ro' = IF ro[a] = NotTracked
                    THEN [ro EXCEPT ![a] =
                            [card |-> c, state |-> "awaiting_external_execution"]]
                    ELSE ro
           /\ trail' = trail \cup
                 {Entry(c, "recommend_only", "awaiting_external_execution")}
    /\ Return(w)
    /\ UNCHANGED <<card, exec, window, notified, extVars, failures, listed, recon>>

\* ClaimActionExecution: INSERT ... ON CONFLICT (idempotency_key) DO NOTHING.
\* The winner may write; a loser adopts the state of the row that stands; a
\* row of another card violates UNIQUE(action_id) and is an error.
Claim(w) ==
    /\ At(w, "claim")
    /\ LET c == run[w].card
           a == ActionOf[c]
       IN  \/ /\ ~Taken(a)
              /\ exec' = [exec EXCEPT ![a] = Row(c, FALSE)]
              /\ Goto(w, "send")
           \/ /\ Taken(a) /\ exec[a].card = c
              /\ run' = [run EXCEPT ![w].pc = "commit", ![w].ext = exec[a].ext]
              /\ UNCHANGED <<exec, attempts>>
           \/ /\ Taken(a) /\ exec[a].card # c
              /\ ReturnError(w)
              /\ UNCHANGED exec
    /\ UNCHANGED <<card, ro, window, trail, notified, extVars, failures, listed, recon>>

\* WritePrice: the one external call.
WritePrice(w) ==
    /\ At(w, "send")
    /\ \E e \in Classified :
         /\ writes' = [writes EXCEPT ![run[w].card] = @ + 1]
         /\ answer' = [answer EXCEPT ![run[w].card] = e]
         /\ run' = [run EXCEPT ![w].pc = "commit", ![w].ext = e, ![w].wrote = TRUE]
    /\ UNCHANGED <<dbVars, mode, gates, attempts, failures, listed, recon>>

\* commitWriteResult: the result, the card, the audits, the outcome window
\* and the failure notification in one transaction - which still commits the
\* result when the card has left Executing in the meantime.
CommitWriteResult(w) ==
    /\ At(w, "commit")
    /\ LET c == run[w].card
           a == ActionOf[c]
           e == run[w].ext
       IN  /\ exec' = IF run[w].wrote THEN RecordResult(a, e) ELSE exec
           /\ IF MayAdvance(c, "executing", CardStateFor(e))
              THEN /\ Advance(c, CardStateFor(e))
                   /\ trail' = trail \cup {Entry(c, "external_result", e)} \cup
                        (IF ExternalTerminal(e) THEN {Entry(c, "terminal", e)} ELSE {})
                   /\ IF ExternalTerminal(e) THEN OpenOutcomeWindow(a) ELSE UNCHANGED window
                   /\ notified' = IF e = "failed"
                                  THEN notified \cup {<<"execution_failure", c>>}
                                  ELSE notified
              ELSE UNCHANGED <<card, trail, window, notified>>
    /\ Return(w)
    /\ UNCHANGED <<ro, extVars, failures, listed, recon>>

\* The card whose claim, with no result committed, a caller outside the queue
\* holds.
Orphaned(w) ==
    IF w \notin RiverWorkers /\ (At(w, "send") \/ (At(w, "commit") /\ run[w].wrote))
    THEN {run[w].card} ELSE {}

\* A call stops: process crash, cancelled context, failed transaction.  Its
\* open transaction is rolled back; what it committed before stays.
Crash(w) ==
    /\ ~At(w, "idle")
    /\ failures.count < MaxFailures
    /\ failures' = [count |-> failures.count + 1,
                    orphaned |-> failures.orphaned \cup Orphaned(w)]
    /\ ReturnError(w)
    /\ UNCHANGED <<dbVars, extVars, listed, recon>>

-----------------------------------------------------------------------------
(***************************************************************************)
(* The other writers of the same rows.                                     *)
(***************************************************************************)

\* A gate-blocked marker is refused an Accepted resolution.
NeverRefused(a, resolution) == FALSE
RefusedResolution(a, resolution) == exec[a].gateBlocked /\ resolution = "accepted"

\* ReconcilePending, outside its transaction: the record must be pending.
ReconcileRead(a, resolution) ==
    /\ exec[a] # NoRow
    /\ exec[a].ext = "pending_reconciliation"
    /\ ~RefusedResolution(a, resolution)
    /\ recon' = recon \cup {<<a, resolution>>}
    /\ UNCHANGED <<dbVars, extVars, attempts, failures, run, listed>>

\* Its transaction.  The record is updated only if it is still pending (no
\* row is tolerated); a card that is not pending rolls everything back.
ReconcileCommit(a, resolution) ==
    /\ <<a, resolution>> \in recon
    /\ recon' = recon \ {<<a, resolution>>}
    /\ LET c == exec[a].card IN
         IF MayAdvance(c, "pending_reconciliation", resolution)
         THEN /\ exec' = RecordResult(a, resolution)
              /\ Advance(c, resolution)
              /\ trail' = trail \cup {Entry(c, "reconciliation", resolution),
                                      Entry(c, "terminal", resolution)}
              /\ OpenOutcomeWindow(a)
         ELSE UNCHANGED <<exec, card, trail, window>>
    /\ UNCHANGED <<ro, notified, extVars, attempts, failures, run, listed>>

\* ListLiveCardsForVariant: the pass remembers the state it saw.
LiveStates == {"draft", "ready_for_review", "awaiting_confirmation",
               "approved", "revalidating"}

ExpireDependentList ==
    /\ listed' = listed \cup {p \in Cards \X LiveStates : card[p[1]] = p[2]}
    /\ UNCHANGED <<dbVars, extVars, attempts, failures, run, recon>>

\* invalidateDependent: an approved card goes through Revalidating in one
\* transaction; other states need a direct edge; a card that moved is skipped.
InvalidateDependent(c, from) ==
    /\ <<c, from>> \in listed
    /\ listed' = listed \ {<<c, from>>}
    /\ IF \/ from = "approved" /\ card[c] = "approved"
          \/ MayAdvance(c, from, "invalidated")
       THEN Advance(c, "invalidated")
       ELSE UNCHANGED card
    /\ UNCHANGED <<exec, ro, window, trail, notified, extVars, attempts, failures,
                   run, recon>>

\* A match opens the outcome window; a lapse measures nothing.
OpensWindow(to) == to = "externally_executed"

\* RecommendOnlyReconciler.transition: one awaiting row is matched or lapses.
MatchRecommendOnly(a, to) ==
    /\ ro[a].state = "awaiting_external_execution"
    /\ ro' = [ro EXCEPT ![a].state = to]
    /\ trail' = trail \cup {Entry(ro[a].card, "recommend_only", to),
                            Entry(ro[a].card, "terminal", to)}
    /\ IF OpensWindow(to) THEN OpenOutcomeWindow(a) ELSE UNCHANGED window
    /\ UNCHANGED <<card, exec, notified, extVars, attempts, failures, run, listed, recon>>

\* The world behind the resolver moves at any time.
SignalsChange ==
    /\ \/ mode' \in Modes /\ UNCHANGED gates
       \/ \E c \in Cards : gates' = [gates EXCEPT ![c] = ~@] /\ UNCHANGED mode
    /\ UNCHANGED <<dbVars, writes, answer, attempts, failures, run, listed, recon>>

-----------------------------------------------------------------------------

CallerStep(w) ==
    \/ LookupExecution(w) \/ ReplayWrite(w) \/ LookupRecommendOnly(w)
    \/ Resolve(w) \/ BeginRevalidation(w) \/ GateBoundary(w)
    \/ ParkGateBlocked(w) \/ RecordRecommendOnly(w) \/ Claim(w)
    \/ WritePrice(w) \/ CommitWriteResult(w)

Next ==
    \/ \E w \in Callers, c \in Cards : Execute(w, c)
    \/ \E w \in Callers : CallerStep(w) \/ Crash(w)
    \/ \E a \in Actions, r \in {"accepted", "failed"} :
          ReconcileRead(a, r) \/ ReconcileCommit(a, r)
    \/ ExpireDependentList
    \/ \E c \in Cards, from \in LiveStates : InvalidateDependent(c, from)
    \/ \E a \in Actions, to \in {"externally_executed", "lapsed"} :
          MatchRecommendOnly(a, to)
    \/ SignalsChange

Spec == Init /\ [][Next]_vars

\* What the deployment guarantees: a call that has started keeps running
\* unless it crashes, and the job queue gets round to every open job.
Fairness ==
    /\ \A w \in Callers : WF_vars(CallerStep(w))
    /\ \A c \in Cards : SF_vars(\E w \in RiverWorkers : Execute(w, c))

FairSpec == Spec /\ Fairness

-----------------------------------------------------------------------------
(***************************************************************************)
(* Safety.                                                                 *)
(***************************************************************************)

\* However many callers execute the cards of an action, and whatever crashes
\* and is retried, the marketplace receives at most one price write for it
\* (EXE-002: the claim is durable before the write).
AtMostOneWrite ==
    \A c, d \in Cards :
        ActionOf[c] = ActionOf[d] /\ writes[c] > 0 =>
            writes[c] = 1 /\ (writes[d] > 0 => c = d)

\* Nothing is written for a card that was never confirmed, never passed the
\* gates, or was invalidated: the write finds its start audited, and an
\* invalidated card has no write, not even one still to come.
WriteIsAuthorized ==
    \A c \in Cards :
        /\ writes[c] > 0 => Entry(c, "execution_started", "") \in trail
        /\ card[c] = "invalidated" =>
              writes[c] = 0 /\ \A w \in Callers : ~(At(w, "send") /\ run[w].card = c)

\* A gate-blocked marker stands for a write that never happened: no card of
\* the action is ever written, and the action never ends as accepted or
\* rejected.
MarkerForeclosesWrite ==
    \A a \in Actions : exec[a].gateBlocked =>
        /\ exec[a].ext \in {"pending_reconciliation", "failed"}
        /\ \A c \in Cards : ActionOf[c] = a =>
              writes[c] = 0 /\ card[c] \notin {"accepted", "rejected"}

\* A card that reaches an external result carries its evidence: the terminal
\* audit of exactly that result and an open outcome window - and a pending
\* card has a record, so the operations queue can see and drain it.
SettledIsEvidenced ==
    \A c \in Cards :
        /\ ExternalTerminal(card[c]) =>
              /\ ActionOf[c] \in window
              /\ Entry(c, "terminal", card[c]) \in trail
        /\ card[c] = "pending_reconciliation" => exec[ActionOf[c]] # NoRow

\* An outcome window is never opened for an action nothing settled.
WindowHasResult ==
    \A a \in window :
        \/ exec[a].ext \in {"accepted", "rejected", "failed"}
        \/ ro[a].state = "externally_executed"

\* Every card the gates blocked, and every directly failed write, has its
\* durable notification.
BlockedIsNotified ==
    \A e \in trail :
        /\ e.type = "revalidation_blocked" => <<"safety_failure", e.card>> \in notified
        /\ e.type = "external_result" /\ e.state = "failed" =>
              <<"execution_failure", e.card>> \in notified

\* What the plane leaves for the rest of the system agrees with what happened
\* to the card, whichever caller, read-back or match brought it there and
\* whatever the others do.
OutcomeIsEvidenced == SettledIsEvidenced /\ WindowHasResult /\ BlockedIsNotified

-----------------------------------------------------------------------------
(***************************************************************************)
(* What a step may never do.                                               *)
(***************************************************************************)

\* An execution record is claimed once, for one card, and settles once: it is
\* never deleted, re-bound, or changed after it left pending.
RecordSettlesOnce ==
    [][\A a \in Actions : exec[a] # NoRow =>
          /\ exec'[a].card = exec[a].card
          /\ exec'[a].gateBlocked = exec[a].gateBlocked
          /\ exec[a].ext # "pending_reconciliation" => exec'[a] = exec[a]]_vars

-----------------------------------------------------------------------------
(***************************************************************************)
(* The invariant behind the safety properties: who may hold a claim, and   *)
(* what a claim implies.                                                   *)
(***************************************************************************)

\* A card at or past Executing.  No step leads back out of this set.
PastRevalidation(s) ==
    s \in {"executing", "pending_reconciliation", "accepted", "rejected", "failed"}

\* The record of the action a caller works on, if it is for the same card.
HoldsRow(c) == exec[ActionOf[c]] # NoRow /\ exec[ActionOf[c]].card = c

\* A record is for a card of its action; a marker is never settled by the
\* marketplace, and a rejection always was.
RowsAreBound ==
    \A a \in Actions : exec[a] # NoRow =>
        /\ ActionOf[exec[a].card] = a
        /\ exec[a].gateBlocked => exec[a].ext \in {"pending_reconciliation", "failed"}
        /\ exec[a].ext = "rejected" => writes[exec[a].card] > 0

\* Only the winner of the claim is about to write, alone, and for the first
\* time; a caller with a result in hand has the record it belongs to.
SenderOwnsClaim ==
    /\ \A w \in Callers : At(w, "send") =>
          /\ HoldsRow(run[w].card)
          /\ ~exec[ActionOf[run[w].card]].gateBlocked
          /\ writes[run[w].card] = 0
    /\ \A v, w \in Callers :
          At(v, "send") /\ At(w, "send") /\ run[v].card = run[w].card => v = w
    /\ \A w \in Callers : run[w].wrote => writes[run[w].card] > 0
    /\ \A w \in Callers : At(w, "commit") =>
          /\ HoldsRow(run[w].card)
          /\ exec[ActionOf[run[w].card]].gateBlocked =>
                run[w].ext \in {"pending_reconciliation", "failed"}

\* A written card owns a record that is not a gate-blocked marker.
WrittenOwnsRow ==
    \A c \in Cards : writes[c] > 0 =>
        writes[c] = 1 /\ HoldsRow(c) /\ ~exec[ActionOf[c]].gateBlocked

\* So does a card that ended as accepted or rejected.
ResultOwnsRow ==
    \A c \in Cards : card[c] \in {"accepted", "rejected"} =>
        HoldsRow(c) /\ ~exec[ActionOf[c]].gateBlocked

\* A pending reconciliation was checked against a record.
ReconHasRow ==
    \A a \in Actions, r \in {"accepted", "failed"} : <<a, r>> \in recon =>
        exec[a] # NoRow /\ (exec[a].gateBlocked => r = "failed")

\* Whoever may still write works on a card whose start was audited.
StartedIsAudited ==
    /\ \A c \in Cards : PastRevalidation(card[c]) =>
          Entry(c, "execution_started", "") \in trail
    /\ \A c \in Cards : writes[c] > 0 => PastRevalidation(card[c])
    /\ \A w \in Callers :
          run[w].seen = "executing" \/ run[w].pc \in {"claim", "send", "commit"} =>
              PastRevalidation(card[run[w].card])

IInv ==
    /\ TypeOK
    /\ RowsAreBound
    /\ SenderOwnsClaim
    /\ WrittenOwnsRow
    /\ ResultOwnsRow
    /\ ReconHasRow
    /\ StartedIsAudited

-----------------------------------------------------------------------------
(***************************************************************************)
(* Refinement: what the tables and the marketplace show of an action.      *)
(***************************************************************************)
LedgerOf(row) ==
    CASE row = NoRow -> "none"
      [] row # NoRow /\ row.gateBlocked ->
            IF row.ext = "pending_reconciliation" THEN "parked" ELSE "closed"
      [] row # NoRow /\ ~row.gateBlocked ->
            IF row.ext = "pending_reconciliation" THEN "claimed" ELSE row.ext

Ledger == INSTANCE WriteLedger WITH
    ledger <- [a \in Actions |-> LedgerOf(exec[a])],
    sent   <- [a \in Actions |-> \E c \in Cards : ActionOf[c] = a /\ writes[c] > 0]

\* The callers, the reconciler and the expiry passes together implement the
\* ledger: claim once, write once and only under a claim, settle once.
ImplementsLedger == Ledger!Spec

-----------------------------------------------------------------------------
(***************************************************************************)
(* Statements of the source that the interleavings refute.                 *)
(***************************************************************************)

\* service.go: "A terminal record always advanced its card in the SAME
\* transaction, so it can never be found behind" a card without a result.
TerminalRecordAdvancedCard ==
    \A a \in Actions :
        exec[a] # NoRow /\ ExternalTerminal(exec[a].ext) =>
            ExternalTerminal(card[exec[a].card])

\* service.go: a write record and a recommend-only record "are mutually
\* exclusive per action".
ModesAreExclusive ==
    \A a \in Actions : exec[a] = NoRow \/ ro[a] = NotTracked

\* reconcile.go: ReconcilePending "refuses any action that is not pending".
ReconcileRefusesSettled ==
    [][\A c \in Cards :
          card[c] = "pending_reconciliation" /\ card'[c] # card[c] =>
              exec[ActionOf[c]].ext = "pending_reconciliation"]_vars

-----------------------------------------------------------------------------
(***************************************************************************)
(* Liveness.                                                               *)
(***************************************************************************)

Settled(c) ==
    \/ ~StateHasPendingExecution(card[c])
    \/ ro[ActionOf[c]] # NotTracked

\* With finitely many crashes, once the posture stays on write, every confirmed
\* card leaves Approved, Revalidating and Executing for good, whatever an HTTP
\* caller does beside the job and whenever the posture went dark before.  The
\* one loss no queue retries is excused: an HTTP caller that dies between its
\* claim and its result, whose pending record the job takes for settled work.
EveryCardSettles ==
    <>[](mode = "write") =>
        \A c \in Cards : <>[](Settled(c) \/ c \in failures.orphaned)
=============================================================================
