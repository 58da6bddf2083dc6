----------------------------- MODULE RouteObserver -----------------------------
(***************************************************************************)
(* The guarded pipeline of services/core/internal/routec for one account:  *)
(* concurrent sweeps of one process share a circuit breaker, a drift guard *)
(* and a concurrency limiter in memory, and a request budget in the        *)
(* database, and call ObserveTarget for one target after another.          *)
(*                                                                         *)
(* Left out: the kill-switch snapshot, which ends a call before it looks   *)
(* at anything; which targets a sweep selects; the evidence ingested       *)
(* (ObservationIngest).  The cooldown and the windows pass at any time.    *)
(***************************************************************************)
EXTENDS Integers, FiniteSets

CONSTANTS
    Workers,        \* sweeps under way
    AccountSlots,   \* PerAccountConcurrency
    HostSlots,      \* PerHostConcurrency
    MaxRetries,
    RequestLimit,   \* RequestBudget
    ByteLimit,      \* ByteBudget, in responses
    RefusedThreshold,   \* refusals in the window that open the breaker
    MaxWindow,      \* bound: budget windows
    MaxRestarts     \* bound: restarts of the process

ASSUME RouteBounds ==
    /\ Workers # {} /\ IsFiniteSet(Workers)
    /\ AccountSlots \in Nat \ {0} /\ HostSlots \in Nat \ {0}
    /\ MaxRetries \in Nat /\ RequestLimit \in Int /\ ByteLimit \in Int
    /\ RefusedThreshold \in Nat \ {0}
    /\ MaxWindow \in Nat /\ MaxRestarts \in Nat

VARIABLES
    breaker,    \* Breaker: its state, faults in its window, cooldown elapsed
    drift,      \* DriftGuard
    slots,      \* Limiter: slots taken of the account's and of the host's
    window,     \* the current budget window
    budget,     \* route_budget_usage: requests and bytes of each window
    sent,       \* history: requests sent in each window
    call,       \* what each worker's ObserveTarget is about to do
    lost,       \* history: a half-open probe ended without an observation
    restarts

vars == <<breaker, drift, slots, window, budget, sent, call, lost, restarts>>

-----------------------------------------------------------------------------

Windows == 0 .. MaxWindow

\* Outcomes of a fetch: a transport fault, which a server error is as well,
\* never trips the breaker; "refused" stands for a block or a throttle.
FetchSignals == {"ok", "transport", "refused"}
Signals == FetchSignals \cup {"drift"}

Closed == [state |-> "closed", refused |-> 0, cooled |-> FALSE]
IdleCall == [at |-> "idle", attempt |-> 0, probe |-> FALSE, signal |-> "ok",
             body |-> FALSE]

Steps == {"idle", "gate", "reserve", "account", "host", "fetch", "consume", "observe",
          "backoff", "parse", "drifted", "ingest", "release"}

TypeOK ==
    /\ breaker \in [state : {"closed", "open", "half_open"},
                    refused : 0 .. RefusedThreshold, cooled : BOOLEAN]
    /\ drift \in {"healthy", "paused"}
    /\ slots \in [account : 0 .. AccountSlots, host : 0 .. HostSlots]
    /\ window \in Windows
    /\ budget \in [Windows -> [requests : Nat, bytes : Nat]]
    /\ sent \in [Windows -> Nat]
    /\ call \in [Workers -> [at : Steps, attempt : 0 .. MaxRetries, probe : BOOLEAN,
                             signal : FetchSignals, body : BOOLEAN]]
    /\ lost \in BOOLEAN
    /\ restarts \in 0 .. MaxRestarts

Init ==
    /\ breaker = Closed /\ drift = "healthy"
    /\ slots = [account |-> 0, host |-> 0]
    /\ window = 0
    /\ budget = [n \in Windows |-> [requests |-> 0, bytes |-> 0]]
    /\ sent = [n \in Windows |-> 0]
    /\ call = [w \in Workers |-> IdleCall]
    /\ lost = FALSE /\ restarts = 0

At(w, step) == call[w].at = step
Goto(w, step) == call' = [call EXCEPT ![w].at = step]

\* The call ends before it holds a slot.  A probe that has no verdict is lost.
Exit(w) ==
    /\ call' = [call EXCEPT ![w] = IdleCall]
    /\ lost' = (lost \/ (call[w].probe /\ breaker.state = "half_open"))

\* An attempt is done with, and its locals: only a good one's body is read on.
Leave(w, step, probe) ==
    call' = [call EXCEPT ![w] = [IdleCall EXCEPT
                 !.at = step, !.probe = probe,
                 !.attempt = IF step = "backoff" THEN call[w].attempt ELSE 0,
                 !.body = step = "parse" /\ call[w].body]]

-----------------------------------------------------------------------------
(***************************************************************************)
(* Breaker.                                                                *)
(***************************************************************************)

\* open: the instant it opened starts the cooldown again.
Opened == [breaker EXCEPT !.state = "open", !.cooled = FALSE]

\* Counted in the rolling window, whatever the state.
Counted(signal) ==
    LET n == IF breaker.refused < RefusedThreshold THEN breaker.refused + 1 ELSE breaker.refused
    IN  CASE signal = "drift" -> Opened
          [] signal = "refused" ->
                IF n >= RefusedThreshold
                THEN [Opened EXCEPT !.refused = n] ELSE [breaker EXCEPT !.refused = n]
          [] OTHER -> breaker

\* Mutant: a half-open breaker looks at the thresholds first.
VerdictByThreshold(signal) ==
    IF breaker.state = "half_open" /\ signal = "ok" THEN Closed ELSE Counted(signal)

\* Observe.  Half-open, any outcome is the verdict, whoever reports it.
Verdict(signal) ==
    IF breaker.state # "half_open" THEN Counted(signal)
    ELSE IF signal = "ok" THEN Closed ELSE Opened

Report(signal) ==
    /\ breaker' = Verdict(signal)
    /\ lost' = (lost /\ breaker'.state = "half_open")

\* Allow, and what it leaves behind; the call it admits out of the cooldown is
\* the probe.
Cooled == breaker.state = "open" /\ breaker.cooled
Allowed == breaker.state = "closed" \/ Cooled
AfterAllow == IF Cooled THEN [breaker EXCEPT !.state = "half_open"] ELSE breaker

CoolDown ==
    /\ breaker.state = "open" /\ ~breaker.cooled
    /\ breaker' = [breaker EXCEPT !.cooled = TRUE]
    /\ UNCHANGED <<drift, slots, window, budget, sent, call, lost, restarts>>

\* Faults fall out of the rolling window.
Prune ==
    /\ \E n \in 0 .. breaker.refused - 1 : breaker' = [breaker EXCEPT !.refused = n]
    /\ UNCHANGED <<drift, slots, window, budget, sent, call, lost, restarts>>

-----------------------------------------------------------------------------
(***************************************************************************)
(* ObserveTarget.                                                          *)
(***************************************************************************)

\* While extraction is paused the target's offer is downgraded and the call
\* ends, whether or not that write succeeds.
Start(w) ==
    /\ At(w, "idle") /\ drift = "healthy"
    /\ Goto(w, "gate")
    /\ UNCHANGED <<breaker, drift, slots, window, budget, sent, lost, restarts>>

Gate(w) ==
    /\ At(w, "gate")
    /\ breaker' = AfterAllow
    /\ call' = [call EXCEPT ![w] = IF Allowed
                                   THEN [@ EXCEPT !.at = "reserve", !.probe = Cooled]
                                   ELSE IdleCall]
    /\ UNCHANGED <<drift, slots, window, budget, sent, lost, restarts>>

\* Mutant: a retry is not charged.
ChargedOnce(w) ==
    IF call[w].attempt = 0
    THEN [budget EXCEPT ![window].requests = @ + 1] ELSE budget

\* ReserveRequestBudget: one conditional upsert.
Headroom == budget[window].requests < RequestLimit /\ budget[window].bytes < ByteLimit
Charged(w) == [budget EXCEPT ![window].requests = @ + 1]

\* The first attempt reserves before it takes a slot, a retry while it holds
\* one.  A denial or an error ends the call; an answer that is lost leaves the
\* request charged.
Denied(w) ==
    IF call[w].attempt = 0 THEN Exit(w)
    ELSE Leave(w, "release", call[w].probe) /\ UNCHANGED lost

Reserve(w) ==
    /\ At(w, "reserve")
    /\ \/ /\ Headroom /\ budget' = Charged(w)
          /\ \/ Goto(w, IF call[w].attempt = 0 THEN "account" ELSE "fetch") /\ UNCHANGED lost
             \/ Denied(w)
       \/ Denied(w) /\ UNCHANGED budget
    /\ UNCHANGED <<breaker, drift, slots, window, sent, restarts>>

TakeAccountSlot(w) ==
    /\ At(w, "account") /\ slots.account < AccountSlots
    /\ slots' = [slots EXCEPT !.account = @ + 1]
    /\ Goto(w, "host")
    /\ UNCHANGED <<breaker, drift, window, budget, sent, lost, restarts>>

TakeHostSlot(w) ==
    /\ At(w, "host") /\ slots.host < HostSlots
    /\ slots' = [slots EXCEPT !.host = @ + 1]
    /\ Goto(w, "fetch")
    /\ UNCHANGED <<breaker, drift, window, budget, sent, lost, restarts>>

\* Mutants: the account slot is not given back; the host slot is as well.
AccountSlotKept(w) == slots
BothGivenBack(w) == [account |-> slots.account - 1, host |-> slots.host - 1]

\* Acquire is cancelled; the account slot is given back.
GivenBack(w) == IF At(w, "host") THEN [slots EXCEPT !.account = @ - 1] ELSE slots

Cancel(w) ==
    /\ At(w, "account") \/ At(w, "host")
    /\ slots' = GivenBack(w)
    /\ Exit(w)
    /\ UNCHANGED <<breaker, drift, window, budget, sent, restarts>>

\* Any answer may come with a body or without, also one that counts as a
\* transport fault: a server error, another status, a read cut short.
Fetch(w) ==
    /\ At(w, "fetch")
    /\ sent' = [sent EXCEPT ![window] = @ + 1]
    /\ \E signal \in FetchSignals, body \in BOOLEAN :
          call' = [call EXCEPT ![w].at = "consume", ![w].signal = signal,
                               ![w].body = body]
    /\ UNCHANGED <<breaker, drift, slots, window, budget, lost, restarts>>

\* ConsumeByteBudget charges the bytes read to the window it then is, unless
\* there are none; its error, whether or not the bytes were recorded, ends the
\* call before the breaker hears of the outcome.
Spent == [budget EXCEPT ![window].bytes = @ + 1]

Consume(w) ==
    /\ At(w, "consume")
    /\ \/ /\ budget' = IF call[w].body THEN Spent ELSE budget
          /\ call' = [call EXCEPT ![w].at = "observe",
                                  ![w].body = @ /\ call[w].signal = "ok"]
       \/ /\ call[w].body /\ budget' \in {budget, Spent}
          /\ Leave(w, "release", call[w].probe)
    /\ UNCHANGED <<breaker, drift, slots, window, sent, lost, restarts>>

\* Only a transport fault is retried.
Observe(w) ==
    LET next == CASE call[w].signal = "ok" -> "parse"
                  [] call[w].signal = "transport" /\ call[w].attempt < MaxRetries -> "backoff"
                  [] OTHER -> "release"
    IN  /\ At(w, "observe")
        /\ Report(call[w].signal)
        /\ Leave(w, next, FALSE)
        /\ UNCHANGED <<drift, slots, window, budget, sent, restarts>>

\* After the delay the breaker is asked again; a cancelled wait ends the call.
Backoff(w) ==
    /\ At(w, "backoff")
    /\ \/ /\ breaker' = AfterAllow
          /\ call' = [call EXCEPT ![w] =
                IF Allowed THEN [@ EXCEPT !.at = "reserve", !.attempt = call[w].attempt + 1,
                                          !.probe = Cooled]
                ELSE [IdleCall EXCEPT !.at = "release"]]
       \/ Leave(w, "release", FALSE) /\ UNCHANGED breaker
    /\ UNCHANGED <<drift, slots, window, budget, sent, lost, restarts>>

\* A body that does not parse, fails the canary or is of another product
\* pauses extraction, then feeds the breaker, then downgrades the offer.
Parse(w) ==
    /\ At(w, "parse")
    /\ \/ call[w].body /\ Goto(w, "ingest") /\ UNCHANGED drift
       \/ Goto(w, "drifted") /\ drift' = "paused"
    /\ UNCHANGED <<breaker, slots, window, budget, sent, lost, restarts>>

ObserveDrift(w) ==
    /\ At(w, "drifted")
    /\ Report("drift")
    /\ Goto(w, "release")
    /\ UNCHANGED <<drift, slots, window, budget, sent, restarts>>

Ingest(w) ==
    /\ At(w, "ingest")
    /\ Goto(w, "release")
    /\ UNCHANGED <<breaker, drift, slots, window, budget, sent, lost, restarts>>

\* The deferred release gives back both slots.
Release(w) ==
    /\ At(w, "release")
    /\ slots' = [account |-> slots.account - 1, host |-> slots.host - 1]
    /\ Exit(w)
    /\ UNCHANGED <<breaker, drift, window, budget, sent, restarts>>

-----------------------------------------------------------------------------

NextWindow ==
    /\ window < MaxWindow /\ window' = window + 1
    /\ UNCHANGED <<breaker, drift, slots, budget, sent, call, lost, restarts>>

\* An operator recovers the drift guard with all three pieces of evidence.
Recover ==
    /\ drift = "paused" /\ drift' = "healthy"
    /\ UNCHANGED <<breaker, slots, window, budget, sent, call, lost, restarts>>

\* A restart forgets everything but the budget.
Restart ==
    /\ restarts < MaxRestarts /\ restarts' = restarts + 1
    /\ breaker' = Closed /\ drift' = "healthy"
    /\ slots' = [account |-> 0, host |-> 0]
    /\ call' = [w \in Workers |-> IdleCall]
    /\ lost' = FALSE
    /\ UNCHANGED <<window, budget, sent>>

Slot(w) == TakeAccountSlot(w) \/ TakeHostSlot(w)

Proceed(w) ==
    \/ Gate(w) \/ Reserve(w) \/ Fetch(w) \/ Consume(w) \/ Observe(w) \/ Backoff(w)
    \/ Parse(w) \/ ObserveDrift(w) \/ Ingest(w) \/ Release(w)

Next ==
    \/ \E w \in Workers : Start(w) \/ Proceed(w) \/ Slot(w) \/ Cancel(w)
    \/ CoolDown \/ Prune \/ NextWindow \/ Recover \/ Restart

Spec == Init /\ [][Next]_vars

\* A call runs on, and the senders a channel blocks are served in order of
\* arrival.  Nothing is assumed of the cooldown, the operator or cancellation.
Fairness == \A w \in Workers : WF_vars(Proceed(w)) /\ SF_vars(Slot(w))
FairSpec == Spec /\ Fairness

-----------------------------------------------------------------------------
(***************************************************************************)
(* Properties.                                                             *)
(***************************************************************************)

Reserving == Cardinality(Workers)

\* The ceilings of a window hold for all sweeps together, retries and restarts
\* included: no more requests are reserved than the limit, a request is sent
\* on a reservation, of its own window or of a call begun in the one before,
\* and the recorded bytes pass their limit by what was under way at most.
BudgetHolds ==
    \A n \in Windows :
        /\ budget[n].requests <= IF RequestLimit > 0 THEN RequestLimit ELSE 0
        /\ sent[n] <= budget[n].requests + IF n = 0 THEN 0 ELSE Reserving
        /\ budget[n].bytes < (IF ByteLimit > 0 THEN ByteLimit ELSE 1) + Reserving

\* A half-open breaker has its probe under way, however calls admitted earlier
\* report into it, unless that probe ended without an observation.
HalfOpenIsProbed ==
    breaker.state = "half_open" => lost \/ \E w \in Workers : call[w].probe

\* breaker.go: "Only the first probe is admitted; further calls wait for its
\* verdict".  A probe that finds the budget spent, is cancelled while it waits
\* for a slot, or cannot record its bytes leaves a breaker that admits nothing
\* until the process restarts.
ProbeIsDecided ==
    breaker.state = "half_open" => \E w \in Workers : call[w].probe

\* drift.go: "no new value is extracted until recovery".  A call past the
\* check ingests into a paused extraction.
PausedExtractsNothing == [][\A w \in Workers : Ingest(w) => drift = "healthy"]_vars

\* Every ObserveTarget ends: no sweep waits for ever on a slot, whatever was
\* cancelled, refused or retried around it.
EveryCallEnds == \A w \in Workers : ~At(w, "idle") ~> At(w, "idle")
=============================================================================
