-------------------------- MODULE RouteObserverProofs --------------------------
(***************************************************************************)
(* Proofs about RouteObserver, for any number of sweeps, slots, retries,   *)
(* windows and restarts, and for any limit.                                *)
(***************************************************************************)
EXTENDS RouteObserver, FiniteSetTheorems, TLAPS

-----------------------------------------------------------------------------
(***************************************************************************)
(* The inductive invariant.                                                *)
(***************************************************************************)

\* A call past TakeHostSlot, which Release has still to undo.
SlottedSteps == {"fetch", "consume", "observe", "backoff", "parse", "drifted",
                 "ingest", "release"}

HoldsHost(w) == (At(w, "reserve") /\ call[w].attempt > 0) \/ call[w].at \in SlottedSteps

HoldsAccount(w) == At(w, "host") \/ HoldsHost(w)

AccountHolders == {w \in Workers : HoldsAccount(w)}
HostHolders    == {w \in Workers : HoldsHost(w)}

\* The limiter counts exactly the calls that have to give a slot back.
SlotsAreHeld ==
    /\ slots.account = Cardinality(AccountHolders)
    /\ slots.host = Cardinality(HostHolders)

\* A call that has not been sent yet has no attempt behind it, a call that
\* waits to be retried has one left, and neither is the half-open probe.
FreshCalls ==
    \A w \in Workers :
        /\ call[w].at \in {"idle", "gate"} => call[w].attempt = 0
        /\ At(w, "backoff") => call[w].attempt < MaxRetries
        /\ call[w].at \in {"idle", "gate", "backoff"} => ~call[w].probe

\* Calls with a reservation and no request sent, and with no bytes recorded.
Unsent     == {w \in Workers : call[w].at \in {"account", "host", "fetch"}}
Unrecorded == {w \in Workers : call[w].at \in {"account", "host", "fetch", "consume"}}

Carried(n) == IF n = 0 THEN 0 ELSE Reserving
RequestCeiling == IF RequestLimit > 0 THEN RequestLimit ELSE 0
ByteCeiling == IF ByteLimit > 0 THEN ByteLimit ELSE 1

\* In the current window there is a reservation for what is sent and for what
\* is about to be, and room for the bytes under way; a window to come is empty.
WindowIsFunded ==
    /\ sent[window] + Cardinality(Unsent) <= budget[window].requests + Carried(window)
    /\ budget[window].bytes + Cardinality(Unrecorded) < ByteCeiling + Reserving
    /\ \A n \in Windows : n > window =>
          sent[n] = 0 /\ budget[n].requests = 0 /\ budget[n].bytes = 0

RouteInv ==
    /\ TypeOK
    /\ SlotsAreHeld
    /\ FreshCalls
    /\ BudgetHolds
    /\ WindowIsFunded
    /\ HalfOpenIsProbed

-----------------------------------------------------------------------------
(***************************************************************************)
(* Counting: what one call's step does to the number of calls of a kind.   *)
(***************************************************************************)
One(b) == IF b THEN 1 ELSE 0

\* Two sets of workers that agree on everybody but one differ by that one.
LEMMA CountMoves ==
  ASSUME NEW A \in SUBSET Workers, NEW B \in SUBSET Workers, NEW w \in Workers,
         \A v \in Workers \ {w} : v \in A <=> v \in B
  PROVE  /\ Cardinality(A) \in Nat /\ Cardinality(B) \in Nat /\ Reserving \in Nat
         /\ Cardinality(A) <= Reserving /\ Cardinality(B) <= Reserving
         /\ Cardinality(B) + One(w \in A) = Cardinality(A) + One(w \in B)
<1>f. IsFiniteSet(Workers) /\ IsFiniteSet(A) /\ IsFiniteSet(B)
  BY RouteBounds, FS_Subset
<1>1. /\ Cardinality(A) \in Nat /\ Cardinality(B) \in Nat /\ Reserving \in Nat
      /\ Cardinality(A) <= Reserving /\ Cardinality(B) <= Reserving
  BY <1>f, FS_Subset, FS_CardinalityType DEF Reserving
<1>2. CASE (w \in A) = (w \in B)
  <2>1. A = B
    BY <1>2
  <2> QED
    BY <1>1, <2>1
<1>3. CASE w \in A /\ w \notin B
  <2>1. A = B \cup {w}
    BY <1>3
  <2>2. Cardinality(A) = Cardinality(B) + 1
    BY <1>3, <1>f, <2>1, FS_AddElement
  <2> QED
    BY <1>1, <1>3, <2>2 DEF One
<1>4. CASE w \notin A /\ w \in B
  <2>1. B = A \cup {w}
    BY <1>4
  <2>2. Cardinality(B) = Cardinality(A) + 1
    BY <1>4, <1>f, <2>1, FS_AddElement
  <2> QED
    BY <1>1, <1>4, <2>2 DEF One
<1> QED
  BY <1>2, <1>3, <1>4

\* A step of one call moves each of the four counts by that call alone.
LEMMA HoldersMove ==
  ASSUME NEW w \in Workers, \A v \in Workers \ {w} : call'[v] = call[v]
  PROVE  /\ Cardinality(AccountHolders) \in Nat
         /\ Cardinality(HostHolders) \in Nat
         /\ Cardinality(AccountHolders') \in Nat
         /\ Cardinality(HostHolders') \in Nat
         /\ Cardinality(AccountHolders') + One(w \in AccountHolders)
               = Cardinality(AccountHolders) + One(w \in AccountHolders')
         /\ Cardinality(HostHolders') + One(w \in HostHolders)
               = Cardinality(HostHolders) + One(w \in HostHolders')
<1>a. /\ AccountHolders \in SUBSET Workers /\ AccountHolders' \in SUBSET Workers
      /\ HostHolders \in SUBSET Workers /\ HostHolders' \in SUBSET Workers
  BY DEF AccountHolders, HostHolders
<1>b. \A v \in Workers \ {w} :
        /\ v \in AccountHolders <=> v \in AccountHolders'
        /\ v \in HostHolders <=> v \in HostHolders'
  BY DEF AccountHolders, HostHolders, HoldsAccount, HoldsHost, At
<1> QED
  BY <1>a, <1>b, CountMoves

\* The same for what is reserved and not sent, and not recorded.
LEMMA FundsMove ==
  ASSUME NEW w \in Workers, \A v \in Workers \ {w} : call'[v] = call[v]
  PROVE  /\ Reserving \in Nat
         /\ Cardinality(Unsent) \in Nat /\ Cardinality(Unrecorded) \in Nat
         /\ Cardinality(Unsent') \in Nat /\ Cardinality(Unrecorded') \in Nat
         /\ Cardinality(Unsent') <= Reserving /\ Cardinality(Unrecorded') <= Reserving
         /\ Cardinality(Unsent') + One(w \in Unsent)
               = Cardinality(Unsent) + One(w \in Unsent')
         /\ Cardinality(Unrecorded') + One(w \in Unrecorded)
               = Cardinality(Unrecorded) + One(w \in Unrecorded')
<1>a. /\ Unsent \in SUBSET Workers /\ Unsent' \in SUBSET Workers
      /\ Unrecorded \in SUBSET Workers /\ Unrecorded' \in SUBSET Workers
  BY DEF Unsent, Unrecorded
<1>b. \A v \in Workers \ {w} :
        /\ v \in Unsent <=> v \in Unsent'
        /\ v \in Unrecorded <=> v \in Unrecorded'
  BY DEF Unsent, Unrecorded
<1> QED
  BY <1>a, <1>b, CountMoves

-----------------------------------------------------------------------------
(***************************************************************************)
(* The steps of one call.                                                  *)
(***************************************************************************)
CallRecords == [at : Steps, attempt : 0 .. MaxRetries, probe : BOOLEAN,
                signal : FetchSignals, body : BOOLEAN]

WorkerStep(w) == Start(w) \/ Proceed(w) \/ Slot(w) \/ Cancel(w)

\* Writing one call leaves the other ones alone.
LEMMA OthersCalls ==
  ASSUME TypeOK, NEW w \in Workers, WorkerStep(w)
  PROVE  \A v \in Workers \ {w} : call'[v] = call[v]
BY DEF TypeOK, WorkerStep, Proceed, Slot, Start, Gate, Reserve, Fetch, Consume,
       Observe, Backoff, Parse, ObserveDrift, Ingest, Release, TakeAccountSlot,
       TakeHostSlot, Cancel, Denied, Exit, Leave, Goto

\* A call without locals is a call.
LEMMA IdleIsACall == IdleCall \in CallRecords
BY RouteBounds DEF IdleCall, CallRecords, Steps, FetchSignals

\* What is left of a call once an attempt is done with.
LEMMA LeftRecord ==
  ASSUME TypeOK, NEW w \in Workers, NEW step \in Steps, NEW p \in BOOLEAN,
         Leave(w, step, p)
  PROVE  /\ call'[w] \in CallRecords
         /\ call'[w].at = step /\ call'[w].probe = p
         /\ step = "backoff" => call'[w].attempt = call[w].attempt
<1> DEFINE att == IF step = "backoff" THEN call[w].attempt ELSE 0
           bod == step = "parse" /\ call[w].body
<1>1. call[w] \in CallRecords /\ 0 \in 0 .. MaxRetries
  BY RouteBounds DEF TypeOK, CallRecords
<1>2. call'[w] = [IdleCall EXCEPT !.at = step, !.probe = p, !.attempt = att, !.body = bod]
  BY DEF Leave, TypeOK
<1>3. att \in 0 .. MaxRetries /\ bod \in BOOLEAN
  BY <1>1 DEF CallRecords
<1>4. step = "backoff" => att = call[w].attempt
  OBVIOUS
<1> HIDE DEF att, bod
<1> QED
  BY <1>2, <1>3, <1>4, IdleIsACall DEF CallRecords

\* A call that goes on where it is, and one that ends on its slots.
LEMMA WentRecord ==
  ASSUME TypeOK, NEW w \in Workers, NEW step \in Steps, Goto(w, step)
  PROVE  call'[w] = [call[w] EXCEPT !.at = step] /\ call'[w] \in CallRecords
         /\ call'[w].at = step
<1>1. call[w] \in CallRecords
  BY DEF TypeOK, CallRecords
<1>2. call'[w] = [call[w] EXCEPT !.at = step]
  BY DEF Goto, TypeOK
<1> QED
  BY <1>1, <1>2 DEF CallRecords

\* The ways a call can go on, and what each does to the slots.
Starting(w) ==
    /\ At(w, "idle") /\ slots' = slots
    /\ call'[w] = [call[w] EXCEPT !.at = "gate"]

Admitted(w) ==
    /\ At(w, "gate") /\ slots' = slots
    /\ \/ call'[w] = IdleCall
       \/ \E p \in BOOLEAN : call'[w] = [call[w] EXCEPT !.at = "reserve", !.probe = p]

ReservingFirst(w) ==
    /\ At(w, "reserve") /\ call[w].attempt = 0 /\ slots' = slots
    /\ call'[w] = IdleCall \/ call'[w] = [call[w] EXCEPT !.at = "account"]

ReservingRetry(w) ==
    /\ At(w, "reserve") /\ call[w].attempt > 0 /\ slots' = slots
    /\ call'[w] \in CallRecords /\ call'[w].at \in {"fetch", "release"}

TakingAccount(w) ==
    /\ At(w, "account") /\ slots.account < AccountSlots
    /\ slots' = [slots EXCEPT !.account = @ + 1]
    /\ call'[w] = [call[w] EXCEPT !.at = "host"]

TakingHost(w) ==
    /\ At(w, "host") /\ slots.host < HostSlots
    /\ slots' = [slots EXCEPT !.host = @ + 1]
    /\ call'[w] = [call[w] EXCEPT !.at = "fetch"]

Cancelled(w) ==
    /\ call'[w] = IdleCall
    /\ \/ At(w, "account") /\ slots' = slots
       \/ At(w, "host") /\ slots' = [slots EXCEPT !.account = @ - 1]

Running(w) ==
    /\ call[w].at \in SlottedSteps \ {"release", "backoff"} /\ slots' = slots
    /\ call'[w] \in CallRecords /\ call'[w].at \in SlottedSteps \ {"fetch", "backoff"}

Waiting(w) ==
    /\ At(w, "observe") /\ slots' = slots /\ call[w].attempt < MaxRetries
    /\ call'[w] \in CallRecords /\ call'[w].at = "backoff" /\ ~call'[w].probe
    /\ call'[w].attempt = call[w].attempt

Retrying(w) ==
    /\ At(w, "backoff") /\ slots' = slots
    /\ \/ call'[w] \in CallRecords /\ call'[w].at = "release"
       \/ \E p \in BOOLEAN :
             call'[w] = [call[w] EXCEPT !.at = "reserve",
                                        !.attempt = call[w].attempt + 1, !.probe = p]

Releasing(w) ==
    /\ At(w, "release") /\ call'[w] = IdleCall
    /\ slots' = [account |-> slots.account - 1, host |-> slots.host - 1]

\* Every step of a call is one of them.
LEMMA CallFlow ==
  ASSUME TypeOK, NEW w \in Workers, WorkerStep(w)
  PROVE  \/ Starting(w) \/ Admitted(w) \/ ReservingFirst(w) \/ ReservingRetry(w)
         \/ TakingAccount(w) \/ TakingHost(w) \/ Cancelled(w) \/ Running(w)
         \/ Waiting(w) \/ Retrying(w) \/ Releasing(w)
<1>t. call[w] \in CallRecords /\ call[w].probe \in BOOLEAN
  BY DEF TypeOK, CallRecords
<1>g. ASSUME NEW s \in Steps, Goto(w, s)
      PROVE  call'[w] = [call[w] EXCEPT !.at = s]
  BY <1>g, WentRecord
<1>e. ASSUME Exit(w) PROVE call'[w] = IdleCall
  BY <1>e DEF Exit, TypeOK
<1>n. SlottedSteps \subseteq Steps
  BY DEF SlottedSteps, Steps
<1>c. Cooled \in BOOLEAN
  BY DEF Cooled
<1>1. CASE Start(w)
  BY <1>1, <1>g DEF Start, Steps, Starting
<1>2. CASE Gate(w)
  <2>1. At(w, "gate") /\ slots' = slots
    BY <1>2 DEF Gate
  <2>2. call'[w] = IF Allowed THEN [call[w] EXCEPT !.at = "reserve", !.probe = Cooled]
                   ELSE IdleCall
    BY <1>2 DEF Gate, TypeOK
  <2> QED
    BY <1>c, <2>1, <2>2 DEF Admitted
<1>3. CASE Reserve(w)
  <2>1. At(w, "reserve") /\ slots' = slots /\ call[w].attempt \in Nat
    BY <1>3, <1>t, RouteBounds DEF Reserve, CallRecords
  <2>2. CASE call[w].attempt = 0
    <3>1. Goto(w, "account") \/ Exit(w)
      BY <1>3, <2>2 DEF Reserve, Denied
    <3> QED
      BY <1>e, <1>g, <2>1, <2>2, <3>1 DEF Steps, ReservingFirst
  <2>3. CASE call[w].attempt > 0
    <3>1. Goto(w, "fetch") \/ Leave(w, "release", call[w].probe)
      BY <1>3, <2>3 DEF Reserve, Denied
    <3> QED
      BY <1>t, <2>1, <2>3, <3>1, WentRecord, LeftRecord DEF Steps, ReservingRetry
  <2> QED
    BY <2>1, <2>2, <2>3
<1>4. CASE Slot(w)
  <2>1. CASE TakeAccountSlot(w)
    BY <1>g, <2>1 DEF TakeAccountSlot, Steps, TakingAccount
  <2>2. CASE TakeHostSlot(w)
    BY <1>g, <2>2 DEF TakeHostSlot, Steps, TakingHost
  <2> QED
    BY <1>4, <2>1, <2>2 DEF Slot
<1>5. CASE Cancel(w)
  BY <1>5, <1>e DEF Cancel, GivenBack, At, Cancelled
<1>6. CASE Fetch(w)
  <2>1. PICK sig \in FetchSignals, bod \in BOOLEAN :
          call' = [call EXCEPT ![w].at = "consume", ![w].signal = sig, ![w].body = bod]
    BY <1>6 DEF Fetch
  <2>2. call'[w] = [call[w] EXCEPT !.at = "consume", !.signal = sig, !.body = bod]
    BY <2>1 DEF TypeOK
  <2>3. call'[w] \in CallRecords /\ call'[w].at = "consume"
    BY <1>t, <2>2 DEF CallRecords, Steps
  <2> QED
    BY <1>6, <2>3 DEF Fetch, At, SlottedSteps, Running
<1>7. CASE Consume(w)
  <2>1. call[w].at = "consume" /\ slots' = slots
    BY <1>7 DEF Consume, At
  <2>2. CASE Leave(w, "release", call[w].probe)
    BY <1>t, <2>1, <2>2, LeftRecord DEF Running, SlottedSteps, Steps
  <2>3. CASE call' = [call EXCEPT ![w].at = "observe",
                                  ![w].body = @ /\ call[w].signal = "ok"]
    <3>1. call'[w] = [call[w] EXCEPT !.at = "observe",
                                     !.body = call[w].body /\ call[w].signal = "ok"]
      BY <2>3 DEF TypeOK
    <3>2. call'[w] \in CallRecords /\ call'[w].at = "observe"
      BY <1>t, <3>1 DEF CallRecords, Steps
    <3> QED
      BY <2>1, <3>2 DEF Running, SlottedSteps
  <2> QED
    BY <1>7, <2>2, <2>3 DEF Consume
<1>8. CASE Parse(w) \/ ObserveDrift(w) \/ Ingest(w)
  <2>1. /\ call[w].at \in SlottedSteps \ {"release", "backoff"}
        /\ slots' = slots
        /\ \E s \in SlottedSteps \ {"fetch", "backoff"} : Goto(w, s)
    BY <1>8 DEF Parse, ObserveDrift, Ingest, At, SlottedSteps
  <2> QED
    BY <1>n, <2>1, WentRecord DEF Running
<1>9. CASE Observe(w)
  <2>1. PICK s \in {"parse", "backoff", "release"} :
          Leave(w, s, FALSE) /\ (s = "backoff" => call[w].attempt < MaxRetries)
    BY <1>9 DEF Observe
  <2>2. /\ call'[w] \in CallRecords /\ call'[w].at = s /\ ~call'[w].probe
        /\ s = "backoff" => call'[w].attempt = call[w].attempt
    BY <2>1, LeftRecord DEF Steps
  <2>3. At(w, "observe") /\ slots' = slots
    BY <1>9 DEF Observe
  <2>4. CASE s = "backoff"
    BY <2>1, <2>2, <2>3, <2>4 DEF Waiting
  <2>5. CASE s # "backoff"
    BY <2>2, <2>3, <2>5 DEF Running, At, SlottedSteps
  <2> QED
    BY <2>4, <2>5
<1>11. CASE Backoff(w)
  <2>1. At(w, "backoff") /\ slots' = slots
    BY <1>11 DEF Backoff
  <2>2. CASE Leave(w, "release", FALSE)
    BY <2>1, <2>2, LeftRecord DEF Steps, Retrying
  <2>3. CASE ~Leave(w, "release", FALSE)
    <3>1. \/ call'[w] = [call[w] EXCEPT !.at = "reserve", !.attempt = call[w].attempt + 1,
                                        !.probe = Cooled]
          \/ call'[w] = [IdleCall EXCEPT !.at = "release"]
      BY <1>11, <2>3 DEF Backoff, TypeOK
    <3>2. [IdleCall EXCEPT !.at = "release"] \in CallRecords
          /\ [IdleCall EXCEPT !.at = "release"].at = "release"
      BY IdleIsACall DEF CallRecords, Steps
    <3> QED
      BY <1>c, <2>1, <3>1, <3>2 DEF Retrying
  <2> QED
    BY <2>2, <2>3
<1>10. CASE Release(w)
  BY <1>10, <1>e DEF Release, Releasing
<1> QED
  BY <1>1, <1>2, <1>3, <1>4, <1>5, <1>6, <1>7, <1>8, <1>9, <1>10, <1>11
  DEF WorkerStep, Proceed

-----------------------------------------------------------------------------
(***************************************************************************)
(* Slots.                                                                  *)
(***************************************************************************)

\* Whether a call holds a slot is a matter of its own record.
LEMMA HoldersOf ==
  ASSUME NEW w \in Workers
  PROVE  /\ w \in HostHolders <=>
              \/ call[w].at = "reserve" /\ call[w].attempt > 0
              \/ call[w].at \in SlottedSteps
         /\ w \in HostHolders' <=>
              \/ call'[w].at = "reserve" /\ call'[w].attempt > 0
              \/ call'[w].at \in SlottedSteps
         /\ w \in AccountHolders <=> w \in HostHolders \/ call[w].at = "host"
         /\ w \in AccountHolders' <=> w \in HostHolders' \/ call'[w].at = "host"
BY DEF HostHolders, AccountHolders, HoldsHost, HoldsAccount, At

\* A step of a call takes or gives back exactly what the call's new place
\* says, whatever was cancelled or denied.
LEMMA SlotsFollow ==
  ASSUME TypeOK, FreshCalls, NEW w \in Workers, WorkerStep(w)
  PROVE  /\ slots' \in [account : Int, host : Int]
         /\ slots'.account + One(w \in AccountHolders)
              = slots.account + One(w \in AccountHolders')
         /\ slots'.host + One(w \in HostHolders) = slots.host + One(w \in HostHolders')
         /\ slots'.account <= AccountSlots /\ slots'.host <= HostSlots
<1> DEFINE Goal == /\ slots' \in [account : Int, host : Int]
                   /\ slots'.account + One(w \in AccountHolders)
                        = slots.account + One(w \in AccountHolders')
                   /\ slots'.host + One(w \in HostHolders)
                        = slots.host + One(w \in HostHolders')
                   /\ slots'.account <= AccountSlots /\ slots'.host <= HostSlots
<1>t. /\ call[w] \in CallRecords /\ call[w].attempt \in Nat
      /\ slots \in [account : 0 .. AccountSlots, host : 0 .. HostSlots]
      /\ AccountSlots \in Nat /\ HostSlots \in Nat
  BY RouteBounds DEF TypeOK, CallRecords
<1>f. call[w].at \in {"idle", "gate"} => call[w].attempt = 0
  BY DEF FreshCalls
<1>1. ASSUME slots' = slots, (w \in AccountHolders) <=> (w \in AccountHolders'),
             (w \in HostHolders) <=> (w \in HostHolders')
      PROVE  Goal
  BY <1>t, <1>1 DEF One
<1>2. CASE Starting(w)
  BY <1>t, <1>f, <1>1, <1>2, HoldersOf DEF Starting, At, SlottedSteps, CallRecords
<1>3. CASE Admitted(w)
  <2>1. /\ call'[w].at \in {"idle", "reserve"}
        /\ call'[w].attempt = 0
    <3>1. CASE call'[w] = IdleCall
      BY <3>1 DEF IdleCall
    <3>2. ASSUME NEW p \in BOOLEAN,
                 call'[w] = [call[w] EXCEPT !.at = "reserve", !.probe = p]
          PROVE  call'[w].at = "reserve" /\ call'[w].attempt = call[w].attempt
      BY <1>t, <3>2 DEF CallRecords
    <3> QED
      BY <1>f, <1>3, <3>1, <3>2 DEF Admitted, At
  <2>2. w \notin HostHolders /\ w \notin AccountHolders
    BY <1>3, HoldersOf DEF Admitted, At, SlottedSteps
  <2>3. w \notin HostHolders' /\ w \notin AccountHolders'
    BY <2>1, HoldersOf DEF SlottedSteps
  <2> QED
    BY <1>1, <1>3, <2>2, <2>3 DEF Admitted
<1>4. CASE ReservingFirst(w)
  BY <1>t, <1>1, <1>4, HoldersOf DEF ReservingFirst, At, SlottedSteps, CallRecords, IdleCall
<1>5. CASE ReservingRetry(w)
  BY <1>1, <1>5, HoldersOf DEF ReservingRetry, At, SlottedSteps
<1>6. CASE TakingAccount(w)
  <2>1. /\ w \notin AccountHolders /\ w \in AccountHolders'
        /\ w \notin HostHolders /\ w \notin HostHolders'
    BY <1>t, <1>6, HoldersOf DEF TakingAccount, At, SlottedSteps, CallRecords
  <2> QED
    BY <1>t, <1>6, <2>1 DEF TakingAccount, One
<1>7. CASE TakingHost(w)
  <2>1. /\ w \in AccountHolders /\ w \in AccountHolders'
        /\ w \notin HostHolders /\ w \in HostHolders'
    BY <1>t, <1>7, HoldersOf DEF TakingHost, At, SlottedSteps, CallRecords
  <2> QED
    BY <1>t, <1>7, <2>1 DEF TakingHost, One
<1>8. CASE Cancelled(w)
  <2>1. /\ w \notin AccountHolders' /\ w \notin HostHolders /\ w \notin HostHolders'
        /\ w \in AccountHolders <=> At(w, "host")
    BY <1>8, HoldersOf DEF Cancelled, At, SlottedSteps, IdleCall
  <2>2. CASE At(w, "account") /\ slots' = slots
    BY <1>1, <2>1, <2>2 DEF At
  <2>3. CASE At(w, "host") /\ slots' = [slots EXCEPT !.account = @ - 1]
    BY <1>t, <2>1, <2>3 DEF One
  <2> QED
    BY <1>8, <2>2, <2>3 DEF Cancelled
<1>9. CASE Running(w)
  BY <1>1, <1>9, HoldersOf DEF Running
<1>10. CASE Waiting(w)
  BY <1>t, <1>1, <1>10, HoldersOf DEF Waiting, At, SlottedSteps, CallRecords
<1>11. CASE Retrying(w)
  <2>1. \/ call'[w].at = "reserve" /\ call'[w].attempt > 0
        \/ call'[w].at = "release"
    <3>1. ASSUME NEW p \in BOOLEAN,
                 call'[w] = [call[w] EXCEPT !.at = "reserve",
                                            !.attempt = call[w].attempt + 1, !.probe = p]
          PROVE  call'[w].at = "reserve" /\ call'[w].attempt = call[w].attempt + 1
      BY <1>t, <3>1 DEF CallRecords
    <3>2. call[w].attempt + 1 > 0
      BY <1>t
    <3> QED
      BY <1>11, <3>1, <3>2 DEF Retrying
  <2> QED
    BY <1>1, <1>11, <2>1, HoldersOf DEF Retrying, At, SlottedSteps
<1>12. CASE Releasing(w)
  <2>1. /\ w \in AccountHolders /\ w \notin AccountHolders'
        /\ w \in HostHolders /\ w \notin HostHolders'
    BY <1>12, HoldersOf DEF Releasing, At, SlottedSteps, IdleCall
  <2> QED
    BY <1>t, <1>12, <2>1 DEF Releasing, One
<1> QED
  BY <1>2, <1>3, <1>4, <1>5, <1>6, <1>7, <1>8, <1>9, <1>10, <1>11, <1>12, CallFlow

\* The calls other than w's are free of the step, and the step leaves a call.
LEMMA CallUpdated ==
  ASSUME TypeOK, NEW w \in Workers, WorkerStep(w)
  PROVE  call' = [call EXCEPT ![w] = call'[w]]
BY DEF TypeOK, WorkerStep, Proceed, Slot, Start, Gate, Reserve, Fetch, Consume,
       Observe, Backoff, Parse, ObserveDrift, Ingest, Release, TakeAccountSlot,
       TakeHostSlot, Cancel, Denied, Exit, Leave, Goto

\* A step leaves a well-typed record, which is fresh where it must be.
LEMMA CallsFollow ==
  ASSUME TypeOK, FreshCalls, NEW w \in Workers, WorkerStep(w)
  PROVE  call' \in [Workers -> CallRecords] /\ FreshCalls'
<1> DEFINE Fresh(c) == /\ c.at \in {"idle", "gate"} => c.attempt = 0
                       /\ c.at = "backoff" => c.attempt < MaxRetries
                       /\ c.at \in {"idle", "gate", "backoff"} => ~c.probe
           Goal == call'[w] \in CallRecords /\ Fresh(call'[w])
<1>t. /\ call[w] \in CallRecords /\ call[w].attempt \in 0 .. MaxRetries
      /\ MaxRetries \in Nat /\ Fresh(call[w])
  BY RouteBounds DEF TypeOK, CallRecords, FreshCalls, At
<1>i. ASSUME call'[w] = IdleCall PROVE Goal
  BY <1>i, IdleIsACall DEF IdleCall
<1>a. ASSUME NEW step \in Steps \ {"idle", "gate", "backoff"},
             call'[w] = [call[w] EXCEPT !.at = step]
      PROVE  Goal
  BY <1>t, <1>a DEF CallRecords
<1>1. ASSUME Starting(w) PROVE Goal
  BY <1>t, <1>1 DEF Starting, At, CallRecords, Steps
<1>2. ASSUME Admitted(w) PROVE Goal
  <2>1. ASSUME NEW p \in BOOLEAN,
               call'[w] = [call[w] EXCEPT !.at = "reserve", !.probe = p]
        PROVE  Goal
    BY <1>t, <2>1 DEF CallRecords, Steps
  <2> QED
    BY <1>2, <1>i, <2>1 DEF Admitted
<1>3. ASSUME ReservingFirst(w) \/ TakingAccount(w) \/ TakingHost(w) \/ Cancelled(w)
           \/ Releasing(w) PROVE Goal
  BY <1>3, <1>i, <1>a
  DEF ReservingFirst, TakingAccount, TakingHost, Cancelled, Releasing, Steps
<1>4. ASSUME Running(w) \/ ReservingRetry(w) PROVE Goal
  BY <1>4 DEF Running, ReservingRetry, SlottedSteps
<1>5. ASSUME Waiting(w) PROVE Goal
  BY <1>5 DEF Waiting
<1>6. ASSUME Retrying(w) PROVE Goal
  <2>1. ASSUME call'[w] \in CallRecords, call'[w].at = "release" PROVE Goal
    BY <2>1
  <2>2. ASSUME NEW p \in BOOLEAN,
               call'[w] = [call[w] EXCEPT !.at = "reserve",
                                          !.attempt = call[w].attempt + 1, !.probe = p]
        PROVE  Goal
    <3>1. call[w].attempt + 1 \in 0 .. MaxRetries
      <4>1. call[w].at = "backoff"
        BY <1>6 DEF Retrying, At
      <4> QED
        BY <1>t, <4>1
    <3> QED
      BY <1>t, <2>2, <3>1 DEF CallRecords, Steps
  <2> QED
    BY <1>6, <2>1, <2>2 DEF Retrying
<1>7. Goal
  BY <1>1, <1>2, <1>3, <1>4, <1>5, <1>6, CallFlow
<1>8. call' = [call EXCEPT ![w] = call'[w]]
  BY CallUpdated
<1>9. call' \in [Workers -> CallRecords]
  BY <1>7, <1>8 DEF TypeOK, CallRecords
<1>10. FreshCalls'
  <2> SUFFICES ASSUME NEW v \in Workers PROVE Fresh(call'[v])
    BY DEF FreshCalls, At
  <2>1. CASE v = w
    BY <1>7, <2>1
  <2>2. CASE v # w
    <3>1. call'[v] = call[v]
      BY <2>2, OthersCalls
    <3> QED
      BY <3>1 DEF FreshCalls, At
  <2> QED
    BY <2>1, <2>2
<1> QED
  BY <1>9, <1>10

\* A restart drops every call and every slot.
LEMMA RestartDrops ==
  ASSUME Restart
  PROVE  /\ SlotsAreHeld' /\ FreshCalls'
         /\ Cardinality(Unsent') = 0 /\ Cardinality(Unrecorded') = 0
<1>1. \A w \in Workers : call'[w] = IdleCall
  BY DEF Restart
<1>2. AccountHolders' = {} /\ HostHolders' = {} /\ Unsent' = {} /\ Unrecorded' = {}
  BY <1>1 DEF AccountHolders, HostHolders, HoldsAccount, HoldsHost, At, SlottedSteps,
     Unsent, Unrecorded, IdleCall
<1>3. FreshCalls'
  BY <1>1 DEF FreshCalls, IdleCall, At
<1>4. Cardinality({}) = 0
  BY FS_EmptySet
<1> QED
  BY <1>2, <1>3, <1>4 DEF SlotsAreHeld, Restart

\* The steps that are not a call's leave calls and slots alone, or drop them.
LEMMA OtherSteps ==
  ASSUME [Next]_vars
  PROVE  \/ \E w \in Workers : WorkerStep(w)
         \/ Restart
         \/ call' = call /\ slots' = slots /\ sent' = sent /\ budget' = budget
            /\ (NextWindow \/ window' = window)
BY DEF Next, WorkerStep, vars, CoolDown, Prune, NextWindow, Recover

\* Every step leaves the limiter counting the calls that hold a slot.
LEMMA SlotsAreHeldNext == RouteInv /\ [Next]_vars => SlotsAreHeld'
<1> SUFFICES ASSUME RouteInv, [Next]_vars PROVE SlotsAreHeld'
  OBVIOUS
<1>t. TypeOK /\ FreshCalls /\ SlotsAreHeld
  BY DEF RouteInv
<1>1. ASSUME NEW w \in Workers, WorkerStep(w) PROVE SlotsAreHeld'
  <2>1. \A v \in Workers \ {w} : call'[v] = call[v]
    BY <1>t, <1>1, OthersCalls
  <2>2. One(w \in AccountHolders) \in Nat /\ One(w \in HostHolders) \in Nat
        /\ One(w \in AccountHolders') \in Nat /\ One(w \in HostHolders') \in Nat
    BY DEF One
  <2> QED
    BY <1>t, <1>1, <2>1, <2>2, SlotsFollow, HoldersMove DEF SlotsAreHeld
<1>2. CASE call' = call /\ slots' = slots
  BY <1>t, <1>2 DEF SlotsAreHeld, AccountHolders, HostHolders, HoldsAccount, HoldsHost, At
<1> QED
  BY <1>1, <1>2, RestartDrops, OtherSteps

\* Every step leaves fresh calls fresh.
LEMMA FreshCallsNext == RouteInv /\ [Next]_vars => FreshCalls'
<1> SUFFICES ASSUME RouteInv, [Next]_vars PROVE FreshCalls'
  OBVIOUS
<1>t. TypeOK /\ FreshCalls
  BY DEF RouteInv
<1>1. CASE call' = call
  BY <1>t, <1>1 DEF FreshCalls, At
<1> QED
  BY <1>t, <1>1, CallsFollow, RestartDrops, OtherSteps

-----------------------------------------------------------------------------
(***************************************************************************)
(* Type correctness.                                                       *)
(***************************************************************************)
BreakerRecords == [state : {"closed", "open", "half_open"},
                   refused : 0 .. RefusedThreshold, cooled : BOOLEAN]

\* What the breaker makes of an admission and of a report is a breaker, and a
\* report never leaves it half-open: any outcome is the verdict.
LEMMA BreakerType ==
  ASSUME TypeOK
  PROVE  /\ AfterAllow \in BreakerRecords
         /\ \A sig \in Signals :
               Verdict(sig) \in BreakerRecords /\ Verdict(sig).state # "half_open"
<1>t. /\ breaker \in BreakerRecords /\ RefusedThreshold \in Nat \ {0}
  BY RouteBounds DEF TypeOK, BreakerRecords
<1>1. AfterAllow \in BreakerRecords
  BY <1>t DEF AfterAllow, BreakerRecords
<1>2. Opened \in BreakerRecords /\ Opened.state = "open"
  BY <1>t DEF Opened, BreakerRecords
<1>3. Closed \in BreakerRecords /\ Closed.state = "closed"
  BY <1>t DEF Closed, BreakerRecords
<1>4. ASSUME NEW sig \in Signals, breaker.state # "half_open"
      PROVE  Counted(sig) \in BreakerRecords /\ Counted(sig).state # "half_open"
  <2> DEFINE n == IF breaker.refused < RefusedThreshold
                  THEN breaker.refused + 1 ELSE breaker.refused
  <2>1. n \in 0 .. RefusedThreshold
    BY <1>t DEF BreakerRecords
  <2>2. /\ [Opened EXCEPT !.refused = n] \in BreakerRecords
        /\ [Opened EXCEPT !.refused = n].state = "open"
        /\ [breaker EXCEPT !.refused = n] \in BreakerRecords
        /\ [breaker EXCEPT !.refused = n].state = breaker.state
    <3> HIDE DEF n
    <3> QED
      BY <1>t, <1>2, <2>1 DEF BreakerRecords
  <2>3. Counted(sig) \in {Opened, breaker, [Opened EXCEPT !.refused = n],
                          [breaker EXCEPT !.refused = n]}
    <3>1. CASE sig = "drift"
      BY <3>1 DEF Counted
    <3>2. CASE sig = "refused"
      BY <3>2 DEF Counted
    <3>3. CASE sig # "drift" /\ sig # "refused"
      BY <3>3 DEF Counted
    <3> QED
      BY <3>1, <3>2, <3>3
  <2> HIDE DEF n
  <2> QED
    BY <1>t, <1>2, <1>4, <2>2, <2>3
<1>5. ASSUME NEW sig \in Signals
      PROVE  Verdict(sig) \in BreakerRecords /\ Verdict(sig).state # "half_open"
  BY <1>2, <1>3, <1>4 DEF Verdict
<1> QED
  BY <1>1, <1>5

\* Initially every variable is in its domain.
LEMMA TypeInit == Init => TypeOK
<1> SUFFICES ASSUME Init PROVE TypeOK
  OBVIOUS
<1>b. /\ 0 \in Windows /\ 0 \in 0 .. RefusedThreshold /\ 0 \in 0 .. MaxRestarts
      /\ 0 \in 0 .. AccountSlots /\ 0 \in 0 .. HostSlots
  BY RouteBounds DEF Windows
<1>1. Closed \in BreakerRecords
  BY <1>b DEF Closed, BreakerRecords
<1>2. IdleCall \in CallRecords
  BY IdleIsACall
<1>3. /\ budget \in [Windows -> [requests : Nat, bytes : Nat]]
      /\ sent \in [Windows -> Nat]
  BY DEF Init
<1>4. call \in [Workers -> CallRecords]
  BY <1>2 DEF Init
<1>5. slots \in [account : 0 .. AccountSlots, host : 0 .. HostSlots]
  BY <1>b DEF Init
<1> QED
  BY <1>b, <1>1, <1>3, <1>4, <1>5 DEF Init, TypeOK, BreakerRecords, CallRecords

\* A step of a call keeps the breaker, the drift guard and the history typed.
LEMMA GuardTypes ==
  ASSUME TypeOK, FreshCalls, NEW w \in Workers, WorkerStep(w)
  PROVE  /\ breaker' \in BreakerRecords /\ drift' \in {"healthy", "paused"}
         /\ lost' \in BOOLEAN /\ restarts' = restarts /\ window' = window
<1>t. breaker \in BreakerRecords /\ drift \in {"healthy", "paused"} /\ lost \in BOOLEAN
  BY DEF TypeOK, BreakerRecords
<1>1. \/ breaker' = breaker \/ breaker' = AfterAllow
      \/ \E sig \in Signals : breaker' = Verdict(sig)
  <2>1. call[w].signal \in Signals /\ "drift" \in Signals
    BY DEF TypeOK, Signals
  <2> QED
    BY <2>1 DEF WorkerStep, Proceed, Slot, Start, Gate, Reserve, Fetch, Consume,
       Observe, Backoff, Parse, ObserveDrift, Ingest, Release, TakeAccountSlot,
       TakeHostSlot, Cancel, Report
<1>2. drift' \in {drift, "paused"} /\ restarts' = restarts /\ window' = window
  BY DEF WorkerStep, Proceed, Slot, Start, Gate, Reserve, Fetch, Consume,
     Observe, Backoff, Parse, ObserveDrift, Ingest, Release, TakeAccountSlot,
     TakeHostSlot, Cancel
<1>3. \/ lost' = lost
      \/ lost' = (lost \/ (call[w].probe /\ breaker.state = "half_open"))
      \/ lost' = (lost /\ breaker'.state = "half_open")
  BY DEF WorkerStep, Proceed, Slot, Start, Gate, Reserve, Fetch, Consume,
     Observe, Backoff, Parse, ObserveDrift, Ingest, Release, TakeAccountSlot,
     TakeHostSlot, Cancel, Report, Exit, Denied
<1>4. lost' \in BOOLEAN
  BY <1>t, <1>3
<1>5. breaker' \in BreakerRecords
  BY <1>t, <1>1, BreakerType
<1> QED
  BY <1>t, <1>2, <1>4, <1>5

\* A call back from its delay reserves, as the probe if it was let through the
\* cooldown, or ends.
LEMMA RetryRecord ==
  ASSUME TypeOK, NEW w \in Workers, Backoff(w)
  PROVE  \/ /\ call'[w].at = "reserve" /\ breaker' = AfterAllow
            /\ Cooled => call'[w].probe
         \/ /\ call'[w].at = "release" /\ breaker' = AfterAllow /\ ~Cooled
         \/ /\ call'[w].at = "release" /\ breaker' = breaker
<1>t. call[w] \in CallRecords
  BY DEF TypeOK, CallRecords
<1>1. CASE Leave(w, "release", FALSE) /\ breaker' = breaker
  BY <1>1, LeftRecord DEF Steps
<1>2. CASE ~(Leave(w, "release", FALSE) /\ breaker' = breaker)
  <2>1. /\ breaker' = AfterAllow
        /\ call'[w] = IF Allowed
                      THEN [call[w] EXCEPT !.at = "reserve",
                              !.attempt = call[w].attempt + 1, !.probe = Cooled]
                      ELSE [IdleCall EXCEPT !.at = "release"]
    BY <1>2 DEF Backoff, TypeOK
  <2>2. CASE Allowed
    BY <1>t, <2>1, <2>2 DEF CallRecords
  <2>3. CASE ~Allowed
    BY <2>1, <2>3, IdleIsACall DEF CallRecords, Allowed
  <2> QED
    BY <2>2, <2>3
<1> QED
  BY <1>1, <1>2

\* What a step of a call spends of the current window: nothing, and then no call
\* is added to those that wait to send or to record; a request, which it had
\* headroom for; the reservation, on a request sent; or the bytes of an answer.
SpendsNothing(w) ==
    /\ budget' = budget /\ sent' = sent
    /\ w \in Unsent' => w \in Unsent
    /\ w \in Unrecorded' => w \in Unrecorded

SpendsARequest(w) ==
    /\ Headroom /\ sent' = sent /\ w \notin Unsent /\ w \notin Unrecorded
    /\ budget' = [budget EXCEPT ![window] = [requests |-> budget[window].requests + 1,
                                            bytes |-> budget[window].bytes]]

SpendsAReservation(w) ==
    /\ budget' = budget /\ sent' = [sent EXCEPT ![window] = sent[window] + 1]
    /\ w \in Unsent /\ w \notin Unsent' /\ w \in Unrecorded

SpendsBytes(w) ==
    /\ sent' = sent /\ w \notin Unsent' /\ w \in Unrecorded /\ w \notin Unrecorded'
    /\ budget' = [budget EXCEPT ![window] = [requests |-> budget[window].requests,
                                            bytes |-> budget[window].bytes + 1]]

LEMMA FundsFlow ==
  ASSUME TypeOK, NEW w \in Workers, WorkerStep(w)
  PROVE  SpendsNothing(w) \/ SpendsARequest(w) \/ SpendsAReservation(w) \/ SpendsBytes(w)
<1>t. /\ budget \in [Windows -> [requests : Nat, bytes : Nat]] /\ window \in Windows
      /\ budget[window] \in [requests : Nat, bytes : Nat]
      /\ call[w] \in CallRecords /\ call[w].probe \in BOOLEAN
  BY DEF TypeOK, CallRecords
<1>m. /\ w \in Unsent <=> call[w].at \in {"account", "host", "fetch"}
      /\ w \in Unsent' <=> call'[w].at \in {"account", "host", "fetch"}
      /\ w \in Unrecorded <=> call[w].at \in {"account", "host", "fetch", "consume"}
      /\ w \in Unrecorded' <=> call'[w].at \in {"account", "host", "fetch", "consume"}
  BY DEF Unsent, Unrecorded
<1>g. ASSUME NEW s \in Steps, Goto(w, s)
      PROVE  call'[w].at = s
  BY <1>g, WentRecord
<1>l. ASSUME NEW p \in BOOLEAN, Leave(w, "release", p)
      PROVE  call'[w].at = "release"
  BY <1>l, LeftRecord DEF Steps
<1>e. ASSUME Exit(w) PROVE call'[w].at = "idle"
  BY <1>e DEF Exit, TypeOK, IdleCall
<1>1. Charged(w) = [budget EXCEPT ![window] = [requests |-> budget[window].requests + 1,
                                               bytes |-> budget[window].bytes]]
  <2>1. [budget[window] EXCEPT !.requests = budget[window].requests + 1]
          = [requests |-> budget[window].requests + 1, bytes |-> budget[window].bytes]
    BY <1>t
  <2>2. Charged(w) = [budget EXCEPT ![window] =
          [budget[window] EXCEPT !.requests = budget[window].requests + 1]]
    BY <1>t DEF Charged
  <2> QED
    BY <2>1, <2>2
<1>2. Spent
        = [budget EXCEPT ![window] = [requests |-> budget[window].requests,
                                      bytes |-> budget[window].bytes + 1]]
  <2>1. [budget[window] EXCEPT !.bytes = budget[window].bytes + 1]
          = [requests |-> budget[window].requests, bytes |-> budget[window].bytes + 1]
    BY <1>t
  <2>2. Spent = [budget EXCEPT ![window] =
          [budget[window] EXCEPT !.bytes = budget[window].bytes + 1]]
    BY <1>t DEF Spent
  <2> QED
    BY <2>1, <2>2
<1>3. CASE Reserve(w)
  <2>1. call[w].at = "reserve" /\ sent' = sent
    BY <1>3 DEF Reserve, At
  <2>2. CASE Headroom /\ budget' = Charged(w)
    BY <1>m, <1>1, <2>1, <2>2 DEF SpendsARequest
  <2>3. CASE Denied(w) /\ budget' = budget
    <3>1. call'[w].at \in {"idle", "release"}
      BY <1>e, <1>l, <1>t, <2>3 DEF Denied
    <3> QED
      BY <1>m, <2>1, <2>3, <3>1 DEF SpendsNothing
  <2> QED
    BY <1>3, <2>2, <2>3 DEF Reserve
<1>4. CASE Fetch(w)
  <2>1. call'[w].at = "consume"
    BY <1>t, <1>4 DEF Fetch, TypeOK, CallRecords
  <2> QED
    BY <1>m, <1>4, <2>1 DEF Fetch, At, SpendsAReservation
<1>5. CASE Consume(w)
  <2>1. call[w].at = "consume" /\ call'[w].at \in {"observe", "release"} /\ sent' = sent
    <3>1. CASE Leave(w, "release", call[w].probe)
      BY <1>l, <1>t, <1>5, <3>1 DEF Consume, At, CallRecords
    <3>2. CASE ~Leave(w, "release", call[w].probe)
      BY <1>t, <1>5, <3>2 DEF Consume, At, TypeOK, CallRecords
    <3> QED
      BY <3>1, <3>2
  <2>2. budget' = budget \/ budget' = Spent
    BY <1>5 DEF Consume
  <2> QED
    BY <1>m, <1>2, <2>1, <2>2 DEF SpendsNothing, SpendsBytes
<1>6. CASE ~(Reserve(w) \/ Fetch(w) \/ Consume(w))
  <2>1. budget' = budget /\ sent' = sent
    BY <1>6 DEF WorkerStep, Proceed, Slot, Start, Gate, Observe, Backoff, Parse,
       ObserveDrift, Ingest, Release, TakeAccountSlot, TakeHostSlot, Cancel
  <2>2. CASE Slot(w)
    <3>1. call[w].at \in {"account", "host"}
      BY <2>2 DEF Slot, TakeAccountSlot, TakeHostSlot, At
    <3> QED
      BY <1>m, <2>1, <3>1 DEF SpendsNothing
  <2>3. CASE Start(w) \/ Cancel(w) \/ Parse(w) \/ ObserveDrift(w) \/ Ingest(w) \/ Release(w)
    <3>1. call'[w].at \in {"gate", "idle", "ingest", "drifted", "release"}
      BY <1>e, <1>g, <2>3
      DEF Start, Cancel, Parse, ObserveDrift, Ingest, Release, Steps
    <3> QED
      BY <1>m, <2>1, <3>1 DEF SpendsNothing
  <2>4. CASE Gate(w)
    <3>1. call'[w].at \in {"reserve", "idle"}
      BY <1>t, <2>4 DEF Gate, TypeOK, CallRecords, IdleCall
    <3> QED
      BY <1>m, <2>1, <3>1 DEF SpendsNothing
  <2>5. CASE Observe(w)
    <3>1. call'[w].at \in {"parse", "backoff", "release"}
      BY <2>5, LeftRecord DEF Observe, Steps
    <3> QED
      BY <1>m, <2>1, <3>1 DEF SpendsNothing
  <2>6. CASE Backoff(w)
    <3>1. call'[w].at \in {"reserve", "release"}
      BY <2>6, RetryRecord
    <3> QED
      BY <1>m, <2>1, <3>1 DEF SpendsNothing
  <2> QED
    BY <1>6, <2>2, <2>3, <2>4, <2>5, <2>6 DEF WorkerStep, Proceed
<1> QED
  BY <1>3, <1>4, <1>5, <1>6

\* Every step keeps every variable in its domain: no slot is given back that
\* was not taken, and none is taken beyond the limit.
LEMMA TypeNext == RouteInv /\ [Next]_vars => TypeOK'
<1> SUFFICES ASSUME RouteInv, [Next]_vars PROVE TypeOK'
  OBVIOUS
<1>t. TypeOK /\ FreshCalls /\ SlotsAreHeld'
  BY SlotsAreHeldNext DEF RouteInv
<1>1. ASSUME NEW w \in Workers, WorkerStep(w) PROVE TypeOK'
  <2>1. /\ breaker' \in BreakerRecords /\ drift' \in {"healthy", "paused"}
        /\ lost' \in BOOLEAN /\ restarts' = restarts /\ window' = window
    BY <1>t, <1>1, GuardTypes
  <2>2. call' \in [Workers -> CallRecords]
    BY <1>t, <1>1, CallsFollow
  <2>3. slots' \in [account : 0 .. AccountSlots, host : 0 .. HostSlots]
    <3>1. \A v \in Workers \ {w} : call'[v] = call[v]
      BY <1>t, <1>1, OthersCalls
    <3>2. slots'.account \in Nat /\ slots'.host \in Nat
      BY <1>t, <3>1, HoldersMove DEF SlotsAreHeld
    <3>3. /\ slots' \in [account : Int, host : Int]
          /\ slots'.account <= AccountSlots /\ slots'.host <= HostSlots
      BY <1>t, <1>1, SlotsFollow
    <3>4. AccountSlots \in Nat /\ HostSlots \in Nat
      BY RouteBounds
    <3> QED
      BY <3>2, <3>3, <3>4
  <2>4. /\ budget' \in [Windows -> [requests : Nat, bytes : Nat]]
        /\ sent' \in [Windows -> Nat]
    BY <1>t, <1>1, FundsFlow
    DEF TypeOK, SpendsNothing, SpendsARequest, SpendsAReservation, SpendsBytes
  <2> QED
    BY <1>t, <2>1, <2>2, <2>3, <2>4 DEF TypeOK, BreakerRecords, CallRecords
<1>2. CASE Restart
  <2>b. /\ 0 \in 0 .. RefusedThreshold /\ 0 \in 0 .. AccountSlots
        /\ 0 \in 0 .. HostSlots
    BY RouteBounds
  <2>1. IdleCall \in CallRecords /\ Closed \in BreakerRecords
    BY <2>b, IdleIsACall DEF Closed, BreakerRecords
  <2>2. call' \in [Workers -> CallRecords] /\ breaker' \in BreakerRecords
    BY <1>2, <2>1 DEF Restart
  <2>3. slots' \in [account : 0 .. AccountSlots, host : 0 .. HostSlots]
    BY <1>2, <2>b DEF Restart
  <2>4. restarts' \in 0 .. MaxRestarts
    BY <1>t, <1>2, RouteBounds DEF Restart, TypeOK
  <2> QED
    BY <1>t, <1>2, <2>2, <2>3, <2>4 DEF TypeOK, Restart, CallRecords, BreakerRecords
<1>3. CASE CoolDown
  BY <1>t, <1>3 DEF TypeOK, CoolDown
<1>4. CASE Prune
  BY <1>t, <1>4, RouteBounds DEF TypeOK, Prune
<1>5. CASE NextWindow
  <2>1. window' \in Windows
    BY <1>t, <1>5, RouteBounds DEF TypeOK, NextWindow, Windows
  <2> QED
    BY <1>t, <1>5, <2>1 DEF TypeOK, NextWindow
<1>6. CASE Recover
  BY <1>t, <1>6 DEF TypeOK, Recover
<1>7. CASE UNCHANGED vars
  BY <1>t, <1>7 DEF TypeOK, vars
<1> QED
  BY <1>1, <1>2, <1>3, <1>4, <1>5, <1>6, <1>7 DEF Next, WorkerStep

-----------------------------------------------------------------------------
(***************************************************************************)
(* The budget.                                                             *)
(***************************************************************************)

\* The current window stays funded through a step of a call, and no other
\* window changes.
LEMMA CallIsFunded ==
  ASSUME TypeOK, FreshCalls, BudgetHolds, WindowIsFunded,
         NEW w \in Workers, WorkerStep(w)
  PROVE  BudgetHolds' /\ WindowIsFunded'
<1> DEFINE r == budget[window].requests   r1 == budget'[window].requests
           b == budget[window].bytes      b1 == budget'[window].bytes
<1>t. /\ budget \in [Windows -> [requests : Nat, bytes : Nat]] /\ window \in Windows
      /\ sent \in [Windows -> Nat]
      /\ RequestLimit \in Int /\ ByteLimit \in Int
      /\ r \in Nat /\ b \in Nat /\ sent[window] \in Nat
  BY RouteBounds DEF TypeOK
<1>w. window' = window
  BY GuardTypes
<1>k. \A v \in Workers \ {w} : call'[v] = call[v]
  BY OthersCalls
<1>o. \A n \in Windows \ {window} : budget'[n] = budget[n] /\ sent'[n] = sent[n]
  BY <1>t, FundsFlow
  DEF SpendsNothing, SpendsARequest, SpendsAReservation, SpendsBytes
<1>f. /\ sent[window] + Cardinality(Unsent) <= r + Carried(window)
      /\ b + Cardinality(Unrecorded) < ByteCeiling + Reserving
      /\ r <= RequestCeiling
  BY <1>t DEF WindowIsFunded, BudgetHolds, RequestCeiling
<1>c. Carried(window) \in Nat /\ ByteCeiling \in Nat /\ Reserving \in Nat
  BY <1>t, <1>k, FundsMove DEF Carried, ByteCeiling
<1>1. /\ r1 \in Nat /\ b1 \in Nat /\ sent'[window] \in Nat
      /\ sent'[window] + Cardinality(Unsent') <= r1 + Carried(window)
      /\ b1 + Cardinality(Unrecorded') < ByteCeiling + Reserving
      /\ r1 <= RequestCeiling
  <2>1. CASE SpendsNothing(w)
    <3>1. /\ One(w \in Unsent') <= One(w \in Unsent)
          /\ One(w \in Unrecorded') <= One(w \in Unrecorded)
          /\ One(w \in Unsent) \in Nat /\ One(w \in Unsent') \in Nat
          /\ One(w \in Unrecorded) \in Nat /\ One(w \in Unrecorded') \in Nat
      BY <2>1 DEF SpendsNothing, One
    <3>2. r1 = r /\ b1 = b /\ sent'[window] = sent[window]
      BY <2>1 DEF SpendsNothing
    <3> HIDE DEF r, r1, b, b1
    <3> QED
      BY <1>t, <1>k, <1>f, <1>c, <3>1, <3>2, FundsMove
  <2>2. CASE SpendsARequest(w)
    <3>1. /\ One(w \in Unsent) = 0 /\ One(w \in Unsent') <= 1
          /\ One(w \in Unsent') \in Nat
      BY <2>2 DEF SpendsARequest, One
    <3>2. r1 = r + 1 /\ b1 = b /\ sent'[window] = sent[window]
      BY <1>t, <2>2 DEF SpendsARequest
    <3>3. r + 1 <= RequestCeiling /\ b < ByteCeiling
      BY <1>t, <2>2 DEF SpendsARequest, Headroom, RequestCeiling, ByteCeiling
    <3> HIDE DEF r, r1, b, b1
    <3> QED
      BY <1>t, <1>k, <1>f, <1>c, <3>1, <3>2, <3>3, FundsMove
  <2>3. CASE SpendsAReservation(w)
    <3>1. /\ One(w \in Unsent) = 1 /\ One(w \in Unsent') = 0
          /\ One(w \in Unrecorded) = 1
          /\ One(w \in Unrecorded') <= 1 /\ One(w \in Unrecorded') \in Nat
      BY <2>3 DEF SpendsAReservation, One
    <3>2. r1 = r /\ b1 = b /\ sent'[window] = sent[window] + 1
      BY <1>t, <2>3 DEF SpendsAReservation
    <3> HIDE DEF r, r1, b, b1
    <3> QED
      BY <1>t, <1>k, <1>f, <1>c, <3>1, <3>2, FundsMove
  <2>4. CASE SpendsBytes(w)
    <3>1. /\ One(w \in Unsent') = 0 /\ One(w \in Unsent) \in Nat
          /\ One(w \in Unrecorded) = 1 /\ One(w \in Unrecorded') = 0
      BY <2>4 DEF SpendsBytes, One
    <3>2. r1 = r /\ b1 = b + 1 /\ sent'[window] = sent[window]
      BY <1>t, <2>4 DEF SpendsBytes
    <3> HIDE DEF r, r1, b, b1
    <3> QED
      BY <1>t, <1>k, <1>f, <1>c, <3>1, <3>2, FundsMove
  <2> QED
    BY <2>1, <2>2, <2>3, <2>4, FundsFlow
<1>2. BudgetHolds'
  <2> SUFFICES ASSUME NEW n \in Windows
               PROVE  /\ budget'[n].requests <= RequestCeiling
                      /\ sent'[n] <= budget'[n].requests + Carried(n)
                      /\ budget'[n].bytes < ByteCeiling + Reserving
    BY DEF BudgetHolds, RequestCeiling, Carried, ByteCeiling, Reserving
  <2>1. CASE n = window
    <3>1. Cardinality(Unsent') \in Nat /\ Cardinality(Unrecorded') \in Nat
      BY <1>k, FundsMove
    <3> QED
      BY <1>1, <1>c, <2>1, <3>1
  <2>2. CASE n # window
    BY <1>o, <2>2 DEF BudgetHolds, RequestCeiling, Carried, ByteCeiling
  <2> QED
    BY <2>1, <2>2
<1>3. WindowIsFunded'
  <2>1. \A n \in Windows : n > window => budget'[n] = budget[n] /\ sent'[n] = sent[n]
    BY <1>o, <1>t DEF Windows
  <2> QED
    BY <1>1, <1>w, <2>1 DEF WindowIsFunded, Carried, ByteCeiling, Reserving
<1> QED
  BY <1>2, <1>3

\* The ceilings hold through every step: a window begins empty, with at most
\* one request under way for each sweep.
LEMMA FundsNext == RouteInv /\ [Next]_vars => BudgetHolds' /\ WindowIsFunded'
<1> SUFFICES ASSUME RouteInv, [Next]_vars PROVE BudgetHolds' /\ WindowIsFunded'
  OBVIOUS
<1>n. Windows \subseteq Nat
  BY RouteBounds DEF Windows
<1>t. /\ TypeOK /\ FreshCalls /\ BudgetHolds /\ WindowIsFunded
      /\ window \in Windows /\ window \in Nat /\ sent \in [Windows -> Nat]
      /\ budget \in [Windows -> [requests : Nat, bytes : Nat]]
      /\ budget[window] \in [requests : Nat, bytes : Nat] /\ sent[window] \in Nat
  BY <1>n DEF RouteInv, TypeOK
<1>c. ByteCeiling \in Nat \ {0}
  BY RouteBounds DEF ByteCeiling
<1>u. /\ Reserving \in Nat /\ Cardinality(Unsent) \in Nat /\ Cardinality(Unrecorded) \in Nat
      /\ Cardinality(Unsent) <= Reserving /\ Cardinality(Unrecorded) <= Reserving
  <2>1. Unsent \in SUBSET Workers /\ Unrecorded \in SUBSET Workers
    BY DEF Unsent, Unrecorded
  <2> QED
    BY <2>1, RouteBounds, FS_Subset, FS_CardinalityType DEF Reserving
<1>k. Carried(window) \in Nat
  BY <1>u DEF Carried
<1>1. ASSUME NEW w \in Workers, WorkerStep(w) PROVE BudgetHolds' /\ WindowIsFunded'
  BY <1>t, <1>1, CallIsFunded
<1>2. CASE budget' = budget /\ sent' = sent
  <2>1. BudgetHolds'
    BY <1>t, <1>2 DEF BudgetHolds, Reserving
  <2>2. CASE call' = call /\ window' = window
    BY <1>t, <1>2, <2>1, <2>2 DEF WindowIsFunded, Unsent, Unrecorded, Carried, ByteCeiling,
       Reserving
  <2>3. CASE NextWindow
    <3>1. /\ window' = window + 1 /\ window' \in Windows /\ call' = call
      BY <1>t, <2>3, RouteBounds DEF NextWindow, Windows
    <3>2. /\ sent[window'] = 0 /\ budget[window'].requests = 0 /\ budget[window'].bytes = 0
      BY <1>t, <3>1 DEF WindowIsFunded
    <3>3. Carried(window') = Reserving
      BY <1>t, <3>1 DEF Carried
    <3>4. Unsent' = Unsent /\ Unrecorded' = Unrecorded
      BY <3>1 DEF Unsent, Unrecorded
    <3>5. /\ sent'[window'] + Cardinality(Unsent') <= budget'[window'].requests + Carried(window')
          /\ budget'[window'].bytes + Cardinality(Unrecorded') < ByteCeiling + Reserving
      BY <1>2, <1>u, <1>c, <3>2, <3>3, <3>4
    <3>6. \A n \in Windows : n > window' =>
             sent'[n] = 0 /\ budget'[n].requests = 0 /\ budget'[n].bytes = 0
      BY <1>t, <1>2, <3>1 DEF WindowIsFunded, Windows
    <3> QED
      BY <2>1, <3>5, <3>6 DEF WindowIsFunded, Carried, ByteCeiling, Reserving
  <2>4. CASE Restart
    <3>1. window' = window /\ Cardinality(Unsent') = 0 /\ Cardinality(Unrecorded') = 0
      BY <2>4, RestartDrops DEF Restart
    <3>2. /\ sent[window] + Cardinality(Unsent') <= budget[window].requests + Carried(window)
          /\ budget[window].bytes + Cardinality(Unrecorded') < ByteCeiling + Reserving
      BY <1>t, <1>u, <1>k, <1>c, <3>1 DEF WindowIsFunded
    <3> QED
      BY <1>t, <1>2, <2>1, <3>1, <3>2
      DEF WindowIsFunded, Carried, ByteCeiling, Reserving
  <2> QED
    BY <2>2, <2>3, <2>4, <1>1, OtherSteps DEF NextWindow
<1>3. CASE Restart
  BY <1>2, <1>3 DEF Restart
<1> QED
  BY <1>1, <1>2, <1>3, OtherSteps

-----------------------------------------------------------------------------
(***************************************************************************)
(* The half-open probe.                                                    *)
(***************************************************************************)

\* A step of a call that leaves the breaker half-open either makes that call the
\* probe, or lets no probe end unnoticed.
LEMMA ProbeFollows ==
  ASSUME TypeOK, FreshCalls, HalfOpenIsProbed, NEW w \in Workers, WorkerStep(w)
  PROVE  HalfOpenIsProbed'
<1> SUFFICES ASSUME breaker'.state = "half_open"
             PROVE  lost' \/ \E v \in Workers : call'[v].probe
  BY DEF HalfOpenIsProbed
<1>t. /\ breaker \in BreakerRecords /\ call[w] \in CallRecords
      /\ call \in [Workers -> CallRecords] /\ call[w].signal \in Signals
      /\ lost \in BOOLEAN
  BY DEF TypeOK, BreakerRecords, CallRecords, Signals
<1>o. \A v \in Workers \ {w} : call'[v] = call[v]
  BY OthersCalls
<1>k. ASSUME breaker' = breaker, lost' = lost, call[w].probe => call'[w].probe
      PROVE  lost' \/ \E v \in Workers : call'[v].probe
  <2>1. lost \/ \E v \in Workers : call[v].probe
    BY <1>k DEF HalfOpenIsProbed
  <2>2. CASE lost
    BY <1>k, <2>2
  <2>3. CASE \E v \in Workers : call[v].probe
    <3>1. PICK v \in Workers : call[v].probe
      BY <2>3
    <3>2. call'[v].probe
      BY <1>k, <1>o, <3>1
    <3> QED
      BY <3>2
  <2> QED
    BY <2>1, <2>2, <2>3
<1>a. ASSUME breaker' = AfterAllow, lost' = lost, ~call[w].probe,
             Cooled => call'[w].probe
      PROVE  lost' \/ \E v \in Workers : call'[v].probe
  <2>1. CASE Cooled
    BY <1>a, <2>1
  <2>2. CASE ~Cooled
    BY <1>a, <1>k, <2>2 DEF AfterAllow
  <2> QED
    BY <2>1, <2>2
<1>e. ASSUME breaker' = breaker, Exit(w)
      PROVE  lost' \/ \E v \in Workers : call'[v].probe
  <2>1. lost' = (lost \/ call[w].probe)
    BY <1>e DEF Exit
  <2>2. lost \/ \E v \in Workers : call[v].probe
    BY <1>e DEF HalfOpenIsProbed
  <2>3. CASE lost \/ call[w].probe
    BY <2>1, <2>3
  <2>4. CASE ~lost /\ ~call[w].probe
    <3>1. PICK v \in Workers : call[v].probe
      BY <2>2, <2>4
    <3> QED
      BY <1>o, <2>4, <3>1
  <2> QED
    BY <2>3, <2>4
<1>g. ASSUME NEW s \in Steps, Goto(w, s) PROVE call'[w].probe = call[w].probe
  BY <1>t, <1>g DEF Goto, TypeOK, CallRecords
<1>l. ASSUME Leave(w, "release", call[w].probe) PROVE call'[w].probe = call[w].probe
  BY <1>t, <1>l, LeftRecord DEF CallRecords, Steps
<1>r. \A sig \in Signals : breaker' # Verdict(sig)
  BY BreakerType
<1>1. CASE Gate(w)
  <2>1. ~call[w].probe
    BY <1>1 DEF FreshCalls, Gate, At
  <2>2. Cooled => call'[w].probe
    BY <1>t, <1>1 DEF Gate, Allowed, TypeOK, CallRecords
  <2> QED
    BY <1>1, <1>a, <2>1, <2>2 DEF Gate
<1>2. CASE Backoff(w)
  <2>1. ~call[w].probe
    BY <1>2 DEF FreshCalls, Backoff, At
  <2>2. CASE breaker' = AfterAllow /\ (Cooled => call'[w].probe)
    BY <1>2, <1>a, <2>1, <2>2 DEF Backoff
  <2>3. CASE breaker' = breaker
    BY <1>2, <1>k, <2>1, <2>3 DEF Backoff
  <2>4. \/ breaker' = AfterAllow /\ (Cooled => call'[w].probe)
        \/ breaker' = breaker
    BY <1>2, RetryRecord DEF Backoff
  <2> QED
    BY <2>2, <2>3, <2>4
<1>3. CASE Observe(w) \/ ObserveDrift(w)
  <2>1. "drift" \in Signals
    BY DEF Signals
  <2> QED
    BY <1>t, <1>r, <1>3, <2>1 DEF Observe, ObserveDrift, Report
<1>4. CASE Cancel(w) \/ Release(w)
  BY <1>4, <1>e DEF Cancel, Release
<1>5. CASE Reserve(w)
  <2>1. CASE Exit(w)
    BY <1>5, <1>e, <2>1 DEF Reserve
  <2>2. CASE ~Exit(w)
    <3>1. /\ breaker' = breaker /\ lost' = lost
          /\ \/ Goto(w, "account") \/ Goto(w, "fetch")
             \/ Leave(w, "release", call[w].probe)
      BY <1>5, <2>2 DEF Reserve, Denied
    <3> QED
      BY <1>g, <1>l, <1>k, <3>1 DEF Steps
  <2> QED
    BY <2>1, <2>2
<1>6. CASE Start(w) \/ Slot(w) \/ Parse(w) \/ Ingest(w)
  <2>1. /\ breaker' = breaker /\ lost' = lost
        /\ \E s \in Steps : Goto(w, s)
    BY <1>6 DEF Start, Slot, TakeAccountSlot, TakeHostSlot, Parse, Ingest, Steps
  <2> QED
    BY <1>g, <1>k, <2>1
<1>7. CASE Fetch(w)
  <2>1. call'[w].probe = call[w].probe
    BY <1>t, <1>7 DEF Fetch, TypeOK, CallRecords
  <2> QED
    BY <1>7, <1>k, <2>1 DEF Fetch
<1>8. CASE Consume(w)
  <2>1. call'[w].probe = call[w].probe
    <3>1. CASE Leave(w, "release", call[w].probe)
      BY <1>l, <3>1
    <3>2. CASE ~Leave(w, "release", call[w].probe)
      BY <1>t, <1>8, <3>2 DEF Consume, TypeOK, CallRecords
    <3> QED
      BY <3>1, <3>2
  <2> QED
    BY <1>8, <1>k, <2>1 DEF Consume
<1> QED
  BY <1>1, <1>2, <1>3, <1>4, <1>5, <1>6, <1>7, <1>8 DEF WorkerStep, Proceed

\* The cooldown, the rolling window and a restart leave no breaker half-open.
LEMMA ProbeNext == RouteInv /\ [Next]_vars => HalfOpenIsProbed'
<1> SUFFICES ASSUME RouteInv, [Next]_vars PROVE HalfOpenIsProbed'
  OBVIOUS
<1>t. TypeOK /\ FreshCalls /\ HalfOpenIsProbed /\ breaker \in BreakerRecords
  BY DEF RouteInv, TypeOK, BreakerRecords
<1>1. ASSUME NEW w \in Workers, WorkerStep(w) PROVE HalfOpenIsProbed'
  BY <1>t, <1>1, ProbeFollows
<1>2. CASE CoolDown \/ Prune
  <2>1. breaker'.state = breaker.state /\ call' = call /\ lost' = lost
    BY <1>t, <1>2 DEF CoolDown, Prune, BreakerRecords
  <2> QED
    BY <1>t, <2>1 DEF HalfOpenIsProbed
<1>3. CASE NextWindow \/ Recover \/ UNCHANGED vars
  BY <1>t, <1>3 DEF HalfOpenIsProbed, NextWindow, Recover, vars
<1>4. CASE Restart
  BY <1>4 DEF HalfOpenIsProbed, Restart, Closed
<1> QED
  BY <1>1, <1>2, <1>3, <1>4 DEF Next, WorkerStep

-----------------------------------------------------------------------------
(***************************************************************************)
(* The theorems.                                                           *)
(***************************************************************************)

\* No call, no reservation and no slot at first.
LEMMA RouteInit == Init => RouteInv
<1> SUFFICES ASSUME Init PROVE RouteInv
  OBVIOUS
<1>1. TypeOK
  BY TypeInit
<1>2. \A w \in Workers : call[w] = IdleCall
  BY DEF Init
<1>3. AccountHolders = {} /\ HostHolders = {} /\ Unsent = {} /\ Unrecorded = {}
  BY <1>2 DEF AccountHolders, HostHolders, HoldsAccount, HoldsHost, At, SlottedSteps,
     Unsent, Unrecorded, IdleCall
<1>4. Cardinality({}) = 0 /\ Reserving \in Nat
  BY RouteBounds, FS_EmptySet, FS_CardinalityType DEF Reserving
<1>5. SlotsAreHeld
  BY <1>3, <1>4 DEF SlotsAreHeld, Init
<1>6. FreshCalls
  BY <1>2 DEF FreshCalls, IdleCall, At
<1>7. \A n \in Windows : sent[n] = 0 /\ budget[n].requests = 0 /\ budget[n].bytes = 0
  BY DEF Init
<1>8. window = 0 /\ 0 \in Windows
  BY RouteBounds DEF Init, Windows
<1>9. /\ RequestCeiling \in Nat /\ ByteCeiling \in Nat \ {0}
  BY RouteBounds DEF RequestCeiling, ByteCeiling
<1>10. BudgetHolds
  BY <1>4, <1>7, <1>9 DEF BudgetHolds, RequestCeiling, ByteCeiling
<1>11. WindowIsFunded
  BY <1>3, <1>4, <1>7, <1>8, <1>9 DEF WindowIsFunded, Carried
<1>12. HalfOpenIsProbed
  BY DEF HalfOpenIsProbed, Init, Closed
<1> QED
  BY <1>1, <1>5, <1>6, <1>10, <1>11, <1>12 DEF RouteInv

LEMMA RouteNext == RouteInv /\ [Next]_vars => RouteInv'
BY TypeNext, SlotsAreHeldNext, FreshCallsNext, FundsNext, ProbeNext DEF RouteInv

LEMMA RouteInvariant == Spec => []RouteInv
BY RouteInit, RouteNext, PTL DEF Spec

\* The limiter is never given back a slot it had not lent and never lends one
\* beyond the limit, whatever was cancelled, denied, retried or restarted:
\* slots stays in its domain, with the rest of the state.
THEOREM RouteTypeCorrect == Spec => []TypeOK
BY RouteInvariant, PTL DEF RouteInv

\* The limiter counts exactly the calls that still have a slot to give back
\* (Acquire and its release in ObserveTarget).
THEOREM SlotsAreExact == Spec => []SlotsAreHeld
BY RouteInvariant, PTL DEF RouteInv

\* The request and byte ceilings of ReserveRequestBudget hold for all sweeps
\* together, over retries, lost answers and restarts.
THEOREM BudgetIsKept == Spec => []BudgetHolds
BY RouteInvariant, PTL DEF RouteInv

\* A half-open breaker has its probe under way, or lost it without a verdict.
THEOREM ProbeIsKnown == Spec => []HalfOpenIsProbed
BY RouteInvariant, PTL DEF RouteInv
=============================================================================
