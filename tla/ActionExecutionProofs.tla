----------------------- MODULE ActionExecutionProofs -----------------------
(***************************************************************************)
(* Proofs about ActionExecution, for any number of cards, actions, callers *)
(* and crashes.                                                            *)
(***************************************************************************)
EXTENDS ActionExecution, TLAPS

-----------------------------------------------------------------------------
(***************************************************************************)
(* Type correctness.                                                       *)
(***************************************************************************)

\* A finished call leaves well-typed locals.
LEMMA IdleType == \A c \in Cards : Idle(c) \in Locals
  BY DEF Idle, Locals, Steps, States, ExternalStates

\* Ending a call keeps locals and attempts in their domains.
LEMMA ReturnType ==
  ASSUME TypeOK, NEW w \in Callers, Return(w) \/ ReturnError(w) \/ Snooze(w)
  PROVE  run' \in [Callers -> Locals] /\ attempts' \in [Cards -> 0 .. MaxAttempts]
<1>1. run[w].card \in Cards
  BY DEF TypeOK, Locals
<1>2. run' \in [Callers -> Locals]
  BY <1>1, IdleType DEF TypeOK, Return, ReturnError, Snooze
<1>3. attempts' \in [Cards -> 0 .. MaxAttempts]
  BY <1>1, BoundsAssumption DEF TypeOK, Return, ReturnError, Snooze, SpendAttempt
<1> QED
  BY <1>2, <1>3

\* Moving to another step keeps them there as well.
LEMMA GotoType ==
  ASSUME TypeOK, NEW w \in Callers, NEW s \in Steps, Goto(w, s)
  PROVE  run' \in [Callers -> Locals] /\ attempts' \in [Cards -> 0 .. MaxAttempts]
  BY DEF TypeOK, Goto, Locals

\* An audit event built from a card, a type and a state is an audit record.
LEMMA EntryType ==
  ASSUME NEW c \in Cards, NEW t \in AuditTypes,
         NEW s \in {""} \cup ExternalStates \cup RecommendOnlyStates
  PROVE  Entry(c, t, s) \in AuditRecords
  BY DEF Entry, AuditRecords

\* Inserting a row keeps the records well typed.
LEMMA RowType ==
  ASSUME TypeOK, NEW c \in Cards, NEW a \in Actions, NEW b \in BOOLEAN
  PROVE  /\ Row(c, b) \in ExecRows
         /\ [exec EXCEPT ![a] = Row(c, b)] \in [Actions -> ExecRows]
<1>1. Row(c, b) \in ExecRows
  BY DEF Row, ExecRows, ExternalStates
<1> QED
  BY <1>1 DEF TypeOK

\* The safety notification of a card is a well-typed intent.
LEMMA SafetyFailureType ==
  ASSUME TypeOK, NEW c \in Cards, SafetyFailure(c)
  PROVE  notified' \subseteq {"execution_failure", "safety_failure"} \X Cards
  BY DEF TypeOK, SafetyFailure

\* Initially every variable is in its domain.
LEMMA TypeInit == Init => TypeOK
<1> SUFFICES ASSUME Init PROVE TypeOK
  OBVIOUS
<1>1. trail \subseteq AuditRecords
  BY EntryType DEF Init, AuditTypes
<1>2. run \in [Callers -> Locals]
  <2>1. {Idle(c) : c \in Cards} \subseteq Locals
    BY IdleType
  <2> QED
    BY <2>1 DEF Init
<1>3. attempts \in [Cards -> 0 .. MaxAttempts]
      /\ failures \in [count : 0 .. MaxFailures, orphaned : SUBSET Cards]
  <2>1. MaxAttempts \in 0 .. MaxAttempts /\ 0 \in 0 .. MaxFailures
    BY BoundsAssumption
  <2> QED
    BY <2>1 DEF Init
<1> QED
  BY <1>1, <1>2, <1>3 DEF Init, TypeOK, States, ExecRows, TrackRows

\* Advancing a card to a state of the machine keeps the cards typed.
LEMMA AdvanceType ==
  ASSUME TypeOK, NEW c \in Cards, NEW s \in States, Advance(c, s)
  PROVE  card' \in [Cards -> States]
  BY DEF TypeOK, Advance

\* Storing a result in a caller's locals keeps them typed.
LEMMA LocalUpdateType ==
  ASSUME TypeOK, NEW w \in Callers, NEW e \in ExternalStates
  PROVE  /\ [run EXCEPT ![w].pc = "commit", ![w].ext = e] \in [Callers -> Locals]
         /\ [run EXCEPT ![w].pc = "commit", ![w].ext = e, ![w].wrote = TRUE]
               \in [Callers -> Locals]
<1>1. run[w] \in Locals /\ "commit" \in Steps
  BY DEF TypeOK, Steps
<1>2. /\ [run[w] EXCEPT !.pc = "commit", !.ext = e] \in Locals
      /\ [run[w] EXCEPT !.pc = "commit", !.ext = e, !.wrote = TRUE] \in Locals
  BY <1>1 DEF Locals
<1> QED
  BY <1>2 DEF TypeOK

\* A caller's locals have their declared types.
LEMMA LocalsType ==
  ASSUME TypeOK, NEW w \in Callers
  PROVE  /\ run[w].card \in Cards /\ run[w].seen \in States
         /\ run[w].ok \in BOOLEAN /\ run[w].ext \in ExternalStates
         /\ run[w].wrote \in BOOLEAN /\ ActionOf[run[w].card] \in Actions
  BY ActionOfAssumption DEF TypeOK, Locals

\* Settling a record keeps the records typed, and it stays a record.
LEMMA RecordResultType ==
  ASSUME TypeOK, NEW a \in Actions, exec[a] # NoRow, NEW e \in ExternalStates
  PROVE  /\ RecordResult(a, e) \in [Actions -> ExecRows]
         /\ \A b \in Actions : b # a => RecordResult(a, e)[b] = exec[b]
         /\ RecordResult(a, e)[a] # NoRow
         /\ RecordResult(a, e)[a].card = exec[a].card
         /\ RecordResult(a, e)[a].gateBlocked = exec[a].gateBlocked
         /\ RecordResult(a, e)[a].ext \in {exec[a].ext, e}
         /\ exec[a].ext # "pending_reconciliation" => RecordResult(a, e) = exec
  BY DEF TypeOK, RecordResult, ExecRows, NoRow, ExternalStates
\* Every step keeps every variable in its domain.
LEMMA TypeNext == IInv /\ [Next]_vars => TypeOK'
<1> SUFFICES ASSUME IInv, [Next]_vars PROVE TypeOK'
  OBVIOUS
<1>t. TypeOK
  BY DEF IInv
<1>1. ASSUME NEW w \in Callers, NEW c \in Cards, Execute(w, c) PROVE TypeOK'
  <2>1. run' \in [Callers -> Locals]
    BY <1>t, <1>1 DEF TypeOK, Execute, Locals, Idle, Steps, States, ExternalStates
  <2> QED
    BY <1>t, <1>1, <2>1 DEF TypeOK, Execute, dbVars, extVars
<1>2. ASSUME NEW w \in Callers, LookupExecution(w) PROVE TypeOK'
  <2>1. run' \in [Callers -> Locals] /\ attempts' \in [Cards -> 0 .. MaxAttempts]
    BY <1>t, <1>2, ReturnType, GotoType DEF LookupExecution, Steps
  <2> QED
    BY <1>t, <1>2, <2>1 DEF TypeOK, LookupExecution, dbVars, extVars
<1>3. ASSUME NEW w \in Callers, ReplayWrite(w) PROVE TypeOK'
  <2>1. run' \in [Callers -> Locals] /\ attempts' \in [Cards -> 0 .. MaxAttempts]
    BY <1>t, <1>3, ReturnType DEF ReplayWrite
  <2>2. card' \in [Cards -> States]
    BY <1>t, <1>3, AdvanceType, LocalsType DEF ReplayWrite, TypeOK, States
  <2>3. trail' \subseteq AuditRecords
    <3>1. Entry(run[w].card, "external_result", "pending_reconciliation") \in AuditRecords
      BY <1>t, EntryType, LocalsType DEF AuditTypes, ExternalStates
    <3> QED
      BY <1>t, <1>3, <3>1 DEF ReplayWrite, TypeOK
  <2> QED
    BY <1>t, <1>3, <2>1, <2>2, <2>3 DEF TypeOK, ReplayWrite, extVars
<1>4. ASSUME NEW w \in Callers, LookupRecommendOnly(w) PROVE TypeOK'
  <2>1. run' \in [Callers -> Locals] /\ attempts' \in [Cards -> 0 .. MaxAttempts]
    BY <1>t, <1>4, ReturnType, GotoType DEF LookupRecommendOnly, Steps
  <2> QED
    BY <1>t, <1>4, <2>1 DEF TypeOK, LookupRecommendOnly, dbVars, extVars
<1>5. ASSUME NEW w \in Callers, Resolve(w) PROVE TypeOK'
  <2>1. run' \in [Callers -> Locals] /\ attempts' \in [Cards -> 0 .. MaxAttempts]
    <3>1. CASE Snooze(w) \/ ReturnError(w)
      BY <1>t, <3>1, ReturnType
    <3>2. CASE ~(Snooze(w) \/ ReturnError(w))
      <4>1. AfterResolve(run[w].seen, mode = "write", gates[run[w].card]) \in Steps
        BY DEF AfterResolve, Steps
      <4>2. gates[run[w].card] \in BOOLEAN
        BY <1>t, LocalsType DEF TypeOK
      <4> QED
        BY <1>t, <1>5, <3>2, <4>1, <4>2 DEF Resolve, TypeOK, Locals
    <3> QED
      BY <3>1, <3>2
  <2> QED
    BY <1>t, <1>5, <2>1 DEF TypeOK, Resolve, dbVars, extVars
<1>6. ASSUME NEW w \in Callers, BeginRevalidation(w) PROVE TypeOK'
  <2>1. run' \in [Callers -> Locals] /\ attempts' \in [Cards -> 0 .. MaxAttempts]
    BY <1>t, <1>6, ReturnType, GotoType DEF BeginRevalidation, Steps
  <2>2. card' \in [Cards -> States]
    BY <1>t, <1>6, AdvanceType, LocalsType DEF BeginRevalidation, TypeOK, States
  <2> QED
    BY <1>t, <1>6, <2>1, <2>2 DEF TypeOK, BeginRevalidation, extVars
<1>7. ASSUME NEW w \in Callers, GateBoundary(w) PROVE TypeOK'
  <2>1. run' \in [Callers -> Locals] /\ attempts' \in [Cards -> 0 .. MaxAttempts]
    BY <1>t, <1>7, ReturnType, GotoType DEF GateBoundary, Steps
  <2>2. card' \in [Cards -> States]
    BY <1>t, <1>7, AdvanceType, LocalsType DEF GateBoundary, TypeOK, States
  <2>3. trail' \subseteq AuditRecords
    <3>1. /\ Entry(run[w].card, "execution_started", "") \in AuditRecords
          /\ Entry(run[w].card, "revalidation_blocked", "") \in AuditRecords
      BY <1>t, EntryType, LocalsType DEF AuditTypes
    <3>2. CASE run[w].ok
      BY <1>t, <1>7, <3>1, <3>2 DEF GateBoundary, TypeOK
    <3>3. CASE ~run[w].ok
      BY <1>t, <1>7, <3>1, <3>3 DEF GateBoundary, TypeOK
    <3> QED
      BY <3>2, <3>3
  <2>4. notified' \subseteq {"execution_failure", "safety_failure"} \X Cards
    <3>1. SafetyFailure(run[w].card) \/ notified' = notified
      BY <1>7 DEF GateBoundary
    <3> QED
      BY <1>t, <3>1, LocalsType, SafetyFailureType DEF TypeOK
  <2> QED
    BY <1>t, <1>7, <2>1, <2>2, <2>3, <2>4 DEF TypeOK, GateBoundary, extVars
<1>8. ASSUME NEW w \in Callers, ParkGateBlocked(w) PROVE TypeOK'
  <2>1. run' \in [Callers -> Locals] /\ attempts' \in [Cards -> 0 .. MaxAttempts]
    BY <1>t, <1>8, ReturnType DEF ParkGateBlocked
  <2>2. card' \in [Cards -> States]
    BY <1>t, <1>8, AdvanceType, LocalsType DEF ParkGateBlocked, dbVars, TypeOK, States
  <2>3. trail' \subseteq AuditRecords
    <3>1. Entry(run[w].card, "revalidation_blocked", "pending_reconciliation") \in AuditRecords
      BY <1>t, EntryType, LocalsType DEF AuditTypes, ExternalStates
    <3> QED
      BY <1>t, <1>8, <3>1 DEF ParkGateBlocked, dbVars, TypeOK
  <2>4. notified' \subseteq {"execution_failure", "safety_failure"} \X Cards
    <3>1. SafetyFailure(run[w].card) \/ notified' = notified
      BY <1>8 DEF ParkGateBlocked, dbVars
    <3> QED
      BY <1>t, <3>1, LocalsType, SafetyFailureType DEF TypeOK
  <2>5. exec' \in [Actions -> ExecRows]
    <3>1. \/ exec' = exec
          \/ exec' = [exec EXCEPT ![ActionOf[run[w].card]] = Row(run[w].card, TRUE)]
      BY <1>8 DEF ParkGateBlocked, dbVars
    <3>2. [exec EXCEPT ![ActionOf[run[w].card]] = Row(run[w].card, TRUE)]
            \in [Actions -> ExecRows]
      <4>1. run[w].card \in Cards /\ ActionOf[run[w].card] \in Actions
        BY <1>t, LocalsType
      <4> QED
        BY <1>t, <4>1, RowType
    <3> QED
      BY <1>t, <3>1, <3>2 DEF TypeOK
  <2>6. ro' \in [Actions -> TrackRows] /\ window' \subseteq Actions
    BY <1>t, <1>8 DEF ParkGateBlocked, dbVars, TypeOK
  <2> QED
    BY <1>t, <1>8, <2>1, <2>2, <2>3, <2>4, <2>5, <2>6
    DEF TypeOK, ParkGateBlocked, extVars
<1>9. ASSUME NEW w \in Callers, RecordRecommendOnly(w) PROVE TypeOK'
  <2>1. run' \in [Callers -> Locals] /\ attempts' \in [Cards -> 0 .. MaxAttempts]
    BY <1>t, <1>9, ReturnType DEF RecordRecommendOnly
  <2>2. ro' \in [Actions -> TrackRows]
    BY <1>t, <1>9, LocalsType
    DEF RecordRecommendOnly, TypeOK, TrackRows, RecommendOnlyStates
  <2>3. trail' \subseteq AuditRecords
    <3>1. Entry(run[w].card, "recommend_only", "awaiting_external_execution") \in AuditRecords
      BY <1>t, EntryType, LocalsType DEF AuditTypes, RecommendOnlyStates
    <3> QED
      BY <1>t, <1>9, <3>1 DEF RecordRecommendOnly, TypeOK
  <2> QED
    BY <1>t, <1>9, <2>1, <2>2, <2>3 DEF TypeOK, RecordRecommendOnly, extVars
<1>10. ASSUME NEW w \in Callers, Claim(w) PROVE TypeOK'
  <2>1. exec' \in [Actions -> ExecRows]
    <3>1. \/ exec' = exec
          \/ exec' = [exec EXCEPT ![ActionOf[run[w].card]] = Row(run[w].card, FALSE)]
      BY <1>10 DEF Claim
    <3>2. [exec EXCEPT ![ActionOf[run[w].card]] = Row(run[w].card, FALSE)]
            \in [Actions -> ExecRows]
      <4>1. run[w].card \in Cards /\ ActionOf[run[w].card] \in Actions
        BY <1>t, LocalsType
      <4> QED
        BY <1>t, <4>1, RowType
    <3> QED
      BY <1>t, <3>1, <3>2 DEF TypeOK
  <2>2. run' \in [Callers -> Locals] /\ attempts' \in [Cards -> 0 .. MaxAttempts]
    <3>1. CASE Goto(w, "send") \/ ReturnError(w)
      BY <1>t, <3>1, ReturnType, GotoType DEF Steps
    <3>2. CASE ~(Goto(w, "send") \/ ReturnError(w))
      <4>1. /\ exec[ActionOf[run[w].card]].ext \in ExternalStates
            /\ run' = [run EXCEPT ![w].pc = "commit",
                                  ![w].ext = exec[ActionOf[run[w].card]].ext]
            /\ attempts' = attempts
        BY <1>t, <1>10, <3>2, LocalsType DEF Claim, Taken, TypeOK, ExecRows
      <4> QED
        BY <1>t, <4>1, LocalUpdateType DEF TypeOK, Steps
    <3> QED
      BY <3>1, <3>2
  <2> QED
    BY <1>t, <1>10, <2>1, <2>2 DEF TypeOK, Claim, extVars
<1>11. ASSUME NEW w \in Callers, WritePrice(w) PROVE TypeOK'
  <2>1. PICK e \in Classified : WritePrice(w)!2!(e)
    BY <1>11 DEF WritePrice
  <2>2. run' \in [Callers -> Locals]
    BY <1>t, <2>1, LocalUpdateType DEF Classified
  <2>3. writes' \in [Cards -> Nat] /\ answer' \in [Cards -> {"none"} \cup ExternalStates]
    BY <1>t, <2>1, LocalsType DEF TypeOK, Classified
  <2> QED
    BY <1>t, <1>11, <2>2, <2>3 DEF TypeOK, WritePrice, dbVars
<1>12. ASSUME NEW w \in Callers, CommitWriteResult(w) PROVE TypeOK'
  <2>1. run' \in [Callers -> Locals] /\ attempts' \in [Cards -> 0 .. MaxAttempts]
    BY <1>t, <1>12, ReturnType DEF CommitWriteResult
  <2>2. exec[ActionOf[run[w].card]] # NoRow
    BY <1>12 DEF IInv, SenderOwnsClaim, HoldsRow, CommitWriteResult
  <2>3. exec' \in [Actions -> ExecRows]
    BY <1>t, <1>12, <2>2, RecordResultType, LocalsType DEF CommitWriteResult, TypeOK
  <2>4. CardStateFor(run[w].ext) \in States
    BY DEF CardStateFor, States
  <2>5. card' \in [Cards -> States]
    BY <1>t, <1>12, <2>4, AdvanceType, LocalsType DEF CommitWriteResult, TypeOK
  <2>6. trail' \subseteq AuditRecords
    <3>1. /\ Entry(run[w].card, "external_result", run[w].ext) \in AuditRecords
          /\ Entry(run[w].card, "terminal", run[w].ext) \in AuditRecords
      BY <1>t, EntryType, LocalsType DEF AuditTypes
    <3> QED
      BY <1>t, <1>12, <3>1 DEF CommitWriteResult, TypeOK
  <2>7. window' \subseteq Actions
    BY <1>t, <1>12, LocalsType DEF CommitWriteResult, TypeOK, OpenOutcomeWindow
  <2>8. notified' \subseteq {"execution_failure", "safety_failure"} \X Cards
    BY <1>t, <1>12, LocalsType DEF CommitWriteResult, TypeOK
  <2> QED
    BY <1>t, <1>12, <2>1, <2>3, <2>5, <2>6, <2>7, <2>8
    DEF TypeOK, CommitWriteResult, extVars
<1>13. ASSUME NEW w \in Callers, Crash(w) PROVE TypeOK'
  <2>1. run' \in [Callers -> Locals] /\ attempts' \in [Cards -> 0 .. MaxAttempts]
    BY <1>t, <1>13, ReturnType DEF Crash
  <2>2. failures' \in [count : 0 .. MaxFailures, orphaned : SUBSET Cards]
    <3>1. run[w].card \in Cards \/ Orphaned(w) = {}
      BY <1>t, LocalsType DEF TypeOK, Orphaned
    <3>2. Orphaned(w) \in SUBSET Cards
      BY <3>1 DEF Orphaned
    <3> QED
      BY <1>t, <1>13, <3>2, BoundsAssumption DEF TypeOK, Crash
  <2> QED
    BY <1>t, <1>13, <2>1, <2>2 DEF TypeOK, Crash, dbVars, extVars
<1>14. ASSUME NEW a \in Actions, NEW r \in {"accepted", "failed"}, ReconcileRead(a, r)
       PROVE  TypeOK'
  BY <1>t, <1>14 DEF TypeOK, ReconcileRead, dbVars, extVars
<1>15. ASSUME NEW a \in Actions, NEW r \in {"accepted", "failed"}, ReconcileCommit(a, r)
       PROVE  TypeOK'
  <2>1. exec[a] # NoRow /\ exec[a].card \in Cards /\ r \in ExternalStates /\ r \in States
    BY <1>t, <1>15 DEF IInv, ReconHasRow, ReconcileCommit, TypeOK, ExecRows,
       ExternalStates, States
  <2>2. exec' \in [Actions -> ExecRows]
    BY <1>t, <1>15, <2>1, RecordResultType DEF ReconcileCommit, TypeOK
  <2>3. card' \in [Cards -> States]
    BY <1>t, <1>15, <2>1, AdvanceType DEF ReconcileCommit, TypeOK
  <2>4. trail' \subseteq AuditRecords
    <3>1. /\ Entry(exec[a].card, "reconciliation", r) \in AuditRecords
          /\ Entry(exec[a].card, "terminal", r) \in AuditRecords
      BY <2>1, EntryType DEF AuditTypes
    <3> QED
      BY <1>t, <1>15, <3>1 DEF ReconcileCommit, TypeOK
  <2>5. window' \subseteq Actions
    BY <1>t, <1>15 DEF ReconcileCommit, TypeOK, OpenOutcomeWindow
  <2> QED
    BY <1>t, <1>15, <2>2, <2>3, <2>4, <2>5 DEF TypeOK, ReconcileCommit, extVars
<1>16. ASSUME ExpireDependentList PROVE TypeOK'
  BY <1>t, <1>16 DEF TypeOK, ExpireDependentList, LiveStates, States, dbVars, extVars
<1>17. ASSUME NEW c \in Cards, NEW from \in LiveStates, InvalidateDependent(c, from)
       PROVE  TypeOK'
  <2>1. card' \in [Cards -> States]
    BY <1>t, <1>17, AdvanceType DEF InvalidateDependent, TypeOK, States
  <2> QED
    BY <1>t, <1>17, <2>1 DEF TypeOK, InvalidateDependent, extVars
<1>18. ASSUME NEW a \in Actions, NEW to \in {"externally_executed", "lapsed"},
              MatchRecommendOnly(a, to)
       PROVE  TypeOK'
  <2>1. ro[a].card \in Cards /\ to \in RecommendOnlyStates
    BY <1>t, <1>18 DEF MatchRecommendOnly, TypeOK, TrackRows, NotTracked, RecommendOnlyStates
  <2>2. ro' \in [Actions -> TrackRows]
    BY <1>t, <1>18, <2>1 DEF MatchRecommendOnly, TypeOK, TrackRows, NotTracked
  <2>3. trail' \subseteq AuditRecords
    BY <1>t, <1>18, <2>1, EntryType DEF MatchRecommendOnly, TypeOK, AuditTypes
  <2>4. window' \subseteq Actions
    BY <1>t, <1>18 DEF MatchRecommendOnly, TypeOK, OpenOutcomeWindow
  <2> QED
    BY <1>t, <1>18, <2>2, <2>3, <2>4 DEF TypeOK, MatchRecommendOnly, extVars
<1>19. ASSUME SignalsChange PROVE TypeOK'
  BY <1>t, <1>19 DEF TypeOK, SignalsChange, dbVars
<1>20. ASSUME UNCHANGED vars PROVE TypeOK'
  BY <1>t, <1>20 DEF TypeOK, vars
<1> QED
  BY <1>1, <1>2, <1>3, <1>4, <1>5, <1>6, <1>7, <1>8, <1>9, <1>10, <1>11, <1>12,
     <1>13, <1>14, <1>15, <1>16, <1>17, <1>18, <1>19, <1>20 DEF Next, CallerStep

-----------------------------------------------------------------------------
(***************************************************************************)
(* Which steps touch which variable.                                       *)
(***************************************************************************)

\* Only a claim, a marker, a result or a reconciliation touches a record.
LEMMA ExecSteps ==
  ASSUME [Next]_vars
  PROVE  \/ exec' = exec
         \/ \E w \in Callers : ParkGateBlocked(w) \/ Claim(w) \/ CommitWriteResult(w)
         \/ \E a \in Actions, r \in {"accepted", "failed"} : ReconcileCommit(a, r)
  BY DEF Next, CallerStep, vars, dbVars, extVars, Execute, LookupExecution,
     ReplayWrite, LookupRecommendOnly, Resolve, BeginRevalidation, GateBoundary,
     RecordRecommendOnly, WritePrice, Crash, ReconcileRead, ExpireDependentList,
     InvalidateDependent, MatchRecommendOnly, SignalsChange

\* Only the price write of a caller reaches the marketplace.
LEMMA WritesSteps ==
  ASSUME [Next]_vars
  PROVE  writes' = writes \/ \E w \in Callers : WritePrice(w)
  BY DEF Next, CallerStep, vars, dbVars, extVars, Execute, LookupExecution,
     ReplayWrite, LookupRecommendOnly, Resolve, BeginRevalidation, GateBoundary,
     ParkGateBlocked, RecordRecommendOnly, Claim, CommitWriteResult, Crash,
     ReconcileRead, ReconcileCommit, ExpireDependentList, InvalidateDependent,
     MatchRecommendOnly, SignalsChange

\* Only these transactions move a card.
LEMMA CardSteps ==
  ASSUME [Next]_vars
  PROVE  \/ card' = card
         \/ \E w \in Callers :
               \/ ReplayWrite(w) \/ BeginRevalidation(w) \/ GateBoundary(w)
               \/ ParkGateBlocked(w) \/ CommitWriteResult(w)
         \/ \E a \in Actions, r \in {"accepted", "failed"} : ReconcileCommit(a, r)
         \/ \E c \in Cards, from \in LiveStates : InvalidateDependent(c, from)
  BY DEF Next, CallerStep, vars, dbVars, extVars, Execute, LookupExecution,
     LookupRecommendOnly, Resolve, RecordRecommendOnly, Claim, WritePrice, Crash,
     ReconcileRead, ExpireDependentList, MatchRecommendOnly, SignalsChange

\* Only its first read starts a reconciliation.
LEMMA ReconSteps ==
  ASSUME [Next]_vars
  PROVE  \/ recon' \subseteq recon
         \/ \E a \in Actions, r \in {"accepted", "failed"} : ReconcileRead(a, r)
  BY DEF Next, CallerStep, vars, dbVars, extVars, Execute, LookupExecution,
     ReplayWrite, LookupRecommendOnly, Resolve, BeginRevalidation, GateBoundary,
     ParkGateBlocked, RecordRecommendOnly, Claim, WritePrice, CommitWriteResult,
     Crash, ReconcileCommit, ExpireDependentList, InvalidateDependent,
     MatchRecommendOnly, SignalsChange

\* A step of one caller leaves the locals of every other one alone.
LEMMA OthersLocals ==
  ASSUME TypeOK, NEW v \in Callers, NEW w \in Callers, v # w,
         (\E c \in Cards : Execute(v, c)) \/ CallerStep(v) \/ Crash(v)
  PROVE  run'[w] = run[w]
  BY DEF TypeOK, CallerStep, Execute, LookupExecution, ReplayWrite,
     LookupRecommendOnly, Resolve, BeginRevalidation, GateBoundary,
     ParkGateBlocked, RecordRecommendOnly, Claim, WritePrice, CommitWriteResult,
     Crash, Return, ReturnError, Snooze, Goto

\* So a caller's locals change only by its own steps.
LEMMA LocalSteps ==
  ASSUME TypeOK, [Next]_vars, NEW w \in Callers
  PROVE  \/ run'[w] = run[w]
         \/ \E c \in Cards : Execute(w, c)
         \/ CallerStep(w)
         \/ Crash(w)
<1>1. ASSUME NEW v \in Callers, v # w,
             (\E c \in Cards : Execute(v, c)) \/ CallerStep(v) \/ Crash(v)
      PROVE  run'[w] = run[w]
  BY <1>1, OthersLocals
<1>2. \/ run' = run
      \/ \E v \in Callers :
            (\E c \in Cards : Execute(v, c)) \/ CallerStep(v) \/ Crash(v)
  BY DEF Next, vars, ReconcileRead, ReconcileCommit, ExpireDependentList,
     InvalidateDependent, MatchRecommendOnly, SignalsChange
<1> QED
  BY <1>1, <1>2

\* The audit trail is append-only.
LEMMA TrailGrows ==
  ASSUME [Next]_vars
  PROVE  trail \subseteq trail'
  BY DEF Next, CallerStep, vars, dbVars, extVars, Execute, LookupExecution,
     ReplayWrite, LookupRecommendOnly, Resolve, BeginRevalidation, GateBoundary,
     ParkGateBlocked, RecordRecommendOnly, Claim, WritePrice, CommitWriteResult,
     Crash, ReconcileRead, ReconcileCommit, ExpireDependentList,
     InvalidateDependent, MatchRecommendOnly, SignalsChange

-----------------------------------------------------------------------------
(***************************************************************************)
(* What never goes back: a record, a write, a card past revalidation.      *)
(***************************************************************************)

\* A record is never deleted, re-bound or changed after it settled.
LEMMA RowStable ==
  ASSUME IInv, [Next]_vars, NEW a \in Actions, exec[a] # NoRow
  PROVE  /\ exec'[a] # NoRow
         /\ exec'[a].card = exec[a].card
         /\ exec'[a].gateBlocked = exec[a].gateBlocked
         /\ exec[a].ext # "pending_reconciliation" => exec'[a] = exec[a]
<1>t. TypeOK
  BY DEF IInv
<1>1. CASE exec' = exec
  BY <1>1
<1>2. ASSUME NEW w \in Callers, ParkGateBlocked(w)
      PROVE  exec'[a] = exec[a]
  BY <1>t, <1>2, LocalsType DEF ParkGateBlocked, dbVars, Taken, TypeOK
<1>3. ASSUME NEW w \in Callers, Claim(w)
      PROVE  exec'[a] = exec[a]
  BY <1>t, <1>3, LocalsType DEF Claim, Taken, TypeOK
<1>4. ASSUME NEW w \in Callers, CommitWriteResult(w)
      PROVE  /\ exec'[a] # NoRow
             /\ exec'[a].card = exec[a].card
             /\ exec'[a].gateBlocked = exec[a].gateBlocked
             /\ exec[a].ext # "pending_reconciliation" => exec'[a] = exec[a]
  <2>1. \/ exec' = exec
        \/ exec' = RecordResult(ActionOf[run[w].card], run[w].ext)
    BY <1>4 DEF CommitWriteResult
  <2>2. exec[ActionOf[run[w].card]] # NoRow
    BY <1>4 DEF IInv, SenderOwnsClaim, HoldsRow, CommitWriteResult
  <2>3. ActionOf[run[w].card] \in Actions /\ run[w].ext \in ExternalStates
    BY <1>t, LocalsType
  <2> QED
    BY <1>t, <2>1, <2>2, <2>3, RecordResultType
<1>5. ASSUME NEW b \in Actions, NEW r \in {"accepted", "failed"}, ReconcileCommit(b, r)
      PROVE  /\ exec'[a] # NoRow
             /\ exec'[a].card = exec[a].card
             /\ exec'[a].gateBlocked = exec[a].gateBlocked
             /\ exec[a].ext # "pending_reconciliation" => exec'[a] = exec[a]
  <2>1. exec' = exec \/ exec' = RecordResult(b, r)
    BY <1>5 DEF ReconcileCommit
  <2>2. exec[b] # NoRow /\ r \in ExternalStates
    BY <1>5 DEF IInv, ReconHasRow, ReconcileCommit, ExternalStates
  <2> QED
    BY <1>t, <2>1, <2>2, RecordResultType
<1> QED
  BY <1>1, <1>2, <1>3, <1>4, <1>5, ExecSteps

\* So a card that owns the record of its action keeps it.
LEMMA HoldsRowStable ==
  ASSUME IInv, [Next]_vars, NEW c \in Cards, HoldsRow(c)
  PROVE  HoldsRow(c)' /\ exec'[ActionOf[c]].gateBlocked = exec[ActionOf[c]].gateBlocked
<1>1. ActionOf[c] \in Actions
  BY ActionOfAssumption
<1> QED
  BY <1>1, RowStable DEF HoldsRow

\* A card at or past Executing stays there.
LEMMA PastStable ==
  ASSUME IInv, [Next]_vars, NEW c \in Cards, PastRevalidation(card[c])
  PROVE  PastRevalidation(card'[c])
<1>t. TypeOK
  BY DEF IInv
<1>1. ASSUME NEW w \in Callers,
             \/ ReplayWrite(w) \/ BeginRevalidation(w) \/ GateBoundary(w)
             \/ ParkGateBlocked(w) \/ CommitWriteResult(w)
      PROVE  PastRevalidation(card'[c])
  BY <1>t, <1>1, LocalsType
  DEF TypeOK, ReplayWrite, BeginRevalidation, GateBoundary, ParkGateBlocked,
      CommitWriteResult, dbVars, MayAdvance, Advance, PastRevalidation, CardStateFor
<1>2. ASSUME NEW a \in Actions, NEW r \in {"accepted", "failed"}, ReconcileCommit(a, r)
      PROVE  PastRevalidation(card'[c])
  BY <1>t, <1>2 DEF TypeOK, ReconcileCommit, MayAdvance, Advance, PastRevalidation
<1>3. ASSUME NEW d \in Cards, NEW from \in LiveStates, InvalidateDependent(d, from)
      PROVE  PastRevalidation(card'[c])
  BY <1>t, <1>3
  DEF TypeOK, InvalidateDependent, LiveStates, MayAdvance, Advance, PastRevalidation
<1> QED
  BY <1>1, <1>2, <1>3, CardSteps

\* The number of writes of a card never shrinks.
LEMMA WritesStable ==
  ASSUME TypeOK, [Next]_vars, NEW c \in Cards, writes[c] > 0
  PROVE  writes'[c] > 0
<1>1. ASSUME NEW w \in Callers, WritePrice(w) PROVE writes'[c] > 0
  BY <1>1, LocalsType DEF TypeOK, WritePrice
<1> QED
  BY <1>1, WritesSteps

-----------------------------------------------------------------------------
(***************************************************************************)
(* Every conjunct of the inductive invariant is preserved.                 *)
(***************************************************************************)

\* Every step keeps the records bound to a card of their action, a marker
\* unsettled by the marketplace, and a rejection backed by a write.
LEMMA RowsAreBoundNext == IInv /\ [Next]_vars => RowsAreBound'
<1> SUFFICES ASSUME IInv, [Next]_vars, NEW a \in Actions, exec'[a] # NoRow
             PROVE  /\ ActionOf[exec'[a].card] = a
                    /\ exec'[a].gateBlocked =>
                          exec'[a].ext \in {"pending_reconciliation", "failed"}
                    /\ exec'[a].ext = "rejected" => writes'[exec'[a].card] > 0
  BY DEF RowsAreBound
<1> DEFINE Bound == /\ ActionOf[exec'[a].card] = a
                    /\ exec'[a].gateBlocked =>
                          exec'[a].ext \in {"pending_reconciliation", "failed"}
                    /\ exec'[a].ext = "rejected" => writes'[exec'[a].card] > 0
<1>t. TypeOK
  BY DEF IInv
<1>a. exec[a] # NoRow => exec[a].card \in Cards
  BY <1>t DEF TypeOK, ExecRows
<1>b. exec[a] # NoRow /\ exec[a].ext = "rejected" => writes'[exec[a].card] > 0
  BY <1>t, <1>a, WritesStable DEF IInv, RowsAreBound
<1>1. CASE exec'[a] = exec[a]
  BY <1>1, <1>b DEF IInv, RowsAreBound
<1>2. ASSUME NEW w \in Callers, ParkGateBlocked(w), exec'[a] # exec[a]
      PROVE  Bound
  <2>1. a = ActionOf[run[w].card] /\ exec'[a] = Row(run[w].card, TRUE)
    BY <1>t, <1>2, LocalsType DEF ParkGateBlocked, dbVars, TypeOK
  <2> QED
    BY <2>1 DEF Row
<1>3. ASSUME NEW w \in Callers, Claim(w), exec'[a] # exec[a]
      PROVE  Bound
  <2>1. a = ActionOf[run[w].card] /\ exec'[a] = Row(run[w].card, FALSE)
    BY <1>t, <1>3, LocalsType DEF Claim, TypeOK
  <2> QED
    BY <2>1 DEF Row
<1>4. ASSUME NEW w \in Callers, CommitWriteResult(w), exec'[a] # exec[a]
      PROVE  Bound
  <2>1. /\ HoldsRow(run[w].card)
        /\ exec[ActionOf[run[w].card]].gateBlocked =>
              run[w].ext \in {"pending_reconciliation", "failed"}
        /\ run[w].wrote => writes[run[w].card] > 0
    BY <1>4 DEF IInv, SenderOwnsClaim, CommitWriteResult
  <2>2. ActionOf[run[w].card] \in Actions /\ run[w].ext \in ExternalStates
        /\ run[w].card \in Cards
    BY <1>t, LocalsType
  <2>3. /\ a = ActionOf[run[w].card]
        /\ exec' = RecordResult(a, run[w].ext)
        /\ run[w].wrote
    BY <1>t, <1>4, <2>1, <2>2, RecordResultType DEF CommitWriteResult, HoldsRow
  <2>4. /\ exec'[a].card = run[w].card
        /\ exec'[a].gateBlocked = exec[a].gateBlocked
        /\ exec'[a].ext = run[w].ext
    BY <1>t, <1>4, <2>1, <2>2, <2>3 DEF RecordResult, HoldsRow, TypeOK, ExecRows
  <2>5. writes'[run[w].card] > 0
    BY <1>t, <2>1, <2>2, <2>3, WritesStable
  <2> QED
    BY <2>1, <2>3, <2>4, <2>5
<1>5. ASSUME NEW b \in Actions, NEW r \in {"accepted", "failed"}, ReconcileCommit(b, r),
             exec'[a] # exec[a]
      PROVE  Bound
  <2>1. exec[b] # NoRow /\ (exec[b].gateBlocked => r = "failed") /\ r \in ExternalStates
    BY <1>5 DEF IInv, ReconHasRow, ReconcileCommit, ExternalStates
  <2>2. a = b /\ exec' = RecordResult(a, r)
    BY <1>t, <1>5, <2>1, RecordResultType DEF ReconcileCommit
  <2>3. /\ exec'[a].card = exec[a].card
        /\ exec'[a].gateBlocked = exec[a].gateBlocked
        /\ exec'[a].ext = r
    BY <1>t, <1>5, <2>1, <2>2 DEF RecordResult, TypeOK, ExecRows
  <2> QED
    BY <2>1, <2>2, <2>3 DEF IInv, RowsAreBound
<1> QED
  BY <1>1, <1>2, <1>3, <1>4, <1>5, ExecSteps

\* Every step leaves a written card with one write and the record of its
\* action, which is no marker.
LEMMA WrittenOwnsRowNext == IInv /\ [Next]_vars => WrittenOwnsRow'
<1> SUFFICES ASSUME IInv, [Next]_vars, NEW c \in Cards, writes'[c] > 0
             PROVE  /\ writes'[c] = 1
                    /\ HoldsRow(c)'
                    /\ ~exec'[ActionOf[c]].gateBlocked
  BY DEF WrittenOwnsRow
<1>t. TypeOK
  BY DEF IInv
<1>1. CASE writes'[c] = writes[c]
  BY <1>1, HoldsRowStable DEF IInv, WrittenOwnsRow
<1>2. ASSUME NEW w \in Callers, WritePrice(w), writes'[c] # writes[c]
      PROVE  /\ writes'[c] = 1
             /\ HoldsRow(c) /\ ~exec[ActionOf[c]].gateBlocked
  <2>1. c = run[w].card /\ writes'[c] = writes[c] + 1 /\ At(w, "send")
    BY <1>t, <1>2, LocalsType DEF WritePrice, TypeOK
  <2> QED
    BY <2>1 DEF IInv, SenderOwnsClaim
<1> QED
  BY <1>1, <1>2, WritesSteps, HoldsRowStable

\* Every step leaves an accepted or rejected card with the record of its
\* action, which is no marker.
LEMMA ResultOwnsRowNext == IInv /\ [Next]_vars => ResultOwnsRow'
<1> SUFFICES ASSUME IInv, [Next]_vars, NEW c \in Cards,
                    card'[c] \in {"accepted", "rejected"}
             PROVE  HoldsRow(c) /\ ~exec[ActionOf[c]].gateBlocked
  BY HoldsRowStable DEF ResultOwnsRow
<1>t. TypeOK
  BY DEF IInv
<1>1. CASE card'[c] = card[c]
  BY <1>1 DEF IInv, ResultOwnsRow
<1>2. ASSUME NEW w \in Callers,
             \/ ReplayWrite(w) \/ BeginRevalidation(w) \/ GateBoundary(w)
             \/ ParkGateBlocked(w)
      PROVE  card'[c] = card[c]
  BY <1>t, <1>2, LocalsType
  DEF TypeOK, ReplayWrite, BeginRevalidation, GateBoundary, ParkGateBlocked, dbVars,
      Advance
<1>3. ASSUME NEW w \in Callers, CommitWriteResult(w), card'[c] # card[c]
      PROVE  HoldsRow(c) /\ ~exec[ActionOf[c]].gateBlocked
  <2>1. c = run[w].card /\ card'[c] = CardStateFor(run[w].ext)
    BY <1>t, <1>3, LocalsType DEF CommitWriteResult, Advance, TypeOK
  <2>2. run[w].ext \notin {"pending_reconciliation", "failed"}
    BY <2>1 DEF CardStateFor
  <2> QED
    BY <1>3, <2>1, <2>2 DEF IInv, SenderOwnsClaim, CommitWriteResult
<1>4. ASSUME NEW a \in Actions, NEW r \in {"accepted", "failed"}, ReconcileCommit(a, r),
             card'[c] # card[c]
      PROVE  HoldsRow(c) /\ ~exec[ActionOf[c]].gateBlocked
  <2>1. exec[a] # NoRow /\ (exec[a].gateBlocked => r = "failed")
    BY <1>4 DEF IInv, ReconHasRow, ReconcileCommit
  <2>2. c = exec[a].card /\ card'[c] = r
    BY <1>t, <1>4 DEF ReconcileCommit, Advance, TypeOK
  <2> QED
    BY <2>1, <2>2 DEF IInv, RowsAreBound, HoldsRow
<1>5. ASSUME NEW d \in Cards, NEW from \in LiveStates, InvalidateDependent(d, from)
      PROVE  card'[c] = card[c]
  BY <1>t, <1>5 DEF TypeOK, InvalidateDependent, Advance
<1> QED
  BY <1>1, <1>2, <1>3, <1>4, <1>5, CardSteps

\* Every step leaves a reconciliation in flight with the record it read.
LEMMA ReconHasRowNext == IInv /\ [Next]_vars => ReconHasRow'
<1> SUFFICES ASSUME IInv, [Next]_vars, NEW a \in Actions, NEW r \in {"accepted", "failed"},
                    <<a, r>> \in recon'
             PROVE  exec[a] # NoRow /\ (exec[a].gateBlocked => r = "failed")
  BY RowStable DEF ReconHasRow
<1>1. CASE <<a, r>> \in recon
  BY <1>1 DEF IInv, ReconHasRow
<1>2. ASSUME NEW b \in Actions, NEW q \in {"accepted", "failed"}, ReconcileRead(b, q),
             <<a, r>> \notin recon
      PROVE  exec[a] # NoRow /\ (exec[a].gateBlocked => r = "failed")
  <2>1. a = b /\ r = q
    BY <1>2 DEF ReconcileRead
  <2> QED
    BY <1>2, <2>1 DEF ReconcileRead, RefusedResolution
<1> QED
  BY <1>1, <1>2, ReconSteps

\* A card enters Executing only through the gate boundary, which audits it.
LEMMA StartIsAudited ==
  ASSUME IInv, [Next]_vars, NEW c \in Cards,
         PastRevalidation(card'[c]), ~PastRevalidation(card[c])
  PROVE  Entry(c, "execution_started", "") \in trail'
<1>t. TypeOK
  BY DEF IInv
<1>1. ASSUME NEW w \in Callers,
             \/ ReplayWrite(w) \/ BeginRevalidation(w)
             \/ ParkGateBlocked(w) \/ CommitWriteResult(w)
      PROVE  FALSE
  BY <1>t, <1>1, LocalsType
  DEF TypeOK, ReplayWrite, BeginRevalidation, ParkGateBlocked, CommitWriteResult,
      dbVars, MayAdvance, Advance, PastRevalidation
<1>2. ASSUME NEW w \in Callers, GateBoundary(w)
      PROVE  Entry(c, "execution_started", "") \in trail'
  <2>1. /\ c = run[w].card /\ run[w].ok /\ MayAdvance(c, "revalidating", "executing")
    BY <1>t, <1>2, LocalsType DEF TypeOK, GateBoundary, Advance, PastRevalidation
  <2> QED
    BY <1>2, <2>1 DEF GateBoundary
<1>3. ASSUME NEW a \in Actions, NEW r \in {"accepted", "failed"}, ReconcileCommit(a, r)
      PROVE  FALSE
  BY <1>t, <1>3 DEF TypeOK, ReconcileCommit, MayAdvance, Advance, PastRevalidation
<1>4. ASSUME NEW d \in Cards, NEW from \in LiveStates, InvalidateDependent(d, from)
      PROVE  FALSE
  BY <1>t, <1>4 DEF TypeOK, InvalidateDependent, Advance, PastRevalidation
<1> QED
  BY <1>1, <1>2, <1>3, <1>4, CardSteps

\* What a step of a caller makes of its own locals.
LEMMA OwnStep ==
  ASSUME TypeOK, NEW w \in Callers,
         (\E c \in Cards : Execute(w, c)) \/ CallerStep(w) \/ Crash(w)
  PROVE  \/ \E c \in Cards :
               /\ run'[w] = [Idle(c) EXCEPT !.pc = "lookup", !.seen = card[c]]
               /\ card' = card
         \/ run'[w] = Idle(run[w].card)
         \/ /\ run'[w].card = run[w].card /\ run'[w].seen = run[w].seen
            /\ run'[w].wrote = run[w].wrote
            /\ run'[w].pc \notin {"claim", "send", "commit"}
         \/ /\ Resolve(w) /\ run[w].seen = "executing"
            /\ run'[w].card = run[w].card /\ run'[w].seen = run[w].seen
            /\ run'[w].wrote = run[w].wrote /\ run'[w].pc = "claim"
         \/ /\ GateBoundary(w) /\ card'[run[w].card] = "executing"
            /\ run'[w] = [run[w] EXCEPT !.pc = "claim"]
         \/ Claim(w) \/ WritePrice(w)
<1>1. ASSUME NEW c \in Cards, Execute(w, c)
      PROVE  /\ run'[w] = [Idle(c) EXCEPT !.pc = "lookup", !.seen = card[c]]
             /\ card' = card
  BY <1>1 DEF Execute, TypeOK, dbVars
<1>2. ASSUME Return(w) \/ ReturnError(w) \/ Snooze(w)
      PROVE  run'[w] = Idle(run[w].card)
  BY <1>2 DEF Return, ReturnError, Snooze, TypeOK
<1>3. ASSUME NEW s \in Steps, Goto(w, s)
      PROVE  run'[w] = [run[w] EXCEPT !.pc = s]
  BY <1>3 DEF Goto, TypeOK
<1>4. run[w] \in Locals
  BY DEF TypeOK
<1>5. CASE LookupExecution(w) \/ LookupRecommendOnly(w)
  BY <1>2, <1>3, <1>4, <1>5 DEF LookupExecution, LookupRecommendOnly, Steps, Locals
<1>6. CASE Resolve(w)
  <2>1. CASE ReturnError(w) \/ Snooze(w)
    BY <1>2, <2>1
  <2>2. CASE ~(ReturnError(w) \/ Snooze(w))
    <3>1. PICK ok, s : /\ run'[w] = [run[w] EXCEPT !.ok = ok, !.pc = s]
                       /\ s = AfterResolve(run[w].seen, mode = "write", ok)
      BY <1>6, <2>2 DEF Resolve, TypeOK
    <3>2. /\ run'[w].card = run[w].card /\ run'[w].seen = run[w].seen
          /\ run'[w].wrote = run[w].wrote /\ run'[w].pc = s
      BY <1>4, <3>1 DEF Locals
    <3>3. s \notin {"send", "commit"} /\ (s = "claim" => run[w].seen = "executing")
      BY <3>1 DEF AfterResolve
    <3> QED
      BY <1>6, <3>2, <3>3
  <2> QED
    BY <2>1, <2>2
<1>7. CASE BeginRevalidation(w)
  BY <1>2, <1>3, <1>4, <1>7 DEF BeginRevalidation, Steps, Locals
<1>8. CASE GateBoundary(w)
  <2>1. CASE Return(w) \/ ReturnError(w)
    BY <1>2, <2>1
  <2>2. CASE ~(Return(w) \/ ReturnError(w))
    <3>1. Goto(w, "claim") /\ Advance(run[w].card, "executing")
      BY <1>8, <2>2 DEF GateBoundary
    <3>2. card'[run[w].card] = "executing"
      BY <3>1, LocalsType DEF Advance, TypeOK
    <3> QED
      BY <1>3, <1>8, <3>1, <3>2 DEF Steps
  <2> QED
    BY <2>1, <2>2
<1>9. CASE ReplayWrite(w) \/ ParkGateBlocked(w) \/ RecordRecommendOnly(w)
           \/ CommitWriteResult(w) \/ Crash(w)
  BY <1>2, <1>9
  DEF ReplayWrite, ParkGateBlocked, RecordRecommendOnly, CommitWriteResult, Crash
<1> QED
  BY <1>1, <1>5, <1>6, <1>7, <1>8, <1>9 DEF CallerStep

\* The three ways out of the claim.
LEMMA ClaimLocals ==
  ASSUME TypeOK, NEW w \in Callers, Claim(w)
  PROVE  /\ writes' = writes
         /\ \/ /\ exec[ActionOf[run[w].card]] = NoRow
               /\ exec'[ActionOf[run[w].card]] = Row(run[w].card, FALSE)
               /\ run'[w].pc = "send" /\ run'[w].card = run[w].card
               /\ run'[w].seen = run[w].seen /\ run'[w].wrote = run[w].wrote
            \/ /\ HoldsRow(run[w].card) /\ exec' = exec
               /\ run'[w].pc = "commit" /\ run'[w].card = run[w].card
               /\ run'[w].seen = run[w].seen /\ run'[w].wrote = run[w].wrote
               /\ run'[w].ext = exec[ActionOf[run[w].card]].ext
            \/ run'[w] = Idle(run[w].card)
<1>1. run[w] \in Locals
  BY DEF TypeOK
<1>2. \/ /\ exec[ActionOf[run[w].card]] = NoRow
         /\ exec'[ActionOf[run[w].card]] = Row(run[w].card, FALSE)
         /\ run'[w] = [run[w] EXCEPT !.pc = "send"]
      \/ /\ HoldsRow(run[w].card) /\ exec' = exec
         /\ run'[w] = [run[w] EXCEPT !.pc = "commit",
                                     !.ext = exec[ActionOf[run[w].card]].ext]
      \/ run'[w] = Idle(run[w].card)
  BY LocalsType DEF Claim, Goto, ReturnError, Taken, HoldsRow, TypeOK
<1>3. writes' = writes
  BY DEF Claim, extVars
<1> QED
  BY <1>1, <1>2, <1>3 DEF Locals

\* The write.
LEMMA WriteLocals ==
  ASSUME TypeOK, NEW w \in Callers, WritePrice(w)
  PROVE  /\ At(w, "send") /\ exec' = exec
         /\ writes' = [writes EXCEPT ![run[w].card] = @ + 1]
         /\ run'[w].card = run[w].card /\ run'[w].seen = run[w].seen
         /\ run'[w].pc = "commit" /\ run'[w].wrote = TRUE
<1>1. run[w] \in Locals
  BY DEF TypeOK
<1> QED
  BY <1>1 DEF WritePrice, dbVars, TypeOK, Locals

\* Every step leaves whoever may still write at a card past the audited gate.
LEMMA StartedIsAuditedNext == IInv /\ [Next]_vars => StartedIsAudited'
<1> SUFFICES ASSUME IInv, [Next]_vars PROVE StartedIsAudited'
  OBVIOUS
<1>t. TypeOK
  BY DEF IInv
<1>1. ASSUME NEW c \in Cards, PastRevalidation(card'[c])
      PROVE  Entry(c, "execution_started", "") \in trail'
  <2>1. CASE PastRevalidation(card[c])
    BY <2>1, TrailGrows DEF IInv, StartedIsAudited
  <2>2. CASE ~PastRevalidation(card[c])
    BY <1>1, <2>2, StartIsAudited
  <2> QED
    BY <2>1, <2>2
<1>2. ASSUME NEW c \in Cards, writes'[c] > 0
      PROVE  PastRevalidation(card'[c])
  <2>1. CASE writes[c] > 0
    BY <2>1, PastStable DEF IInv, StartedIsAudited
  <2>2. ASSUME NEW w \in Callers, WritePrice(w), ~(writes[c] > 0)
        PROVE  PastRevalidation(card[c])
    <3>1. c = run[w].card /\ At(w, "send")
      BY <1>t, <1>2, <2>2, LocalsType, WriteLocals DEF TypeOK
    <3> QED
      BY <3>1 DEF IInv, StartedIsAudited, At
  <2> QED
    BY <1>2, <2>1, <2>2, WritesSteps, PastStable
<1>3. ASSUME NEW w \in Callers,
             run'[w].seen = "executing" \/ run'[w].pc \in {"claim", "send", "commit"}
      PROVE  PastRevalidation(card'[run'[w].card])
  <2>1. run[w] \in Locals /\ run[w].card \in Cards
    BY <1>t, LocalsType DEF TypeOK
  <2>2. ASSUME run[w].seen = "executing" \/ run[w].pc \in {"claim", "send", "commit"},
               run'[w].card = run[w].card
        PROVE  PastRevalidation(card'[run'[w].card])
    BY <2>1, <2>2, PastStable DEF IInv, StartedIsAudited
  <2>3. CASE run'[w] = run[w]
    BY <1>3, <2>2, <2>3
  <2>4. ASSUME NEW c \in Cards, card' = card,
               run'[w] = [Idle(c) EXCEPT !.pc = "lookup", !.seen = card[c]]
        PROVE  PastRevalidation(card'[run'[w].card])
    BY <1>3, <2>4 DEF Idle, PastRevalidation
  <2>5. run'[w] # Idle(run[w].card)
    BY <1>3 DEF Idle
  <2>6. CASE /\ run'[w].card = run[w].card /\ run'[w].seen = run[w].seen
             /\ run'[w].pc \notin {"claim", "send", "commit"}
    BY <1>3, <2>2, <2>6
  <2>7. CASE run[w].seen = "executing" /\ run'[w].card = run[w].card
    BY <2>2, <2>7
  <2>8. CASE /\ card'[run[w].card] = "executing"
             /\ run'[w] = [run[w] EXCEPT !.pc = "claim"]
    BY <2>1, <2>8 DEF Locals, PastRevalidation
  <2>9. CASE Claim(w)
    <3>1. At(w, "claim") /\ run'[w].card = run[w].card
      BY <1>t, <2>5, <2>9, ClaimLocals DEF Claim
    <3> QED
      BY <2>2, <3>1 DEF At
  <2>10. CASE WritePrice(w)
    BY <1>t, <2>2, <2>10, WriteLocals DEF At
  <2> QED
    BY <1>t, <2>3, <2>4, <2>5, <2>6, <2>7, <2>8, <2>9, <2>10, LocalSteps, OwnStep
<1> QED
  BY <1>1, <1>2, <1>3 DEF StartedIsAudited

\* Every step leaves at most one caller of a card about to write, the owner of
\* the claim, and none after the first write.
LEMMA SenderOwnsClaimNext == IInv /\ [Next]_vars => SenderOwnsClaim'
<1> SUFFICES ASSUME IInv, [Next]_vars PROVE SenderOwnsClaim'
  OBVIOUS
<1>t. TypeOK
  BY DEF IInv
<1>l. ASSUME NEW w \in Callers
      PROVE  run[w] \in Locals /\ run[w].card \in Cards /\ ActionOf[run[w].card] \in Actions
  BY <1>t, LocalsType DEF TypeOK
\* Who is at the write was there before, or has just won the claim.
<1>1. ASSUME NEW w \in Callers, run'[w].pc = "send"
      PROVE  \/ run'[w] = run[w]
             \/ /\ exec[ActionOf[run[w].card]] = NoRow
                /\ exec'[ActionOf[run[w].card]] = Row(run[w].card, FALSE)
                /\ run'[w].card = run[w].card
                /\ writes' = writes
  <2>1. run'[w] # Idle(run[w].card)
    BY <1>1 DEF Idle
  <2>2. CASE Claim(w)
    BY <1>t, <1>1, <2>1, <2>2, ClaimLocals
  <2>3. ~WritePrice(w)
    BY <1>t, <1>1, WriteLocals
  <2>4. ASSUME NEW c \in Cards,
               run'[w] = [Idle(c) EXCEPT !.pc = "lookup", !.seen = card[c]]
        PROVE  FALSE
    BY <1>1, <2>4 DEF Idle
  <2>5. run'[w] # [run[w] EXCEPT !.pc = "claim"]
    BY <1>1, <1>l DEF Locals
  <2> QED
    BY <1>t, <1>1, <2>1, <2>2, <2>3, <2>4, <2>5, LocalSteps, OwnStep
<1>2. ASSUME NEW w \in Callers, run'[w].pc = "send"
      PROVE  /\ exec'[ActionOf[run'[w].card]] # NoRow
             /\ exec'[ActionOf[run'[w].card]].card = run'[w].card
             /\ ~exec'[ActionOf[run'[w].card]].gateBlocked
             /\ writes'[run'[w].card] = 0
  <2>1. CASE run'[w] = run[w]
    <3>1. /\ HoldsRow(run[w].card) /\ ~exec[ActionOf[run[w].card]].gateBlocked
          /\ writes[run[w].card] = 0
      BY <1>2, <2>1 DEF IInv, SenderOwnsClaim, At
    <3>2. ASSUME NEW v \in Callers, WritePrice(v)
          PROVE  writes'[run[w].card] = 0
      <4>1. v # w /\ At(v, "send")
        BY <1>t, <1>2, <3>2, WriteLocals
      <4>2. run[v].card # run[w].card
        BY <1>2, <2>1, <4>1 DEF IInv, SenderOwnsClaim, At
      <4>3. writes' = [writes EXCEPT ![run[v].card] = @ + 1]
        BY <1>t, <3>2, WriteLocals
      <4> QED
        BY <1>t, <1>l, <3>1, <4>2, <4>3 DEF TypeOK
    <3>3. writes'[run[w].card] = 0
      BY <3>1, <3>2, WritesSteps
    <3>4. /\ HoldsRow(run[w].card)'
          /\ exec'[ActionOf[run[w].card]].gateBlocked
                = exec[ActionOf[run[w].card]].gateBlocked
      <4>1. ASSUME NEW c \in Cards, c = run[w].card
            PROVE  /\ exec'[ActionOf[c]] # NoRow /\ exec'[ActionOf[c]].card = c
                   /\ exec'[ActionOf[c]].gateBlocked = exec[ActionOf[c]].gateBlocked
        BY <3>1, <4>1, HoldsRowStable DEF HoldsRow
      <4> QED
        BY <1>l, <2>1, <4>1 DEF HoldsRow
    <3> QED
      BY <2>1, <3>1, <3>3, <3>4 DEF HoldsRow
  <2>2. CASE /\ exec[ActionOf[run[w].card]] = NoRow
             /\ exec'[ActionOf[run[w].card]] = Row(run[w].card, FALSE)
             /\ run'[w].card = run[w].card
             /\ writes' = writes
    <3>1. writes[run[w].card] = 0
      <4>1. ~(writes[run[w].card] > 0) /\ writes[run[w].card] \in Nat
        BY <1>t, <1>l, <2>2 DEF IInv, WrittenOwnsRow, HoldsRow, TypeOK
      <4> QED
        BY <4>1
    <3>2. /\ Row(run[w].card, FALSE) # NoRow
          /\ Row(run[w].card, FALSE).card = run[w].card
          /\ ~Row(run[w].card, FALSE).gateBlocked
      BY DEF Row, NoRow
    <3> QED
      BY <2>2, <3>1, <3>2
  <2> QED
    BY <1>1, <1>2, <2>1, <2>2
<1>3. ASSUME NEW v \in Callers, NEW w \in Callers, run'[v].pc = "send",
             run'[w].pc = "send", run'[v].card = run'[w].card
      PROVE  v = w
  <2> SUFFICES ASSUME v # w PROVE FALSE
    OBVIOUS
  <2>1. ASSUME NEW x \in Callers, NEW y \in Callers, x # y, run'[x] = run[x],
               run'[x].pc = "send", run'[x].card = run'[y].card,
               exec[ActionOf[run[y].card]] = NoRow, run'[y].card = run[y].card
        PROVE  FALSE
    <3>1. HoldsRow(run[x].card)
      BY <2>1 DEF IInv, SenderOwnsClaim, At
    <3>2. run[x].card = run[y].card
      BY <2>1
    <3> QED
      BY <2>1, <3>1, <3>2 DEF HoldsRow
  <2>2. CASE run'[v] = run[v] /\ run'[w] = run[w]
    BY <1>3, <2>2 DEF IInv, SenderOwnsClaim, At
  <2>3. run'[v] = run[v] \/ run'[w] = run[w]
    BY <1>t, LocalSteps, OthersLocals
  <2> QED
    BY <1>1, <1>3, <2>1, <2>2, <2>3
<1>4. ASSUME NEW w \in Callers, run'[w].wrote
      PROVE  writes'[run'[w].card] > 0
  <2>1. ASSUME run'[w].wrote = run[w].wrote, run'[w].card = run[w].card
        PROVE  writes'[run'[w].card] > 0
    BY <1>t, <1>4, <1>l, <2>1, WritesStable DEF IInv, SenderOwnsClaim
  <2>2. ASSUME NEW c \in Cards,
               run'[w] = [Idle(c) EXCEPT !.pc = "lookup", !.seen = card[c]]
        PROVE  FALSE
    BY <1>4, <2>2 DEF Idle
  <2>3. run'[w] # Idle(run[w].card)
    BY <1>4 DEF Idle
  <2>4. CASE run'[w] = [run[w] EXCEPT !.pc = "claim"]
    BY <1>l, <2>1, <2>4 DEF Locals
  <2>5. CASE Claim(w)
    BY <1>t, <2>1, <2>3, <2>5, ClaimLocals
  <2>6. CASE WritePrice(w)
    <3>1. /\ writes' = [writes EXCEPT ![run[w].card] = @ + 1]
          /\ run'[w].card = run[w].card
      BY <1>t, <2>6, WriteLocals
    <3> QED
      BY <1>t, <1>l, <3>1 DEF TypeOK
  <2>7. CASE run'[w] = run[w]
    BY <2>1, <2>7
  <2> QED
    BY <1>t, <2>1, <2>2, <2>3, <2>4, <2>5, <2>6, <2>7, LocalSteps, OwnStep
<1>5. ASSUME NEW w \in Callers, run'[w].pc = "commit"
      PROVE  /\ exec'[ActionOf[run'[w].card]] # NoRow
             /\ exec'[ActionOf[run'[w].card]].card = run'[w].card
             /\ exec'[ActionOf[run'[w].card]].gateBlocked =>
                   run'[w].ext \in {"pending_reconciliation", "failed"}
  <2>1. CASE run'[w] = run[w]
    <3>1. /\ HoldsRow(run[w].card)
          /\ exec[ActionOf[run[w].card]].gateBlocked =>
                run[w].ext \in {"pending_reconciliation", "failed"}
      BY <1>5, <2>1 DEF IInv, SenderOwnsClaim, At
    <3>2. ASSUME NEW c \in Cards, HoldsRow(c)
          PROVE  /\ exec'[ActionOf[c]] # NoRow /\ exec'[ActionOf[c]].card = c
                 /\ exec'[ActionOf[c]].gateBlocked = exec[ActionOf[c]].gateBlocked
      BY <3>2, HoldsRowStable DEF HoldsRow
    <3> QED
      BY <1>l, <2>1, <3>1, <3>2
  <2>2. CASE Claim(w)
    <3>1. /\ HoldsRow(run[w].card) /\ exec' = exec /\ run'[w].card = run[w].card
          /\ run'[w].ext = exec[ActionOf[run[w].card]].ext
      <4>1. run'[w] # Idle(run[w].card)
        BY <1>5 DEF Idle
      <4> QED
        BY <1>t, <1>5, <2>2, <4>1, ClaimLocals
    <3>2. exec[ActionOf[run[w].card]].gateBlocked =>
            exec[ActionOf[run[w].card]].ext \in {"pending_reconciliation", "failed"}
      BY <1>l, <3>1 DEF IInv, RowsAreBound, HoldsRow
    <3> QED
      BY <3>1, <3>2 DEF HoldsRow
  <2>3. CASE WritePrice(w)
    <3>1. At(w, "send") /\ exec' = exec /\ run'[w].card = run[w].card
      BY <1>t, <2>3, WriteLocals
    <3> QED
      BY <3>1 DEF IInv, SenderOwnsClaim, HoldsRow
  <2>4. ASSUME NEW c \in Cards,
               run'[w] = [Idle(c) EXCEPT !.pc = "lookup", !.seen = card[c]]
        PROVE  FALSE
    BY <1>5, <2>4 DEF Idle
  <2>5. run'[w] # Idle(run[w].card)
    BY <1>5 DEF Idle
  <2>6. run'[w] # [run[w] EXCEPT !.pc = "claim"]
    BY <1>5, <1>l DEF Locals
  <2> QED
    BY <1>t, <1>5, <2>1, <2>2, <2>3, <2>4, <2>5, <2>6, LocalSteps, OwnStep
<1> QED
  BY <1>2, <1>3, <1>4, <1>5 DEF SenderOwnsClaim, HoldsRow, At

-----------------------------------------------------------------------------
(***************************************************************************)
(* The invariant and its consequences.                                     *)
(***************************************************************************)

\* The invariant holds initially: no record, no write, every caller idle.
LEMMA InvariantInit == Init => IInv
<1> SUFFICES ASSUME Init PROVE IInv
  OBVIOUS
<1>1. TypeOK
  BY TypeInit
<1>2. ASSUME NEW w \in Callers
      PROVE  run[w].pc = "idle" /\ run[w].seen = "approved" /\ ~run[w].wrote
  <2>1. PICK c \in Cards : run[w] = Idle(c)
    BY DEF Init
  <2> QED
    BY <2>1 DEF Idle
<1>w. \A c \in Cards : ~(writes[c] > 0)
  <2>1. \A c \in Cards : writes[c] = 0
    BY DEF Init
  <2> QED
    BY <2>1
<1>3. RowsAreBound /\ WrittenOwnsRow /\ ReconHasRow
  <2>1. (\A a \in Actions : exec[a] = NoRow) /\ recon = {}
    BY DEF Init
  <2> QED
    BY <1>w, <2>1 DEF RowsAreBound, WrittenOwnsRow, ReconHasRow
<1>4. ResultOwnsRow
  BY DEF Init, ResultOwnsRow
<1>5. StartedIsAudited
  <2>1. \A c \in Cards : ~PastRevalidation(card[c])
    BY DEF Init, PastRevalidation
  <2> QED
    BY <1>2, <1>w, <2>1 DEF StartedIsAudited
<1>6. SenderOwnsClaim
  BY <1>2 DEF SenderOwnsClaim, At
<1> QED
  BY <1>1, <1>3, <1>4, <1>5, <1>6 DEF IInv

\* Every step preserves every part of the invariant.
LEMMA InvariantNext == IInv /\ [Next]_vars => IInv'
  BY TypeNext, RowsAreBoundNext, SenderOwnsClaimNext, WrittenOwnsRowNext,
     ResultOwnsRowNext, ReconHasRowNext, StartedIsAuditedNext DEF IInv

\* The inductive invariant of the execution plane holds in every state, for
\* any number of cards, callers, retries and crashes.
THEOREM Invariant == Spec => []IInv
  BY InvariantInit, InvariantNext, PTL DEF Spec

\* Every variable stays in its domain: in particular a record is always for
\* a real card and carries one of the four external states, whoever wrote it.
THEOREM TypeCorrect == Spec => []TypeOK
<1>1. IInv => TypeOK
  BY DEF IInv
<1> QED
  BY <1>1, Invariant, PTL

\* EXE-002 for every number of callers and crashes: the marketplace receives
\* at most one price write per action.
THEOREM SingleWrite == Spec => []AtMostOneWrite
<1>1. IInv => AtMostOneWrite
  BY DEF IInv, WrittenOwnsRow, HoldsRow, AtMostOneWrite
<1> QED
  BY <1>1, Invariant, PTL

\* No price is written for a card whose start was not audited, and an
\* invalidated card has no write, past or still to come.
THEOREM AuthorizedWrite == Spec => []WriteIsAuthorized
<1>1. IInv => WriteIsAuthorized
  <2> SUFFICES ASSUME IInv, NEW c \in Cards
               PROVE  /\ writes[c] > 0 => Entry(c, "execution_started", "") \in trail
                      /\ card[c] = "invalidated" =>
                            /\ writes[c] = 0
                            /\ \A w \in Callers : ~(At(w, "send") /\ run[w].card = c)
    BY DEF WriteIsAuthorized
  <2>1. writes[c] > 0 => PastRevalidation(card[c])
    BY DEF IInv, StartedIsAudited
  <2>2. ~PastRevalidation("invalidated")
    BY DEF PastRevalidation
  <2>3. writes[c] \in Nat
    BY DEF IInv, TypeOK
  <2>4. ASSUME NEW w \in Callers, At(w, "send"), run[w].card = c
        PROVE  PastRevalidation(card[c])
    BY <2>4 DEF IInv, StartedIsAudited, At
  <2>5. writes[c] > 0 => Entry(c, "execution_started", "") \in trail
    BY <2>1 DEF IInv, StartedIsAudited
  <2>6. card[c] = "invalidated" => ~PastRevalidation(card[c])
    BY <2>2
  <2>7. card[c] = "invalidated" => writes[c] = 0
    BY <2>1, <2>3, <2>6
  <2> QED
    BY <2>4, <2>5, <2>6, <2>7
<1> QED
  BY <1>1, Invariant, PTL

\* A gate-blocked marker forecloses the write of its action for ever.
THEOREM MarkerIsFinal == Spec => []MarkerForeclosesWrite
<1>1. IInv => MarkerForeclosesWrite
  <2> SUFFICES ASSUME IInv, NEW a \in Actions, exec[a].gateBlocked
               PROVE  /\ exec[a].ext \in {"pending_reconciliation", "failed"}
                      /\ \A c \in Cards : ActionOf[c] = a =>
                            writes[c] = 0 /\ card[c] \notin {"accepted", "rejected"}
    BY DEF MarkerForeclosesWrite
  <2>1. exec[a] # NoRow
    BY DEF NoRow
  <2>2. \A c \in Cards : writes[c] \in Nat
    BY DEF IInv, TypeOK
  <2> QED
    BY <2>1, <2>2 DEF IInv, RowsAreBound, WrittenOwnsRow, ResultOwnsRow
<1> QED
  BY <1>1, Invariant, PTL

\* A record is claimed once, for one card, and settles once.
THEOREM SettlesOnce == Spec => RecordSettlesOnce
<1>1. IInv /\ [Next]_vars =>
        [\A a \in Actions : exec[a] # NoRow =>
            /\ exec'[a].card = exec[a].card
            /\ exec'[a].gateBlocked = exec[a].gateBlocked
            /\ exec[a].ext # "pending_reconciliation" => exec'[a] = exec[a]]_vars
  BY RowStable
<1> QED
  BY <1>1, Invariant, PTL DEF Spec, RecordSettlesOnce

-----------------------------------------------------------------------------
(***************************************************************************)
(* Refinement: every step of the execution plane is a step of the ledger   *)
(* of one action, or leaves every ledger alone.                            *)
(***************************************************************************)
LedgerNow == [a \in Actions |-> LedgerOf(exec[a])]
SentNow   == [a \in Actions |-> \E c \in Cards : ActionOf[c] = a /\ writes[c] > 0]

\* A step that writes one record moves the ledger of that action only.
LEMMA LedgerMoves ==
  ASSUME TypeOK, NEW a \in Actions, NEW row, exec' = [exec EXCEPT ![a] = row]
  PROVE  LedgerNow' = [LedgerNow EXCEPT ![a] = LedgerOf(row)]
<1>1. \A b \in Actions : exec'[b] = IF b = a THEN row ELSE exec[b]
  BY DEF TypeOK
<1>2. \A b \in Actions :
        LedgerOf(exec'[b]) = IF b = a THEN LedgerOf(row) ELSE LedgerOf(exec[b])
  BY <1>1
<1> QED
  BY <1>2 DEF LedgerNow

\* A step that writes nothing to the marketplace leaves "sent" alone.
LEMMA SentKept ==
  ASSUME writes' = writes
  PROVE  SentNow' = SentNow
  BY DEF SentNow

\* What the ledger shows of a record.
LEMMA LedgerOfRow ==
  ASSUME TypeOK, NEW a \in Actions
  PROVE  /\ LedgerOf(exec[a]) \in {"none", "parked", "closed", "claimed",
                                   "accepted", "rejected", "failed"}
         /\ exec[a] = NoRow <=> LedgerOf(exec[a]) = "none"
         /\ exec[a] # NoRow /\ exec[a].gateBlocked =>
               (exec[a].ext = "pending_reconciliation" => LedgerOf(exec[a]) = "parked")
         /\ exec[a] # NoRow /\ ~exec[a].gateBlocked =>
               LedgerOf(exec[a]) = IF exec[a].ext = "pending_reconciliation"
                                   THEN "claimed" ELSE exec[a].ext
<1>1. exec[a] \in ExecRows
  BY DEF TypeOK
<1> QED
  BY <1>1 DEF LedgerOf, ExecRows, ExternalStates, NoRow

\* Settling a pending record settles its ledger: with the result itself, or,
\* for a gate-blocked marker, as closed.
LEMMA ResultSettles ==
  ASSUME TypeOK, NEW a \in Actions, exec[a] # NoRow, NEW e \in ExternalStates,
         exec' = RecordResult(a, e), writes' = writes,
         exec[a].gateBlocked => e \in {"pending_reconciliation", "failed"},
         e = "rejected" => SentNow[a]
  PROVE  LedgerNow' = LedgerNow \/ \E r \in Ledger!LedgerStates : Ledger!Settle(a, r)
<1>1. CASE exec[a].ext # "pending_reconciliation" \/ e = "pending_reconciliation"
  <2>1. exec[a] \in ExecRows \ {NoRow}
    BY DEF TypeOK
  <2>2. exec' = exec
    <3>1. CASE exec[a].ext # "pending_reconciliation"
      BY <3>1 DEF RecordResult
    <3>2. CASE exec[a].ext = "pending_reconciliation"
      <4>1. e = exec[a].ext
        BY <1>1, <3>2
      <4> QED
        BY <2>1, <3>2, <4>1 DEF RecordResult, TypeOK, ExecRows
    <3> QED
      BY <3>1, <3>2
  <2> QED
    BY <2>2 DEF LedgerNow
<1>2. CASE exec[a].ext = "pending_reconciliation" /\ e # "pending_reconciliation"
  <2> DEFINE row == [exec[a] EXCEPT !.ext = e]
             r   == IF exec[a].gateBlocked THEN "closed" ELSE e
  <2>1. exec' = [exec EXCEPT ![a] = row]
    BY <1>2 DEF RecordResult, TypeOK
  <2>2. exec[a] \in [card: Cards, ext: ExternalStates, gateBlocked: BOOLEAN]
    BY DEF TypeOK, ExecRows
  <2>3. row # NoRow /\ row.ext = e /\ row.gateBlocked = exec[a].gateBlocked
    BY <1>2, <2>2 DEF NoRow, ExternalStates
  <2>4. LedgerOf(row) = r
    BY <1>2, <2>3 DEF LedgerOf
  <2>5. LedgerNow' = [LedgerNow EXCEPT ![a] = r]
    <3> HIDE DEF row, r
    <3> QED
      BY <2>1, <2>4, LedgerMoves
  <2>6. LedgerNow[a] = IF exec[a].gateBlocked THEN "parked" ELSE "claimed"
    BY <1>2, LedgerOfRow DEF LedgerNow
  <2>7. \/ LedgerNow[a] = "claimed" /\ r \in {"accepted", "failed"}
        \/ LedgerNow[a] = "claimed" /\ r = "rejected" /\ SentNow[a]
        \/ LedgerNow[a] = "parked" /\ r = "closed"
    BY <1>2, <2>6 DEF ExternalStates
  <2>8. r \in Ledger!LedgerStates
    BY <1>2 DEF ExternalStates, Ledger!LedgerStates
  <2> QED
    BY <2>5, <2>7, <2>8, SentKept DEF Ledger!Settle, LedgerNow, SentNow
<1> QED
  BY <1>1, <1>2

\* Initially nothing is claimed and nothing was sent.
LEMMA LedgerInit == Init => Ledger!Init
<1> SUFFICES ASSUME Init PROVE Ledger!Init
  OBVIOUS
<1>1. \A a \in Actions : LedgerOf(exec[a]) = "none"
  BY DEF Init, LedgerOf
<1>2. \A c \in Cards : ~(writes[c] > 0)
  <2>1. \A c \in Cards : writes[c] = 0
    BY DEF Init
  <2> QED
    BY <2>1
<1> QED
  BY <1>1, <1>2 DEF Ledger!Init

\* Parking a gate-blocked card parks its action, or touches no record.
LEMMA ParkRefines ==
  ASSUME TypeOK, NEW w \in Callers, ParkGateBlocked(w), SentNow' = SentNow
  PROVE  exec' = exec \/ Ledger!Park(ActionOf[run[w].card])
<1> DEFINE c == run[w].card
           a == ActionOf[c]
<1>1. c \in Cards /\ a \in Actions
  BY LocalsType
<1>2. CASE exec' = exec
  BY <1>2
<1>3. CASE exec' # exec
  <2>1. ~Taken(a) /\ exec' = [exec EXCEPT ![a] = Row(c, TRUE)]
    BY <1>3 DEF ParkGateBlocked, dbVars
  <2>2. LedgerOf(Row(c, TRUE)) = "parked"
    BY DEF LedgerOf, Row, NoRow
  <2>3. LedgerNow' = [LedgerNow EXCEPT ![a] = "parked"]
    BY <1>1, <2>1, <2>2, LedgerMoves
  <2>4. LedgerNow[a] = "none"
    BY <1>1, <2>1, LedgerOfRow DEF Taken, LedgerNow
  <2> QED
    BY <2>3, <2>4 DEF Ledger!Park, LedgerNow, SentNow
<1> QED
  BY <1>2, <1>3

\* Winning the claim claims the action; losing it touches no record.
LEMMA ClaimRefines ==
  ASSUME TypeOK, NEW w \in Callers, Claim(w), SentNow' = SentNow
  PROVE  exec' = exec \/ Ledger!Claim(ActionOf[run[w].card])
<1> DEFINE c == run[w].card
           a == ActionOf[c]
<1>1. c \in Cards /\ a \in Actions
  BY LocalsType
<1>2. CASE exec' = exec
  BY <1>2
<1>3. CASE exec' # exec
  <2>1. ~Taken(a) /\ exec' = [exec EXCEPT ![a] = Row(c, FALSE)]
    BY <1>3 DEF Claim
  <2>2. LedgerOf(Row(c, FALSE)) = "claimed"
    BY DEF LedgerOf, Row, NoRow
  <2>3. LedgerNow' = [LedgerNow EXCEPT ![a] = "claimed"]
    BY <1>1, <2>1, <2>2, LedgerMoves
  <2>4. LedgerNow[a] = "none"
    BY <1>1, <2>1, LedgerOfRow DEF Taken, LedgerNow
  <2> QED
    BY <2>3, <2>4 DEF Ledger!Claim, LedgerNow, SentNow
<1> QED
  BY <1>2, <1>3

\* The one price write is the ledger's one send: the action is claimed or has
\* been settled by a read-back, and no card of it was ever written.
LEMMA WriteRefines ==
  ASSUME IInv, NEW w \in Callers, WritePrice(w)
  PROVE  \E b \in Actions : Ledger!Send(b)
<1> DEFINE c == run[w].card
           a == ActionOf[c]
<1>t. TypeOK
  BY DEF IInv
<1>1. c \in Cards /\ a \in Actions
  BY <1>t, LocalsType
<1>2. At(w, "send") /\ exec' = exec /\ writes' = [writes EXCEPT ![c] = @ + 1]
  BY <1>t, WriteLocals
<1>3. HoldsRow(c) /\ ~exec[a].gateBlocked /\ writes[c] = 0
  BY <1>2 DEF IInv, SenderOwnsClaim
<1>4. exec[a] # NoRow /\ exec[a].card = c /\ exec[a].ext \in ExternalStates \ {"rejected"}
  <2>1. exec[a] # NoRow /\ exec[a].card = c
    BY <1>3 DEF HoldsRow
  <2>2. exec[a].ext # "rejected"
    BY <1>1, <1>3, <2>1 DEF IInv, RowsAreBound
  <2> QED
    BY <1>t, <1>1, <2>1, <2>2 DEF TypeOK, ExecRows
<1>5. LedgerNow[a] \in {"claimed", "accepted", "failed"}
  BY <1>t, <1>1, <1>3, <1>4, LedgerOfRow DEF LedgerNow, ExternalStates
<1>6. \A d \in Cards : ActionOf[d] = a => ~(writes[d] > 0)
  BY <1>3, <1>4 DEF IInv, WrittenOwnsRow, HoldsRow
<1>7. \A d \in Cards : writes'[d] > 0 <=> (writes[d] > 0 \/ d = c)
  BY <1>t, <1>1, <1>2, <1>3 DEF TypeOK
<1>8. ~SentNow[a]
  BY <1>1, <1>6 DEF SentNow
<1>9. SentNow' = [SentNow EXCEPT ![a] = TRUE]
  <2>1. \A b \in Actions :
          (\E d \in Cards : ActionOf[d] = b /\ writes'[d] > 0) <=>
            (b = a \/ \E d \in Cards : ActionOf[d] = b /\ writes[d] > 0)
    BY <1>1, <1>7
  <2> QED
    BY <2>1 DEF SentNow
<1>10. LedgerNow' = LedgerNow
  BY <1>2 DEF LedgerNow
<1> QED
  BY <1>1, <1>5, <1>8, <1>9, <1>10 DEF Ledger!Send, LedgerNow, SentNow

\* Every step is a step of the ledger of one action, or none.
LEMMA LedgerNext == IInv /\ [Next]_vars => [Ledger!Next]_(Ledger!vars)
<1> SUFFICES ASSUME IInv, [Next]_vars PROVE [Ledger!Next]_(Ledger!vars)
  OBVIOUS
<1>t. TypeOK
  BY DEF IInv
<1>a. ASSUME NEW a \in Actions,
             \/ Ledger!Claim(a) \/ Ledger!Park(a) \/ Ledger!Send(a)
             \/ \E r \in Ledger!LedgerStates : Ledger!Settle(a, r)
      PROVE  Ledger!Next
  BY <1>a DEF Ledger!Next
<1>b. ASSUME LedgerNow' = LedgerNow, SentNow' = SentNow
      PROVE  UNCHANGED Ledger!vars
  BY <1>b DEF Ledger!vars, LedgerNow, SentNow
<1>c. ASSUME exec' = exec PROVE LedgerNow' = LedgerNow
  BY <1>c DEF LedgerNow
<1>1. ASSUME NEW w \in Callers, WritePrice(w) PROVE Ledger!Next
  BY <1>1, WriteRefines DEF Ledger!Next
<1>2. CASE writes' = writes
  <2>s. SentNow' = SentNow
    BY <1>2, SentKept
  <2>1. CASE exec' = exec
    BY <1>b, <1>c, <2>1, <2>s
  <2>2. ASSUME NEW w \in Callers, ParkGateBlocked(w) \/ Claim(w)
        PROVE  [Ledger!Next]_(Ledger!vars)
    <3>1. ActionOf[run[w].card] \in Actions
      BY <1>t, LocalsType
    <3>2. \/ exec' = exec
          \/ Ledger!Park(ActionOf[run[w].card]) \/ Ledger!Claim(ActionOf[run[w].card])
      BY <1>t, <2>2, <2>s, ParkRefines, ClaimRefines
    <3> QED
      BY <1>a, <2>1, <3>1, <3>2
  <2>3. ASSUME NEW w \in Callers, CommitWriteResult(w), exec' # exec
        PROVE  [Ledger!Next]_(Ledger!vars)
    <3> DEFINE c == run[w].card
               a == ActionOf[c]
               e == run[w].ext
    <3>1. c \in Cards /\ a \in Actions /\ e \in ExternalStates
      BY <1>t, LocalsType
    <3>2. exec' = RecordResult(a, e) /\ run[w].wrote
      BY <2>3 DEF CommitWriteResult
    <3>3. HoldsRow(c) /\ (exec[a].gateBlocked => e \in {"pending_reconciliation", "failed"})
      BY <2>3 DEF IInv, SenderOwnsClaim, CommitWriteResult
    <3>4. SentNow[a]
      BY <3>1, <3>2 DEF IInv, SenderOwnsClaim, SentNow
    <3>5. LedgerNow' = LedgerNow \/ \E r \in Ledger!LedgerStates : Ledger!Settle(a, r)
      BY <1>t, <1>2, <3>1, <3>2, <3>3, <3>4, ResultSettles DEF HoldsRow
    <3> QED
      BY <1>a, <1>b, <2>s, <3>1, <3>5
  <2>4. ASSUME NEW a \in Actions, NEW q \in {"accepted", "failed"},
               ReconcileCommit(a, q), exec' # exec
        PROVE  [Ledger!Next]_(Ledger!vars)
    <3>1. exec[a] # NoRow /\ (exec[a].gateBlocked => q = "failed")
      BY <2>4 DEF IInv, ReconHasRow, ReconcileCommit
    <3>2. exec' = RecordResult(a, q) /\ q \in ExternalStates
      BY <2>4 DEF ReconcileCommit, ExternalStates
    <3>3. LedgerNow' = LedgerNow \/ \E r \in Ledger!LedgerStates : Ledger!Settle(a, r)
      BY <1>t, <1>2, <3>1, <3>2, ResultSettles
    <3> QED
      BY <1>a, <1>b, <2>s, <3>3
  <2> QED
    BY <2>1, <2>2, <2>3, <2>4, ExecSteps
<1> QED
  BY <1>1, <1>2, WritesSteps

\* The refinement: whatever the interleaving, the crashes and the retries, the
\* execution plane implements the ledger - an action is claimed or parked
\* once, sent only under a claim and once, and settled once.
THEOREM LedgerImplemented == Spec => ImplementsLedger
  BY LedgerInit, LedgerNext, Invariant, PTL DEF Spec, ImplementsLedger, Ledger!Spec

-----------------------------------------------------------------------------
(***************************************************************************)
(* The evidence: windows, audits and notifications agree with the cards.   *)
(***************************************************************************)

\* A call about to heal a card found the record of its action.
HealHasRow ==
    \A w \in Callers : At(w, "heal") => exec[ActionOf[run[w].card]] # NoRow

\* A call that lost the claim and adopted a settled result read it from a
\* record, and that record is still settled.
AdoptedIsSettled ==
    \A w \in Callers :
        At(w, "commit") /\ ~run[w].wrote /\ run[w].ext # "pending_reconciliation" =>
            exec[ActionOf[run[w].card]].ext # "pending_reconciliation"

\* What makes OutcomeIsEvidenced inductive, given IInv.
EvidenceInv == HealHasRow /\ AdoptedIsSettled /\ OutcomeIsEvidenced

\* A call arrives at the healing transaction only from its lookup.
LEMMA HealSteps ==
  ASSUME TypeOK, [Next]_vars, NEW w \in Callers, run'[w].pc = "heal"
  PROVE  \/ run'[w] = run[w]
         \/ /\ run'[w].card = run[w].card
            /\ exec[ActionOf[run[w].card]] # NoRow
<1>1. ASSUME NEW c \in Cards, Execute(w, c) PROVE FALSE
  BY <1>1 DEF Execute, TypeOK, Idle
<1>2. ASSUME Return(w) \/ ReturnError(w) \/ Snooze(w) PROVE FALSE
  BY <1>2 DEF Return, ReturnError, Snooze, TypeOK, Idle
<1>3. run[w] \in Locals
  BY DEF TypeOK
<1>4. ASSUME NEW s \in Steps, Goto(w, s)
      PROVE  s = "heal" /\ run'[w].card = run[w].card
  BY <1>3, <1>4 DEF Goto, TypeOK, Locals
<1>5. CASE LookupExecution(w)
  BY <1>2, <1>4, <1>5 DEF LookupExecution, Steps
<1>6. CASE LookupRecommendOnly(w) \/ BeginRevalidation(w)
  BY <1>2, <1>4, <1>6 DEF LookupRecommendOnly, BeginRevalidation, Steps
<1>7. CASE GateBoundary(w)
  <2>1. Goto(w, "claim")
    BY <1>2, <1>7 DEF GateBoundary
  <2> QED
    BY <1>4, <2>1 DEF Steps
<1>8. CASE Resolve(w)
  <2>1. PICK ok, s : /\ run' = [run EXCEPT ![w].ok = ok, ![w].pc = s]
                     /\ s = AfterResolve(run[w].seen, mode = "write", ok)
    BY <1>2, <1>8 DEF Resolve
  <2>2. run'[w].pc = s
    BY <1>3, <2>1 DEF TypeOK, Locals
  <2> QED
    BY <2>1, <2>2 DEF AfterResolve
<1>9. CASE ReplayWrite(w) \/ ParkGateBlocked(w) \/ RecordRecommendOnly(w)
           \/ CommitWriteResult(w) \/ Crash(w)
  BY <1>2, <1>9
  DEF ReplayWrite, ParkGateBlocked, RecordRecommendOnly, CommitWriteResult, Crash
<1>10. CASE Claim(w)
  <2>1. run'[w] # Idle(run[w].card)
    BY DEF Idle
  <2> QED
    BY <1>10, <2>1, ClaimLocals
<1>11. CASE WritePrice(w)
  BY <1>11, WriteLocals
<1> QED
  BY <1>1, <1>5, <1>6, <1>7, <1>8, <1>9, <1>10, <1>11, LocalSteps DEF CallerStep

\* And at the result transaction only from the claim or the write.
LEMMA CommitSteps ==
  ASSUME TypeOK, [Next]_vars, NEW w \in Callers, run'[w].pc = "commit"
  PROVE  run'[w] = run[w] \/ Claim(w) \/ WritePrice(w)
<1>1. ASSUME NEW c \in Cards,
             run'[w] = [Idle(c) EXCEPT !.pc = "lookup", !.seen = card[c]]
      PROVE  FALSE
  BY <1>1 DEF Idle
<1>2. run'[w] # Idle(run[w].card)
  BY DEF Idle
<1>3. run'[w] # [run[w] EXCEPT !.pc = "claim"]
  BY DEF TypeOK, Locals
<1> QED
  BY <1>1, <1>2, <1>3, LocalSteps, OwnStep

\* The outcome windows and the notifications only grow.
LEMMA EvidenceGrows ==
  ASSUME [Next]_vars
  PROVE  window \subseteq window' /\ notified \subseteq notified'
  BY DEF Next, CallerStep, vars, dbVars, extVars, Execute, LookupExecution,
     ReplayWrite, LookupRecommendOnly, Resolve, BeginRevalidation, GateBoundary,
     ParkGateBlocked, RecordRecommendOnly, Claim, WritePrice, CommitWriteResult,
     Crash, ReconcileRead, ReconcileCommit, ExpireDependentList,
     InvalidateDependent, MatchRecommendOnly, SignalsChange, SafetyFailure,
     OpenOutcomeWindow

\* Only a result, a reconciliation or a match opens a window.
LEMMA WindowSteps ==
  ASSUME [Next]_vars
  PROVE  \/ window' = window
         \/ \E w \in Callers : CommitWriteResult(w)
         \/ \E a \in Actions, r \in {"accepted", "failed"} : ReconcileCommit(a, r)
         \/ \E a \in Actions, to \in {"externally_executed", "lapsed"} :
               MatchRecommendOnly(a, to)
  BY DEF Next, CallerStep, vars, dbVars, extVars, Execute, LookupExecution,
     ReplayWrite, LookupRecommendOnly, Resolve, BeginRevalidation, GateBoundary,
     ParkGateBlocked, RecordRecommendOnly, Claim, WritePrice, Crash, ReconcileRead,
     ExpireDependentList, InvalidateDependent, SignalsChange

\* A match is final: the tracking row of an externally executed action stays.
LEMMA MatchStable ==
  ASSUME TypeOK, [Next]_vars, NEW a \in Actions, ro[a].state = "externally_executed"
  PROVE  ro'[a] = ro[a]
<1>1. ASSUME NEW w \in Callers, RecordRecommendOnly(w) PROVE ro'[a] = ro[a]
  BY <1>1, LocalsType DEF RecordRecommendOnly, TypeOK, NotTracked
<1>2. ASSUME NEW b \in Actions, NEW to \in {"externally_executed", "lapsed"},
             MatchRecommendOnly(b, to)
      PROVE  ro'[a] = ro[a]
  BY <1>2 DEF MatchRecommendOnly, TypeOK
<1>3. \/ ro' = ro
      \/ \E w \in Callers : RecordRecommendOnly(w)
      \/ \E b \in Actions, to \in {"externally_executed", "lapsed"} :
            MatchRecommendOnly(b, to)
  BY DEF Next, CallerStep, vars, dbVars, extVars, Execute, LookupExecution,
     ReplayWrite, LookupRecommendOnly, Resolve, BeginRevalidation, GateBoundary,
     ParkGateBlocked, Claim, WritePrice, CommitWriteResult, Crash, ReconcileRead,
     ReconcileCommit, ExpireDependentList, InvalidateDependent, SignalsChange
<1> QED
  BY <1>1, <1>2, <1>3

\* Every step leaves a call at the healing transaction with a record.
LEMMA HealHasRowNext == IInv /\ EvidenceInv /\ [Next]_vars => HealHasRow'
<1> SUFFICES ASSUME IInv, EvidenceInv, [Next]_vars, NEW w \in Callers,
                    run'[w].pc = "heal"
             PROVE  exec'[ActionOf[run'[w].card]] # NoRow
  BY DEF HealHasRow, At
<1>t. TypeOK
  BY DEF IInv
<1>1. run'[w].card = run[w].card /\ exec[ActionOf[run[w].card]] # NoRow
  BY <1>t, HealSteps DEF EvidenceInv, HealHasRow, At
<1>2. ActionOf[run[w].card] \in Actions
  BY <1>t, LocalsType
<1>3. exec'[ActionOf[run[w].card]] # NoRow
  BY <1>1, <1>2, RowStable
<1> QED
  BY <1>1, <1>3

\* Every step leaves an adopted result with a settled record.
LEMMA AdoptedIsSettledNext == IInv /\ EvidenceInv /\ [Next]_vars => AdoptedIsSettled'
<1> SUFFICES ASSUME IInv, EvidenceInv, [Next]_vars, NEW w \in Callers,
                    run'[w].pc = "commit", ~run'[w].wrote,
                    run'[w].ext # "pending_reconciliation"
             PROVE  exec'[ActionOf[run'[w].card]].ext # "pending_reconciliation"
  BY DEF AdoptedIsSettled, At
<1>t. TypeOK
  BY DEF IInv
<1>1. ActionOf[run[w].card] \in Actions /\ run[w].card \in Cards
  BY <1>t, LocalsType
<1>2. CASE run'[w] = run[w]
  <2>1. exec[ActionOf[run[w].card]].ext # "pending_reconciliation"
    BY <1>2 DEF EvidenceInv, AdoptedIsSettled, At
  <2>2. exec[ActionOf[run[w].card]] # NoRow
    BY <1>2 DEF IInv, SenderOwnsClaim, HoldsRow, At
  <2>3. exec'[ActionOf[run[w].card]] = exec[ActionOf[run[w].card]]
    BY <1>1, <2>1, <2>2, RowStable
  <2> QED
    BY <1>2, <2>1, <2>3
<1>3. CASE Claim(w)
  <2>1. run'[w] # Idle(run[w].card)
    BY DEF Idle
  <2> QED
    BY <1>t, <1>3, <2>1, ClaimLocals
<1>4. ~WritePrice(w)
  BY <1>t, WriteLocals
<1> QED
  BY <1>t, <1>2, <1>3, <1>4, CommitSteps

\* Every step leaves a settled card with its window and its terminal audit,
\* and a pending one with a record.
LEMMA SettledIsEvidencedNext == IInv /\ EvidenceInv /\ [Next]_vars => SettledIsEvidenced'
<1> SUFFICES ASSUME IInv, EvidenceInv, [Next]_vars, NEW c \in Cards
             PROVE  /\ ExternalTerminal(card'[c]) =>
                          /\ ActionOf[c] \in window'
                          /\ Entry(c, "terminal", card'[c]) \in trail'
                    /\ card'[c] = "pending_reconciliation" => exec'[ActionOf[c]] # NoRow
  BY DEF SettledIsEvidenced
<1> DEFINE Evidenced == /\ ExternalTerminal(card'[c]) =>
                              /\ ActionOf[c] \in window'
                              /\ Entry(c, "terminal", card'[c]) \in trail'
                        /\ card'[c] = "pending_reconciliation" => exec'[ActionOf[c]] # NoRow
<1>t. TypeOK
  BY DEF IInv
<1>a. ActionOf[c] \in Actions
  BY ActionOfAssumption
<1>r. exec[ActionOf[c]] # NoRow => exec'[ActionOf[c]] # NoRow
  BY <1>a, RowStable
<1>1. CASE card'[c] = card[c]
  BY <1>1, <1>r, TrailGrows, EvidenceGrows
  DEF EvidenceInv, OutcomeIsEvidenced, SettledIsEvidenced
<1>2. ASSUME NEW w \in Callers, ReplayWrite(w), card'[c] # card[c] PROVE Evidenced
  <2>1. c = run[w].card /\ card'[c] = "pending_reconciliation"
    BY <1>t, <1>2, LocalsType DEF ReplayWrite, Advance, TypeOK
  <2>2. exec[ActionOf[c]] # NoRow
    BY <1>2, <2>1 DEF EvidenceInv, HealHasRow, ReplayWrite
  <2> QED
    BY <1>r, <2>1, <2>2 DEF ExternalTerminal
<1>3. ASSUME NEW w \in Callers, BeginRevalidation(w) \/ GateBoundary(w),
             card'[c] # card[c]
      PROVE  Evidenced
  <2>1. card'[c] \in {"revalidating", "executing", "invalidated"}
    BY <1>t, <1>3, LocalsType DEF BeginRevalidation, GateBoundary, Advance, TypeOK
  <2> QED
    BY <2>1 DEF ExternalTerminal
<1>4. ASSUME NEW w \in Callers, ParkGateBlocked(w), card'[c] # card[c] PROVE Evidenced
  <2>1. c = run[w].card /\ card'[c] = "pending_reconciliation"
    BY <1>t, <1>4, LocalsType DEF ParkGateBlocked, dbVars, Advance, TypeOK
  <2>2. exec[ActionOf[c]] # NoRow \/ exec'[ActionOf[c]] = Row(c, TRUE)
    BY <1>t, <1>4, <1>a, <2>1 DEF ParkGateBlocked, dbVars, Taken, TypeOK
  <2> QED
    BY <1>r, <2>1, <2>2 DEF ExternalTerminal, Row, NoRow
<1>5. ASSUME NEW w \in Callers, CommitWriteResult(w), card'[c] # card[c] PROVE Evidenced
  <2> DEFINE e == run[w].ext
  <2>1. c = run[w].card /\ MayAdvance(c, "executing", CardStateFor(e))
        /\ card'[c] = CardStateFor(e)
    BY <1>t, <1>5, LocalsType DEF CommitWriteResult, Advance, TypeOK
  <2>2. e \in ExternalStates
    BY <1>t, LocalsType
  <2>3. CardStateFor(e) = e
    BY <2>2 DEF CardStateFor, ExternalStates
  <2>4. ExternalTerminal(e) =>
          ActionOf[c] \in window' /\ Entry(c, "terminal", e) \in trail'
    BY <1>5, <2>1 DEF CommitWriteResult, OpenOutcomeWindow
  <2>5. exec[ActionOf[c]] # NoRow
    BY <1>5, <2>1 DEF IInv, SenderOwnsClaim, HoldsRow, CommitWriteResult
  <2> QED
    BY <1>r, <2>1, <2>3, <2>4, <2>5
<1>6. ASSUME NEW a \in Actions, NEW r \in {"accepted", "failed"}, ReconcileCommit(a, r),
             card'[c] # card[c]
      PROVE  Evidenced
  <2>1. c = exec[a].card /\ card'[c] = r
        /\ MayAdvance(exec[a].card, "pending_reconciliation", r)
    BY <1>t, <1>6 DEF ReconcileCommit, Advance, TypeOK
  <2>2. exec[a] # NoRow
    BY <1>6 DEF IInv, ReconHasRow, ReconcileCommit
  <2>3. ActionOf[c] = a
    BY <2>1, <2>2 DEF IInv, RowsAreBound
  <2>4. a \in window' /\ Entry(c, "terminal", r) \in trail'
    BY <1>6, <2>1 DEF ReconcileCommit, OpenOutcomeWindow
  <2> QED
    BY <2>1, <2>3, <2>4
<1>7. ASSUME NEW d \in Cards, NEW from \in LiveStates, InvalidateDependent(d, from),
             card'[c] # card[c]
      PROVE  Evidenced
  <2>1. card'[c] = "invalidated"
    BY <1>t, <1>7 DEF InvalidateDependent, Advance, TypeOK
  <2> QED
    BY <2>1 DEF ExternalTerminal
<1> QED
  BY <1>1, <1>2, <1>3, <1>4, <1>5, <1>6, <1>7, CardSteps

\* Every step leaves an open window with a settled record or a match.
LEMMA WindowHasResultNext == IInv /\ EvidenceInv /\ [Next]_vars => WindowHasResult'
<1> SUFFICES ASSUME IInv, EvidenceInv, [Next]_vars, NEW a \in window'
             PROVE  \/ exec'[a].ext \in {"accepted", "rejected", "failed"}
                    \/ ro'[a].state = "externally_executed"
  BY DEF WindowHasResult
<1>t. TypeOK /\ TypeOK'
  BY TypeNext DEF IInv
<1>a. a \in Actions
  BY <1>t DEF TypeOK
<1>s. ASSUME exec'[a] # NoRow, exec'[a].ext # "pending_reconciliation"
      PROVE  exec'[a].ext \in {"accepted", "rejected", "failed"}
  BY <1>t, <1>a, <1>s DEF TypeOK, ExecRows, ExternalStates
<1>1. CASE a \in window
  <2>1. CASE exec[a].ext \in {"accepted", "rejected", "failed"}
    <3>1. exec[a] # NoRow /\ exec[a].ext # "pending_reconciliation"
      BY <2>1 DEF NoRow
    <3> QED
      BY <1>a, <2>1, <3>1, RowStable
  <2>2. CASE ro[a].state = "externally_executed"
    BY <1>t, <1>a, <2>2, MatchStable
  <2> QED
    BY <1>1, <2>1, <2>2 DEF EvidenceInv, OutcomeIsEvidenced, WindowHasResult
<1>2. ASSUME NEW w \in Callers, CommitWriteResult(w), a \notin window
      PROVE  exec'[a].ext \in {"accepted", "rejected", "failed"}
  <2> DEFINE c == run[w].card
             e == run[w].ext
  <2>1. a = ActionOf[c] /\ ExternalTerminal(e)
    BY <1>2 DEF CommitWriteResult, OpenOutcomeWindow
  <2>2. exec[a] # NoRow
    BY <1>2, <2>1 DEF IInv, SenderOwnsClaim, HoldsRow, CommitWriteResult
  <2>3. e # "pending_reconciliation"
    BY <2>1 DEF ExternalTerminal
  <2>4. CASE run[w].wrote
    <3>1. exec' = RecordResult(a, e)
      BY <1>2, <2>1, <2>4 DEF CommitWriteResult
    <3>2. exec'[a].ext # "pending_reconciliation"
      BY <1>t, <1>a, <2>2, <2>3, <3>1 DEF RecordResult, TypeOK, ExecRows
    <3> QED
      BY <1>a, <1>s, <2>2, <3>2, RowStable
  <2>5. CASE ~run[w].wrote
    <3>1. exec' = exec
      BY <1>2, <2>5 DEF CommitWriteResult
    <3>2. exec[a].ext # "pending_reconciliation"
      BY <1>2, <2>1, <2>3, <2>5 DEF EvidenceInv, AdoptedIsSettled, CommitWriteResult
    <3> QED
      BY <1>s, <2>2, <3>1, <3>2
  <2> QED
    BY <2>4, <2>5
<1>3. ASSUME NEW b \in Actions, NEW r \in {"accepted", "failed"}, ReconcileCommit(b, r),
             a \notin window
      PROVE  exec'[a].ext \in {"accepted", "rejected", "failed"}
  <2>1. a = b /\ exec' = RecordResult(a, r)
    BY <1>3 DEF ReconcileCommit, OpenOutcomeWindow
  <2>2. exec[a] # NoRow
    BY <1>3, <2>1 DEF IInv, ReconHasRow, ReconcileCommit
  <2>3. exec'[a].ext # "pending_reconciliation"
    BY <1>t, <1>a, <2>1, <2>2 DEF RecordResult, TypeOK, ExecRows
  <2> QED
    BY <1>a, <1>s, <2>2, <2>3, RowStable
<1>4. ASSUME NEW b \in Actions, NEW to \in {"externally_executed", "lapsed"},
             MatchRecommendOnly(b, to), a \notin window
      PROVE  ro'[a].state = "externally_executed"
  <2>1. a = b /\ to = "externally_executed"
    BY <1>4 DEF MatchRecommendOnly, OpensWindow, OpenOutcomeWindow
  <2>2. ro[a] \in [card: Cards, state: RecommendOnlyStates]
    BY <1>t, <1>a, <1>4, <2>1 DEF MatchRecommendOnly, TypeOK, TrackRows, NotTracked
  <2> QED
    BY <1>t, <1>a, <1>4, <2>1, <2>2 DEF MatchRecommendOnly, TypeOK
<1> QED
  BY <1>1, <1>2, <1>3, <1>4, WindowSteps

\* Every step leaves a blocked card and a failed write with its notification.
LEMMA BlockedIsNotifiedNext == IInv /\ EvidenceInv /\ [Next]_vars => BlockedIsNotified'
<1> SUFFICES ASSUME IInv, EvidenceInv, [Next]_vars, NEW e \in trail'
             PROVE  /\ e.type = "revalidation_blocked" =>
                          <<"safety_failure", e.card>> \in notified'
                    /\ e.type = "external_result" /\ e.state = "failed" =>
                          <<"execution_failure", e.card>> \in notified'
  BY DEF BlockedIsNotified
<1> DEFINE Notified == /\ e.type = "revalidation_blocked" =>
                             <<"safety_failure", e.card>> \in notified'
                       /\ e.type = "external_result" /\ e.state = "failed" =>
                             <<"execution_failure", e.card>> \in notified'
<1>1. CASE e \in trail
  BY <1>1, EvidenceGrows DEF EvidenceInv, OutcomeIsEvidenced, BlockedIsNotified
<1>2. ASSUME NEW w \in Callers, ReplayWrite(w) \/ RecordRecommendOnly(w), e \notin trail
      PROVE  Notified
  BY <1>2 DEF ReplayWrite, RecordRecommendOnly, Entry
<1>3. ASSUME NEW w \in Callers, GateBoundary(w), e \notin trail PROVE Notified
  <2>1. CASE run[w].ok
    <3>1. e = Entry(run[w].card, "execution_started", "")
      BY <1>3, <2>1 DEF GateBoundary
    <3> QED
      BY <3>1 DEF Entry
  <2>2. CASE ~run[w].ok
    <3>1. /\ e = Entry(run[w].card, "revalidation_blocked", "")
          /\ SafetyFailure(run[w].card)
      BY <1>3, <2>2 DEF GateBoundary
    <3> QED
      BY <3>1 DEF Entry, SafetyFailure
  <2> QED
    BY <2>1, <2>2
<1>4. ASSUME NEW w \in Callers, ParkGateBlocked(w), e \notin trail PROVE Notified
  <2>1. /\ e = Entry(run[w].card, "revalidation_blocked", "pending_reconciliation")
        /\ SafetyFailure(run[w].card)
    BY <1>4 DEF ParkGateBlocked, dbVars
  <2> QED
    BY <2>1 DEF Entry, SafetyFailure
<1>5. ASSUME NEW w \in Callers, CommitWriteResult(w), e \notin trail PROVE Notified
  <2>1. \/ /\ e = Entry(run[w].card, "external_result", run[w].ext)
           /\ run[w].ext = "failed" => <<"execution_failure", run[w].card>> \in notified'
        \/ e = Entry(run[w].card, "terminal", run[w].ext)
    BY <1>5 DEF CommitWriteResult
  <2> QED
    BY <2>1 DEF Entry
<1>6. ASSUME NEW a \in Actions, NEW r \in {"accepted", "failed"}, ReconcileCommit(a, r),
             e \notin trail
      PROVE  Notified
  BY <1>6 DEF ReconcileCommit, Entry
<1>7. ASSUME NEW a \in Actions, NEW to \in {"externally_executed", "lapsed"},
             MatchRecommendOnly(a, to), e \notin trail
      PROVE  Notified
  BY <1>7 DEF MatchRecommendOnly, Entry
<1>8. \/ trail' = trail
      \/ \E w \in Callers :
            \/ ReplayWrite(w) \/ RecordRecommendOnly(w) \/ GateBoundary(w)
            \/ ParkGateBlocked(w) \/ CommitWriteResult(w)
      \/ \E a \in Actions, r \in {"accepted", "failed"} : ReconcileCommit(a, r)
      \/ \E a \in Actions, to \in {"externally_executed", "lapsed"} :
            MatchRecommendOnly(a, to)
  BY DEF Next, CallerStep, vars, dbVars, extVars, Execute, LookupExecution,
     LookupRecommendOnly, Resolve, BeginRevalidation, Claim, WritePrice, Crash,
     ReconcileRead, ExpireDependentList, InvalidateDependent, SignalsChange
<1> QED
  BY <1>1, <1>2, <1>3, <1>4, <1>5, <1>6, <1>7, <1>8

\* Initially there is a confirmation per card and nothing else to evidence.
LEMMA EvidenceInit == Init => EvidenceInv
<1> SUFFICES ASSUME Init PROVE EvidenceInv
  OBVIOUS
<1>1. ASSUME NEW w \in Callers PROVE run[w].pc = "idle"
  <2>1. PICK c \in Cards : run[w] = Idle(c)
    BY DEF Init
  <2> QED
    BY <2>1 DEF Idle
<1>2. \A c \in Cards : card[c] = "approved"
  BY DEF Init
<1>3. window = {} /\ \A e \in trail : e.type = "confirmation"
  <2>1. window = {} /\ trail = {Entry(c, "confirmation", "") : c \in Cards}
    BY DEF Init
  <2>2. \A c \in Cards : Entry(c, "confirmation", "").type = "confirmation"
    BY DEF Entry
  <2> QED
    BY <2>1, <2>2
<1>4. HealHasRow /\ AdoptedIsSettled
  BY <1>1 DEF HealHasRow, AdoptedIsSettled, At
<1>5. SettledIsEvidenced /\ WindowHasResult /\ BlockedIsNotified
  BY <1>2, <1>3 DEF SettledIsEvidenced, WindowHasResult, BlockedIsNotified, ExternalTerminal
<1> QED
  BY <1>4, <1>5 DEF EvidenceInv, OutcomeIsEvidenced

\* What the plane leaves behind agrees with what happened to the card: a
\* settled card has its window and its audit, a window has a result, and a
\* block or a failed write has its notification - for any number of callers,
\* read-backs, matches and crashes.
THEOREM EvidenceHolds == Spec => []OutcomeIsEvidenced
<1>1. IInv /\ EvidenceInv /\ [Next]_vars => EvidenceInv'
  BY HealHasRowNext, AdoptedIsSettledNext, SettledIsEvidencedNext,
     WindowHasResultNext, BlockedIsNotifiedNext DEF EvidenceInv, OutcomeIsEvidenced
<1>2. EvidenceInv => OutcomeIsEvidenced
  BY DEF EvidenceInv
<1> QED
  BY <1>1, <1>2, EvidenceInit, Invariant, PTL DEF Spec

-----------------------------------------------------------------------------
(***************************************************************************)
(* The life of a card, from its approval on.                               *)
(***************************************************************************)
Life == INSTANCE CardLife WITH state <- card

\* A card of this plane was approved: it is authorized still, or voided.  An
\* expiry pass that remembers another state of it finds it moved.
OnceApproved == \A c \in Cards : StateHasAuthorized(card[c]) \/ card[c] = "invalidated"

\* What one transaction may do to one card.
Moves(c, to) ==
    /\ card' = [card EXCEPT ![c] = to]
    /\ to \in States \ {"draft"}
    /\ CanTransition(card[c], to) \/ (card[c] = "approved" /\ to = "invalidated")

LEMMA OneMove ==
  ASSUME IInv, [Next]_vars
  PROVE  card' = card \/ \E c \in Cards, to \in States : Moves(c, to)
<1>t. TypeOK /\ \A w \in Callers : run[w].card \in Cards
  BY LocalsType DEF IInv
<1>1. ASSUME NEW w \in Callers,
             \/ ReplayWrite(w) \/ BeginRevalidation(w) \/ GateBoundary(w)
             \/ ParkGateBlocked(w)
      PROVE  card' = card \/ \E to \in States : Moves(run[w].card, to)
  BY <1>1 DEF ReplayWrite, BeginRevalidation, GateBoundary, ParkGateBlocked, dbVars,
     MayAdvance, Advance, Moves, CanTransition, States
<1>2. ASSUME NEW w \in Callers, CommitWriteResult(w)
      PROVE  card' = card \/ \E to \in States : Moves(run[w].card, to)
  <2>1. /\ CardStateFor(run[w].ext) \in States
        /\ CanTransition("executing", CardStateFor(run[w].ext))
               => CardStateFor(run[w].ext) # "draft"
    BY <1>t, LocalsType DEF CardStateFor, ExternalStates, States, CanTransition, Transitions,
       TypeOK, Locals
  <2> QED
    BY <1>2, <2>1 DEF CommitWriteResult, MayAdvance, Advance, Moves
<1>3. ASSUME NEW a \in Actions, NEW r \in {"accepted", "failed"}, ReconcileCommit(a, r)
      PROVE  card' = card \/ \E to \in States : Moves(exec[a].card, to) /\ exec[a].card \in Cards
  <2>1. exec[a].card \in Cards
    <3>1. exec[a] # NoRow
      BY <1>3 DEF IInv, ReconHasRow, ReconcileCommit
    <3>2. exec[a] \in [card: Cards, ext: ExternalStates, gateBlocked: BOOLEAN]
      BY <1>t, <3>1 DEF TypeOK, ExecRows
    <3> QED
      BY <3>2
  <2> QED
    BY <1>3, <2>1 DEF ReconcileCommit, MayAdvance, Advance, Moves, States
<1>4. ASSUME NEW c \in Cards, NEW from \in LiveStates, InvalidateDependent(c, from)
      PROVE  card' = card \/ \E to \in States : Moves(c, to)
  BY <1>4 DEF InvalidateDependent, MayAdvance, Advance, Moves, States
<1> QED
  BY <1>t, <1>1, <1>2, <1>3, <1>4, CardSteps

\* A card once approved stays authorized until it is voided.
LEMMA OnceApprovedNext == IInv /\ OnceApproved /\ [Next]_vars => OnceApproved'
<1> SUFFICES ASSUME IInv, OnceApproved, [Next]_vars, NEW c \in Cards
             PROVE  StateHasAuthorized(card'[c]) \/ card'[c] = "invalidated"
  BY DEF OnceApproved, StateHasAuthorized
<1>1. StateHasAuthorized(card[c]) \/ card[c] = "invalidated"
  BY DEF OnceApproved
<1>2. CASE card' = card
  BY <1>1, <1>2
<1>3. ASSUME NEW d \in Cards, NEW to \in States, Moves(d, to)
      PROVE  StateHasAuthorized(card'[c]) \/ card'[c] = "invalidated"
  <2>1. card'[c] = IF c = d THEN to ELSE card[c]
    BY <1>3 DEF Moves, IInv, TypeOK
  <2>2. c = d => StateHasAuthorized(to) \/ to = "invalidated"
    BY <1>1, <1>3 DEF Moves, CanTransition, Transitions, StateHasAuthorized
  <2> QED
    BY <1>1, <2>1, <2>2
<1> QED
  BY <1>2, <1>3, OneMove

\* A step of the execution plane moves one life one edge, or voids one.
LEMMA LifeNext == IInv /\ OnceApproved /\ [Next]_vars => [Life!Execution]_(Life!vars)
<1> SUFFICES ASSUME IInv, OnceApproved, [Next]_vars
             PROVE  [Life!Execution]_(Life!vars)
  OBVIOUS
<1>1. CASE card' = card
  BY <1>1 DEF Life!vars
<1>2. ASSUME NEW c \in Cards, NEW to \in States, Moves(c, to)
      PROVE  Life!Execution
  <2>1. CASE card[c] = "approved" /\ to = "invalidated"
    BY <1>2, <2>1 DEF Moves, Life!Execution, Life!Void, Life!Moves
  <2>2. CASE CanTransition(card[c], to)
    <3>1. StateHasAuthorized(card[c])
      BY <1>2, <2>2 DEF Moves, CanTransition, Transitions, OnceApproved
    <3>2. Life!Execute(c)
      BY <1>2, <2>2, <3>1 DEF Moves, CanTransition, Transitions, States,
         StateHasAuthorized, Life!Execute, Life!Moves, Life!CanTransition,
         Life!Transitions, Life!States, Life!StateHasAuthorized
    <3> QED
      BY <3>2 DEF Life!Execution
  <2> QED
    BY <1>2, <2>1, <2>2 DEF Moves
<1> QED
  BY <1>1, <1>2, OneMove

\* The execution plane keeps its side of the contract: however callers,
\* read-backs, expiry passes and crashes interleave, a committed step takes one
\* approved card one edge along the diagram or voids it before it was
\* revalidated; it mints nothing and decides nothing.
THEOREM ExecutionIsCardLife == Spec => Life!ExecutionSpec
<1>1. Init => OnceApproved /\ card = [c \in Cards |-> "approved"]
  BY DEF Init, OnceApproved, StateHasAuthorized
<1> QED
  BY <1>1, OnceApprovedNext, LifeNext, Invariant, PTL DEF Spec, Life!ExecutionSpec

\* Nothing executes from a stale card: a card voided by an identity reopen, or
\* settled, stays what it is, although the callers that hold it read it before.
THEOREM VoidedCardsStay == Spec => Life!EndIsFinal
<1> DEFINE Step == \A c \in Cards :
              /\ Life!Ended(card[c]) => card'[c] = card[c]
              /\ Life!StateHasAuthorized(card'[c]) /\ ~Life!StateHasAuthorized(card[c]) =>
                    card[c] = "awaiting_confirmation" /\ card'[c] = "approved"
<1>1. IInv /\ OnceApproved /\ [Next]_vars => [Step]_(Life!vars)
  <2> SUFFICES ASSUME IInv, OnceApproved, [Next]_vars, NEW c \in Cards
               PROVE  \/ card' = card
                      \/ /\ Life!Ended(card[c]) => card'[c] = card[c]
                         /\ Life!StateHasAuthorized(card'[c]) =>
                                Life!StateHasAuthorized(card[c])
    BY DEF Life!vars
  <2>1. ASSUME NEW d \in Cards, NEW to \in States, Moves(d, to)
        PROVE  /\ Life!Ended(card[c]) => card'[c] = card[c]
               /\ Life!StateHasAuthorized(card'[c]) => Life!StateHasAuthorized(card[c])
    <3>1. card'[c] = IF c = d THEN to ELSE card[c]
      BY <2>1 DEF Moves, IInv, TypeOK
    <3>2. /\ StateHasAuthorized(card[d])
          /\ \E t \in States : CanTransition(card[d], t)
      BY <2>1 DEF Moves, OnceApproved, CanTransition, Transitions, StateHasAuthorized, States
    <3>3. ~Life!Ended(card[d]) /\ Life!StateHasAuthorized(card[d])
      BY <3>2 DEF StateHasAuthorized, Life!StateHasAuthorized, Life!Ended, Life!Terminal,
         Life!CanTransition, Life!Transitions, Life!States, CanTransition, Transitions,
         States
    <3> QED
      BY <3>1, <3>3
  <2> QED
    BY <2>1, OneMove
<1>2. Init => OnceApproved
  BY DEF Init, OnceApproved, StateHasAuthorized
<1>3. Spec => [][Step]_(Life!vars)
  BY <1>1, <1>2, OnceApprovedNext, Invariant, PTL DEF Spec
<1> QED
  BY <1>3 DEF Life!EndIsFinal
=============================================================================
