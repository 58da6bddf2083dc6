------------------------- MODULE ConnectorSyncProofs -------------------------
(***************************************************************************)
(* Proofs about ConnectorSync, for any number of requests, credential      *)
(* generations, runs, pages, attempts and failures.                        *)
(***************************************************************************)
EXTENDS ConnectorSync, SequenceTheorems, TLAPS

CallRows ==
    [op : Credential \cup {"none", "sync"},
     at : {"idle", "exchange", "invalidate", "persist", "probe", "reset", "latest", "enqueue"},
     gen : Generations, probe : 1 .. Len(Probed)]

RunRows ==
    [status : {"running", "completed"}, next : 1 .. MaxPages + 1,
     total : 0 .. MaxPages, applied : Seq(1 .. MaxPages)]

JobRows ==
    [at : WorkerSteps \cup {"none", "queued", "done", "discarded"},
     attempts : 0 .. MaxAttempts, opened : SUBSET Generations,
     token : Generations, total : 0 .. MaxPages]

\* Every run has its job, which has an attempt left while it is queued, and
\* applies no page beyond the bound of the catalog.
JobsFit ==
    \A r \in 1 .. MaxRuns :
        /\ At(r, "none") <=> r > Len(runs)
        /\ At(r, "apply") => runs[r].next <= MaxPages
        /\ At(r, "queued") => job[r].attempts < MaxAttempts

TypeInv == TypeOK /\ JobsFit

-----------------------------------------------------------------------------

LEMMA Numbers ==
  /\ MaxRuns \in Nat
  /\ MaxPages \in Nat /\ MaxPages > 0
  /\ MaxAttempts \in Nat /\ MaxAttempts > 0
  /\ MaxGen \in Nat
  /\ MaxFailures \in Nat
BY SyncBounds

LEMMA IdleRows == IdleCall \in CallRows /\ NoJob \in JobRows
<1>1. IdleCall \in CallRows
  BY Numbers DEF IdleCall, CallRows, Probed, Generations
<1>2. NoJob \in JobRows
  BY Numbers DEF NoJob, JobRows, Generations
<1> QED
  BY <1>1, <1>2

\* What the rows of a state that satisfies the type invariant are.
LEMMA RowTypes ==
  ASSUME TypeOK
  PROVE  /\ call \in [Calls -> CallRows]
         /\ runs \in Seq(RunRows) /\ Len(runs) \in Nat /\ Len(runs) <= MaxRuns
         /\ DOMAIN runs = 1 .. Len(runs)
         /\ \A r \in 1 .. Len(runs) : runs[r] \in RunRows
         /\ job \in [1 .. MaxRuns -> JobRows]
<1>1. runs \in Seq(RunRows)
  BY DEF TypeOK, RunRows
<1>2. DOMAIN runs = 1 .. Len(runs) /\ Len(runs) \in Nat
  BY <1>1, LenProperties
<1>3. \A r \in 1 .. Len(runs) : runs[r] \in RunRows
  BY <1>1, ElementOfSeq
<1> QED
  BY <1>1, <1>2, <1>3 DEF TypeOK, CallRows, JobRows

\* An attempt that ended is to be retried, or was the last.
LEMMA EndedJob ==
  ASSUME NEW j \in JobRows
  PROVE  /\ Ended(j) \in JobRows
         /\ Ended(j).attempts = j.attempts
         /\ \/ Ended(j).at = "queued" /\ j.attempts < MaxAttempts
            \/ Ended(j).at = "discarded" /\ j.attempts = MaxAttempts
<1>1. j.attempts \in 0 .. MaxAttempts
  BY DEF JobRows
<1>2. Ended(j).attempts = j.attempts
  BY DEF Ended, NoJob
<1>3. CASE j.attempts < MaxAttempts
  <2>1. Ended(j) = [NoJob EXCEPT !.at = "queued", !.attempts = j.attempts]
    BY <1>3 DEF Ended
  <2> QED
    BY <2>1, <1>1, <1>2, <1>3, IdleRows DEF NoJob, JobRows
<1>4. CASE j.attempts = MaxAttempts
  <2>1. ~(j.attempts < MaxAttempts)
    BY <1>4, Numbers
  <2>2. Ended(j) = [NoJob EXCEPT !.at = "discarded", !.attempts = j.attempts]
    BY <2>1 DEF Ended
  <2> QED
    BY <2>2, <1>1, <1>2, <1>4, IdleRows DEF NoJob, JobRows
<1> QED
  BY <1>1, <1>3, <1>4, Numbers

\* The page behind the cursor is applied and the cursor moves past it.
LEMMA AdvancedRun ==
  ASSUME NEW run \in RunRows, run.next <= MaxPages, NEW total \in 0 .. MaxPages
  PROVE  /\ Advanced(run, total) \in RunRows
         /\ Advanced(run, total).status = run.status
         /\ Advanced(run, total).next = run.next + 1
         /\ Advanced(run, total).total = total
         /\ Advanced(run, total).applied = Append(run.applied, run.next)
<1>1. run.next \in 1 .. MaxPages /\ run.applied \in Seq(1 .. MaxPages)
  BY Numbers DEF RunRows
<1>2. Append(run.applied, run.next) \in Seq(1 .. MaxPages)
  BY <1>1, AppendProperties
<1>3. /\ Advanced(run, total).status = run.status
      /\ Advanced(run, total).next = run.next + 1
      /\ Advanced(run, total).total = total
      /\ Advanced(run, total).applied = Append(run.applied, run.next)
  BY DEF Advanced, RunRows
<1>4. run.next + 1 \in 1 .. MaxPages + 1
  BY <1>1, Numbers
<1>5. Advanced(run, total) \in RunRows
  BY <1>2, <1>4 DEF Advanced, RunRows
<1> QED
  BY <1>3, <1>5

-----------------------------------------------------------------------------

\* A job that is moved to another well-typed row leaves the others alone.
LEMMA JobStep ==
  ASSUME TypeInv, NEW r \in 1 .. MaxRuns, NEW j \in JobRows,
         job' = [job EXCEPT ![r] = j], UNCHANGED runs,
         j.at = "none" <=> At(r, "none"),
         j.at = "apply" => runs[r].next <= MaxPages,
         j.at = "queued" => j.attempts < MaxAttempts
  PROVE  job' \in [1 .. MaxRuns -> JobRows] /\ JobsFit'
<1>1. job \in [1 .. MaxRuns -> JobRows]
  BY RowTypes DEF TypeInv
<1>2. job' \in [1 .. MaxRuns -> JobRows] /\ job'[r] = j
  BY <1>1
<1>3. \A s \in 1 .. MaxRuns : s # r => job'[s] = job[s]
  BY <1>1
<1>4. ASSUME NEW s \in 1 .. MaxRuns
      PROVE  /\ At(s, "none")' <=> s > Len(runs')
             /\ At(s, "apply")' => runs'[s].next <= MaxPages
             /\ At(s, "queued")' => job'[s].attempts < MaxAttempts
  <2>1. CASE s = r
    BY <2>1, <1>2 DEF TypeInv, JobsFit, At
  <2>2. CASE s # r
    BY <2>2, <1>3 DEF TypeInv, JobsFit, At
  <2> QED
    BY <2>1, <2>2
<1> QED
  BY <1>2, <1>4 DEF JobsFit

\* A request that is moved to another well-typed row leaves the others alone.
LEMMA CallStep ==
  ASSUME TypeOK, NEW c \in Calls, NEW k \in CallRows, call' = [call EXCEPT ![c] = k]
  PROVE  call' \in [Calls -> CallRows] /\ call'[c] = k
         /\ \A d \in Calls : d # c => call'[d] = call[d]
BY RowTypes

LEMMA JobsUntouched ==
  ASSUME TypeInv, UNCHANGED <<runs, job>>
  PROVE  job' \in [1 .. MaxRuns -> JobRows] /\ JobsFit'
BY RowTypes DEF TypeInv, JobsFit, At

\* The rows of the next state suffice for its types.
LEMMA TypesOfRows ==
  ASSUME issued' \in Generations, pages' \in 1 .. MaxPages,
         conn' \in [state : {"none", "connected", "disconnected"}, gen : Generations],
         caps' \in [Capabilities -> [status : {"unknown", "supported", "degraded"},
                                     of : Generations]],
         call' \in [Calls -> CallRows], runs' \in Seq(RunRows), Len(runs') <= MaxRuns,
         job' \in [1 .. MaxRuns -> JobRows],
         overlapped' \in BOOLEAN, failures' \in 0 .. MaxFailures
  PROVE  TypeOK'
BY DEF TypeOK, CallRows, RunRows, JobRows

-----------------------------------------------------------------------------

LEMMA InitTypes == Init => TypeInv
<1> SUFFICES ASSUME Init PROVE TypeInv
  OBVIOUS
<1>1. issued \in Generations /\ failures \in 0 .. MaxFailures
  BY Numbers DEF Init, Generations
<1>2. conn \in [state : {"none", "connected", "disconnected"}, gen : Generations]
  BY Numbers DEF Init, Generations
<1>3. caps \in [Capabilities -> [status : {"unknown", "supported", "degraded"},
                                 of : Generations]]
  BY Numbers DEF Init, AllUnknown, Unknown, Generations
<1>4. call \in [Calls -> CallRows] /\ job \in [1 .. MaxRuns -> JobRows]
  BY IdleRows DEF Init
<1>5. runs \in Seq(RunRows) /\ Len(runs) = 0 /\ Len(runs) <= MaxRuns
  BY EmptySeq, Numbers DEF Init
<1>6. TypeOK
  <2>1. pages \in 1 .. MaxPages /\ overlapped \in BOOLEAN
    BY DEF Init
  <2> QED
    BY <1>1, <1>2, <1>3, <1>4, <1>5, <2>1 DEF TypeOK, CallRows, RunRows, JobRows
<1>7. JobsFit
  BY <1>5, Numbers DEF Init, JobsFit, At, NoJob
<1> QED
  BY <1>6, <1>7 DEF TypeInv

\* The requests.
LEMMA CallTypes ==
  ASSUME TypeInv, NEW c \in Calls,
         \/ Connect(c) \/ Refresh(c) \/ Exchange(c) \/ Invalidate(c)
         \/ PersistTokens(c) \/ PersistProbe(c) \/ Disconnect(c) \/ ResetCapabilities(c)
         \/ SyncCatalog(c) \/ SyncInFlight(c) \/ CallFails(c)
  PROVE  TypeInv'
<1> USE DEF TypeInv
<1>1. /\ runs' \in Seq(RunRows) /\ Len(runs') <= MaxRuns
      /\ job' \in [1 .. MaxRuns -> JobRows] /\ JobsFit'
      /\ pages' \in 1 .. MaxPages
  <2>1. UNCHANGED <<runs, job, pages>>
    BY DEF Connect, Refresh, Exchange, Invalidate, PersistTokens, PersistProbe, Disconnect,
           ResetCapabilities, SyncCatalog, SyncInFlight, CallFails
  <2> QED
    BY <2>1, RowTypes, JobsUntouched DEF TypeOK
<1>2. \A op \in Credential \cup {"sync"}, at \in {"exchange", "reset", "latest"} :
         [IdleCall EXCEPT !.op = op, !.at = at] \in CallRows
  BY IdleRows DEF IdleCall, CallRows
<1>3. call[c] \in CallRows
  BY RowTypes
<1>4. AllUnknown \in [Capabilities -> [status : {"unknown", "supported", "degraded"},
                                       of : Generations]]
  BY Numbers DEF AllUnknown, Unknown, Generations
<1>5. CASE Connect(c)
  <2>1. call' = [call EXCEPT ![c] = [IdleCall EXCEPT !.op = "connect", !.at = "exchange"]]
    BY <1>5 DEF Connect, Begin
  <2>2. call' \in [Calls -> CallRows]
    BY <1>2, <2>1, CallStep DEF Credential
  <2> QED
    BY <1>1, <1>5, <2>2, TypesOfRows DEF Connect, TypeOK
<1>6. CASE Refresh(c)
  <2>1. call' = [call EXCEPT ![c] = [IdleCall EXCEPT !.op = "refresh", !.at = "exchange"]]
    BY <1>6 DEF Refresh, Begin
  <2>2. call' \in [Calls -> CallRows]
    BY <1>2, <2>1, CallStep DEF Credential
  <2> QED
    BY <1>1, <1>6, <2>2, TypesOfRows DEF Refresh, TypeOK
<1>7. CASE Exchange(c)
  <2>1. issued + 1 \in Generations
    BY <1>7, Numbers DEF Exchange, Generations, TypeOK
  <2>2. call' = [call EXCEPT ![c] = [call[c] EXCEPT !.at = "invalidate", !.gen = issued + 1]]
    BY <1>7, RowTypes DEF Exchange
  <2>3. [call[c] EXCEPT !.at = "invalidate", !.gen = issued + 1] \in CallRows
    BY <1>3, <2>1 DEF CallRows
  <2>4. call' \in [Calls -> CallRows]
    BY <2>2, <2>3, CallStep
  <2> QED
    BY <1>1, <1>7, <2>1, <2>4, TypesOfRows DEF Exchange, TypeOK
<1>8. CASE Invalidate(c)
  <2>1. [call[c] EXCEPT !.at = "persist"] \in CallRows
    BY <1>3 DEF CallRows
  <2>2. call' \in [Calls -> CallRows]
    BY <1>8, <2>1, CallStep DEF Invalidate
  <2> QED
    BY <1>1, <1>4, <1>8, <2>2, TypesOfRows DEF Invalidate, Reset, TypeOK
<1>9. CASE PersistTokens(c)
  <2>1. [call[c] EXCEPT !.at = "probe"] \in CallRows
    BY <1>3 DEF CallRows
  <2>2. call' \in [Calls -> CallRows]
    BY <1>9, <2>1, CallStep DEF PersistTokens
  <2>3. conn' \in [state : {"none", "connected", "disconnected"}, gen : Generations]
    BY <1>3, <1>9 DEF PersistTokens, CallRows
  <2> QED
    BY <1>1, <1>9, <2>2, <2>3, TypesOfRows DEF PersistTokens, TypeOK
<1>10. CASE PersistProbe(c)
  <2>1. Len(Probed) = 2
    BY DEF Probed
  <2>2. call' \in [Calls -> CallRows]
    <3>1. CASE call[c].probe = Len(Probed)
      BY <1>10, <3>1, IdleRows, CallStep DEF PersistProbe, AfterProbe
    <3>2. CASE call[c].probe # Len(Probed)
      <4>1. call[c].probe + 1 \in 1 .. Len(Probed)
        BY <1>3, <2>1, <3>2 DEF CallRows
      <4>2. [call[c] EXCEPT !.probe = call[c].probe + 1] \in CallRows
        BY <1>3, <4>1 DEF CallRows
      <4>3. call' = [call EXCEPT ![c] = [call[c] EXCEPT !.probe = call[c].probe + 1]]
        BY <1>10, <3>2 DEF PersistProbe, AfterProbe
      <4> QED
        BY <4>2, <4>3, CallStep
    <3> QED
      BY <3>1, <3>2
  <2>3. caps' \in [Capabilities -> [status : {"unknown", "supported", "degraded"},
                                    of : Generations]]
    <3>1. PICK s \in {"supported", "degraded"} :
            caps' = [caps EXCEPT ![Probed[call[c].probe]] =
                        [status |-> s, of |-> call[c].gen]]
      BY <1>10 DEF PersistProbe
    <3>2. [status |-> s, of |-> call[c].gen] \in
             [status : {"unknown", "supported", "degraded"}, of : Generations]
      BY <1>3 DEF CallRows
    <3> QED
      BY <3>1, <3>2 DEF TypeOK
  <2> QED
    BY <1>1, <1>10, <2>2, <2>3, TypesOfRows DEF PersistProbe, TypeOK
<1>11. CASE Disconnect(c)
  <2>1. call' = [call EXCEPT ![c] = [IdleCall EXCEPT !.op = "disconnect", !.at = "reset"]]
    BY <1>11 DEF Disconnect, Begin
  <2>2. call' \in [Calls -> CallRows]
    BY <1>2, <2>1, CallStep DEF Credential
  <2>3. conn' \in [state : {"none", "connected", "disconnected"}, gen : Generations]
    BY <1>11, Numbers DEF Disconnect, TypeOK, Generations
  <2> QED
    BY <1>1, <1>11, <2>2, <2>3, TypesOfRows DEF Disconnect, TypeOK
<1>12. CASE ResetCapabilities(c)
  <2>1. call' \in [Calls -> CallRows]
    BY <1>12, IdleRows, CallStep DEF ResetCapabilities
  <2> QED
    BY <1>1, <1>4, <1>12, <2>1, TypesOfRows DEF ResetCapabilities, TypeOK
<1>13. CASE SyncCatalog(c)
  <2>1. call' = [call EXCEPT ![c] = [IdleCall EXCEPT !.op = "sync", !.at = "latest"]]
    BY <1>13 DEF SyncCatalog, Begin
  <2>2. call' \in [Calls -> CallRows]
    BY <1>2, <2>1, CallStep
  <2> QED
    BY <1>1, <1>13, <2>2, TypesOfRows DEF SyncCatalog, TypeOK
<1>14. CASE SyncInFlight(c)
  <2>1. [call[c] EXCEPT !.at = "enqueue"] \in CallRows
    BY <1>3 DEF CallRows
  <2>2. \E k \in CallRows : call' = [call EXCEPT ![c] = k]
    <3>1. CASE runs # <<>> /\ Last(runs).status = "running"
      BY <1>14, <3>1, IdleRows DEF SyncInFlight
    <3>2. CASE ~(runs # <<>> /\ Last(runs).status = "running")
      BY <1>14, <2>1, <3>2, RowTypes DEF SyncInFlight
    <3> QED
      BY <3>1, <3>2
  <2>3. call' \in [Calls -> CallRows]
    BY <2>2, CallStep
  <2> QED
    BY <1>1, <1>14, <2>3, TypesOfRows DEF SyncInFlight, TypeOK
<1>15. CASE CallFails(c)
  <2>1. call' \in [Calls -> CallRows]
    BY <1>15, IdleRows, CallStep DEF CallFails
  <2>2. failures' \in 0 .. MaxFailures
    BY <1>15, Numbers DEF CallFails, Fails, TypeOK
  <2> QED
    BY <1>1, <1>15, <2>1, <2>2, TypesOfRows DEF CallFails, TypeOK
<1> QED
  BY <1>5, <1>6, <1>7, <1>8, <1>9, <1>10, <1>11, <1>12, <1>13, <1>14, <1>15

\* The in-flight claim: a run and its job, or neither.
LEMMA EnqueueTypes ==
  ASSUME TypeInv, NEW c \in Calls, Enqueue(c)
  PROVE  TypeInv'
<1> USE DEF TypeInv
<1> DEFINE run == [status |-> "running", next |-> 1, total |-> 0, applied |-> <<>>]
           new == [NoJob EXCEPT !.at = "queued"]
<1>1. call' \in [Calls -> CallRows]
  BY IdleRows, CallStep DEF Enqueue
<1>2. /\ runs' \in Seq(RunRows) /\ Len(runs') <= MaxRuns
      /\ job' \in [1 .. MaxRuns -> JobRows] /\ JobsFit'
  <2>1. CASE UNCHANGED <<runs, job>>
    BY <2>1, RowTypes, JobsUntouched
  <2>2. CASE /\ ~InFlight /\ Len(runs) < MaxRuns
             /\ runs' = Append(runs, run)
             /\ job' = [job EXCEPT ![Len(runs) + 1] = new]
    <3>1. run \in RunRows
      <4>1. 1 \in 1 .. MaxPages + 1 /\ 0 \in 0 .. MaxPages /\ <<>> \in Seq(1 .. MaxPages)
        BY Numbers, EmptySeq
      <4> QED
        BY <4>1 DEF RunRows
    <3>2. /\ runs' \in Seq(RunRows) /\ Len(runs') = Len(runs) + 1
          /\ \A i \in 1 .. Len(runs) : runs'[i] = runs[i]
          /\ runs'[Len(runs) + 1] = run
      BY <2>2, <3>1, RowTypes, AppendProperties
    <3>3. new \in JobRows /\ new.at = "queued" /\ new.attempts = 0
      BY IdleRows DEF NoJob, JobRows
    <3>4. Len(runs) + 1 \in 1 .. MaxRuns
      BY <2>2, RowTypes, Numbers
    <3>5. /\ job' \in [1 .. MaxRuns -> JobRows]
          /\ job'[Len(runs) + 1] = new
          /\ \A r \in 1 .. MaxRuns : r # Len(runs) + 1 => job'[r] = job[r]
      BY <2>2, <3>3, <3>4, RowTypes
    <3>6. ASSUME NEW r \in 1 .. MaxRuns
          PROVE  /\ At(r, "none")' <=> r > Len(runs')
                 /\ At(r, "apply")' => runs'[r].next <= MaxPages
                 /\ At(r, "queued")' => job'[r].attempts < MaxAttempts
      <4>1. CASE r = Len(runs) + 1
        <5>1. job'[r].at = "queued" /\ job'[r].attempts = 0
          BY <4>1, <3>3, <3>5
        <5> QED
          BY <4>1, <5>1, <3>2, RowTypes, Numbers DEF At
      <4>2. CASE r # Len(runs) + 1
        <5>1. job'[r] = job[r] /\ (r > Len(runs') <=> r > Len(runs))
          BY <4>2, <3>2, <3>5, RowTypes
        <5>2. r <= Len(runs) => runs'[r] = runs[r]
          BY <3>2, RowTypes
        <5>3. At(r, "apply") => r <= Len(runs)
          BY RowTypes DEF JobsFit, At
        <5> QED
          BY <5>1, <5>2, <5>3 DEF JobsFit, At
      <4> QED
        BY <4>1, <4>2
    <3> QED
      BY <3>2, <3>4, <3>5, <3>6, RowTypes DEF JobsFit
  <2> QED
    BY <2>1, <2>2 DEF Enqueue
<1> QED
  BY <1>1, <1>2, TypesOfRows DEF Enqueue, TypeOK

\* The steps of a job that leave the runs alone.
LEMMA JobTypes ==
  ASSUME TypeInv, NEW r \in 1 .. MaxRuns,
         \/ Attempt(r) \/ LoadRun(r) \/ Gate(r) \/ LoadToken(r) \/ Fetch(r) \/ AttemptFails(r)
  PROVE  TypeInv'
<1> USE DEF TypeInv
<1>1. job[r] \in JobRows /\ job \in [1 .. MaxRuns -> JobRows]
  BY RowTypes
<1>2. Ended(job[r]) \in JobRows /\ Ended(job[r]).at \in {"queued", "discarded"}
      /\ (Ended(job[r]).at = "queued" => Ended(job[r]).attempts < MaxAttempts)
  BY <1>1, EndedJob
<1>3. \A step \in {"load", "gate", "token", "fetch", "done"} :
         [job[r] EXCEPT !.at = step] \in JobRows
  BY <1>1 DEF JobRows, WorkerSteps
<1>4. ASSUME ~At(r, "none"), NEW j \in JobRows, job' = [job EXCEPT ![r] = j],
             UNCHANGED runs, j.at # "none", j.at = "apply" => runs[r].next <= MaxPages,
             j.at = "queued" => j.attempts < MaxAttempts
      PROVE  job' \in [1 .. MaxRuns -> JobRows] /\ JobsFit'
  BY <1>4, JobStep
<1>5. ASSUME job' \in [1 .. MaxRuns -> JobRows], JobsFit',
             UNCHANGED <<issued, pages, conn, caps, call, runs, overlapped>>,
             failures' \in 0 .. MaxFailures
      PROVE  TypeInv'
  BY <1>5, RowTypes, TypesOfRows DEF TypeOK
<1>6. CASE Attempt(r)
  <2> DEFINE j == [job[r] EXCEPT !.at = "load", !.attempts = job[r].attempts + 1]
  <2>1. job[r].attempts + 1 \in 0 .. MaxAttempts
    BY <1>1, <1>6, Numbers DEF Attempt, JobsFit, At, JobRows
  <2>2. j \in JobRows /\ j.at = "load"
    BY <1>1, <2>1 DEF JobRows, WorkerSteps
  <2>3. job' = [job EXCEPT ![r] = j]
    BY <1>1, <1>6 DEF Attempt
  <2> QED
    BY <1>4, <1>5, <1>6, <2>2, <2>3 DEF Attempt, At, TypeOK
<1>7. CASE LoadRun(r)
  <2>1. PICK step \in {"done", "gate"} : job' = [job EXCEPT ![r] = [job[r] EXCEPT !.at = step]]
    BY <1>1, <1>7 DEF LoadRun, MovesTo
  <2>2. [job[r] EXCEPT !.at = step] \in JobRows /\ [job[r] EXCEPT !.at = step].at = step
    BY <1>1, <1>3 DEF JobRows
  <2> QED
    BY <1>4, <1>5, <1>7, <2>1, <2>2 DEF LoadRun, At, TypeOK
<1>8. CASE Gate(r)
  <2> DEFINE opened == {caps[c].of : c \in Capabilities}
             j == [job[r] EXCEPT !.at = "token", !.opened = opened]
  <2>1. opened \in SUBSET Generations
    BY DEF TypeOK
  <2>2. j \in JobRows /\ j.at = "token"
    BY <1>1, <2>1 DEF JobRows, WorkerSteps
  <2>3. job' = [job EXCEPT ![r] = j] \/ job' = [job EXCEPT ![r] = Ended(job[r])]
    BY <1>1, <1>8 DEF Gate
  <2> QED
    BY <1>2, <1>4, <1>5, <1>8, <2>2, <2>3 DEF Gate, At, TypeOK
<1>9. CASE LoadToken(r)
  <2> DEFINE j == [job[r] EXCEPT !.at = "fetch", !.token = conn.gen]
  <2>1. j \in JobRows /\ j.at = "fetch"
    BY <1>1 DEF TypeOK, JobRows, WorkerSteps
  <2>2. job' = [job EXCEPT ![r] = j] \/ job' = [job EXCEPT ![r] = Ended(job[r])]
    BY <1>1, <1>9 DEF LoadToken
  <2> QED
    BY <1>2, <1>4, <1>5, <1>9, <2>1, <2>2 DEF LoadToken, At, TypeOK
<1>10. CASE Fetch(r)
  <2> DEFINE j == [NoJob EXCEPT !.at = "apply", !.total = pages, !.attempts = job[r].attempts]
  <2>1. j \in JobRows /\ j.at = "apply"
    <3>1. pages \in 0 .. MaxPages /\ job[r].attempts \in 0 .. MaxAttempts
      BY <1>1, Numbers DEF TypeOK, JobRows
    <3> QED
      BY <3>1, IdleRows DEF NoJob, JobRows, WorkerSteps
  <2>2. \/ job' = [job EXCEPT ![r] = j] /\ runs[r].next <= pages
        \/ job' = [job EXCEPT ![r] = Ended(job[r])]
    BY <1>1, <1>10 DEF Fetch
  <2>3. runs[r].next <= pages => runs[r].next <= MaxPages
    <3>1. runs[r] \in RunRows
      BY <1>10, RowTypes, Numbers DEF Fetch, JobsFit, At
    <3> QED
      BY <3>1, Numbers DEF TypeOK, RunRows
  <2> QED
    BY <1>2, <1>4, <1>5, <1>10, <2>1, <2>2, <2>3 DEF Fetch, At, TypeOK
<1>11. CASE AttemptFails(r)
  <2>1. job' = [job EXCEPT ![r] = Ended(job[r])]
    BY <1>1, <1>11 DEF AttemptFails
  <2>2. failures' \in 0 .. MaxFailures
    BY <1>11, Numbers DEF AttemptFails, Fails, TypeOK
  <2> QED
    BY <1>2, <1>4, <1>5, <1>11, <2>1, <2>2 DEF AttemptFails, At, WorkerSteps
<1> QED
  BY <1>6, <1>7, <1>8, <1>9, <1>10, <1>11

\* The steps that change a run: its row and its job.
LEMMA RunTypes ==
  ASSUME TypeInv, NEW r \in 1 .. MaxRuns, ApplyPage(r) \/ Complete(r)
  PROVE  TypeInv'
<1> USE DEF TypeInv
<1>1. /\ r \in 1 .. Len(runs) /\ runs[r] \in RunRows
      /\ job[r] \in JobRows /\ job \in [1 .. MaxRuns -> JobRows]
  BY RowTypes, Numbers DEF ApplyPage, Complete, JobsFit, At
<1>2. ASSUME NEW run \in RunRows, runs' = [runs EXCEPT ![r] = run],
             NEW j \in JobRows, job' = [job EXCEPT ![r] = j],
             j.at \in {"load", "complete", "done"},
             UNCHANGED <<issued, pages, conn, caps, call, overlapped, failures>>
      PROVE  TypeInv'
  <2>1. /\ runs' \in Seq(RunRows) /\ Len(runs') = Len(runs)
        /\ \A i \in 1 .. Len(runs) : i # r => runs'[i] = runs[i]
    BY <1>1, <1>2, RowTypes, ExceptSeq
  <2>2. /\ job' \in [1 .. MaxRuns -> JobRows] /\ job'[r] = j
        /\ \A s \in 1 .. MaxRuns : s # r => job'[s] = job[s]
    BY <1>1, <1>2
  <2>3. ASSUME NEW s \in 1 .. MaxRuns
        PROVE  /\ At(s, "none")' <=> s > Len(runs')
               /\ At(s, "apply")' => runs'[s].next <= MaxPages
               /\ At(s, "queued")' => job'[s].attempts < MaxAttempts
    <3>1. CASE s = r
      BY <3>1, <1>1, <1>2, <2>1, <2>2 DEF At
    <3>2. CASE s # r
      <4>1. At(s, "apply") => runs'[s].next = runs[s].next
        BY <3>2, <2>1, RowTypes DEF JobsFit, At
      <4> QED
        BY <3>2, <4>1, <2>1, <2>2 DEF JobsFit, At
    <3> QED
      BY <3>1, <3>2
  <2> QED
    BY <1>2, <2>1, <2>2, <2>3, RowTypes, TypesOfRows DEF TypeOK, JobsFit
<1>3. CASE ApplyPage(r)
  <2>1. Advanced(runs[r], job[r].total) \in RunRows
    <3>1. job[r].total \in 0 .. MaxPages
      BY <1>1 DEF JobRows
    <3> QED
      BY <1>1, <1>3, <3>1, AdvancedRun DEF ApplyPage, JobsFit
  <2>2. PICK step \in {"complete", "load"} :
          job' = [job EXCEPT ![r] = [job[r] EXCEPT !.total = 0, !.at = step]]
    BY <1>1, <1>3 DEF ApplyPage
  <2>3. 0 \in 0 .. MaxPages /\ step \in WorkerSteps
    BY Numbers DEF WorkerSteps
  <2>4. [job[r] EXCEPT !.total = 0, !.at = step] \in JobRows
        /\ [job[r] EXCEPT !.total = 0, !.at = step].at = step
    BY <1>1, <2>3 DEF JobRows
  <2> QED
    BY <1>2, <1>3, <2>1, <2>2, <2>4 DEF ApplyPage
<1>4. CASE Complete(r)
  <2> DEFINE run == [runs[r] EXCEPT !.status = "completed"]
             j == [NoJob EXCEPT !.at = "done", !.attempts = job[r].attempts]
  <2>1. run \in RunRows
    BY <1>1 DEF RunRows
  <2>2. j \in JobRows /\ j.at = "done"
    <3>1. job[r].attempts \in 0 .. MaxAttempts
      BY <1>1 DEF JobRows
    <3> QED
      BY <3>1, IdleRows DEF NoJob, JobRows
  <2>3. runs' = [runs EXCEPT ![r] = run] /\ job' = [job EXCEPT ![r] = j]
    BY <1>1, <1>4, RowTypes DEF Complete
  <2> QED
    BY <1>2, <1>4, <2>1, <2>2, <2>3 DEF Complete
<1> QED
  BY <1>3, <1>4

LEMMA NextTypes == TypeInv /\ [Next]_vars => TypeInv'
<1> SUFFICES ASSUME TypeInv, [Next]_vars PROVE TypeInv'
  OBVIOUS
<1>1. ASSUME NEW c \in Calls,
             \/ Connect(c) \/ Refresh(c) \/ Exchange(c) \/ Invalidate(c)
             \/ PersistTokens(c) \/ PersistProbe(c) \/ Disconnect(c) \/ ResetCapabilities(c)
             \/ SyncCatalog(c) \/ SyncInFlight(c) \/ CallFails(c)
      PROVE  TypeInv'
  BY <1>1, CallTypes
<1>2. ASSUME NEW c \in Calls, Enqueue(c) PROVE TypeInv'
  BY <1>2, EnqueueTypes
<1>3. ASSUME NEW r \in 1 .. MaxRuns, Work(r) \/ AttemptFails(r) PROVE TypeInv'
  BY <1>3, JobTypes, RunTypes DEF Work
<1>4. CASE CatalogChanges
  <2>1. JobsFit'
    BY <1>4, JobsUntouched DEF CatalogChanges
  <2> QED
    BY <1>4, <2>1 DEF CatalogChanges, TypeInv, TypeOK
<1>5. CASE UNCHANGED vars
  BY <1>5 DEF vars, TypeInv, TypeOK, JobsFit, At
<1> QED
  BY <1>1, <1>2, <1>3, <1>4, <1>5 DEF Next

LEMMA TypesHold == Spec => []TypeInv
<1> QED
  BY InitTypes, NextTypes, PTL DEF Spec

\* Every variable keeps its type: no attempt beyond those River gives, no page
\* beyond the catalog.
THEOREM TypeCorrect == Spec => []TypeOK
<1>1. TypeInv => TypeOK
  BY DEF TypeInv
<1> QED
  BY TypesHold, <1>1, PTL

-----------------------------------------------------------------------------

\* What a step does to the runs and their jobs.
Keeps == UNCHANGED <<runs, job>>

Claims ==
    /\ ~InFlight /\ Len(runs) < MaxRuns
    /\ runs' = Append(runs, [status |-> "running", next |-> 1, total |-> 0,
                             applied |-> <<>>])
    /\ job' = [job EXCEPT ![Len(runs) + 1] = [NoJob EXCEPT !.at = "queued"]]

LEMMA RunEffects ==
  ASSUME TypeInv, [Next]_vars
  PROVE  \/ Keeps
         \/ Claims
         \/ \E r \in 1 .. MaxRuns : Work(r) \/ AttemptFails(r)
<1>1. ASSUME NEW c \in Calls, Enqueue(c) PROVE Keeps \/ Claims
  BY <1>1 DEF Enqueue, Keeps, Claims
<1>2. ASSUME NEW c \in Calls,
             \/ Connect(c) \/ Refresh(c) \/ Exchange(c) \/ Invalidate(c)
             \/ PersistTokens(c) \/ PersistProbe(c) \/ Disconnect(c) \/ ResetCapabilities(c)
             \/ SyncCatalog(c) \/ SyncInFlight(c) \/ CallFails(c)
      PROVE  Keeps
  BY <1>2 DEF Connect, Refresh, Exchange, Invalidate, PersistTokens, PersistProbe, Disconnect,
              ResetCapabilities, SyncCatalog, SyncInFlight, CallFails, Keeps
<1>3. CatalogChanges \/ UNCHANGED vars => Keeps
  BY DEF CatalogChanges, vars, Keeps
<1> QED
  BY <1>1, <1>2, <1>3 DEF Next

\* A job past its load works on a run that is not completed: the page it applies
\* is one of those it was told of, and it completes behind the last of them.
Engaged(r) == job[r].at \in {"gate", "token", "fetch", "apply", "complete"}

Underway ==
    \A r \in DOMAIN runs :
        /\ Engaged(r) => runs[r].status = "running"
        /\ At(r, "apply") => runs[r].next <= job[r].total
        /\ At(r, "complete") => runs[r].total > 0 /\ runs[r].next = runs[r].total + 1

LEMMA NextUnderway == TypeInv /\ Underway /\ [Next]_vars => Underway'
<1> SUFFICES ASSUME TypeInv, Underway, [Next]_vars PROVE Underway'
  OBVIOUS
<1> USE DEF TypeInv
<1> DEFINE Fits(run, j) ==
              /\ j.at \in {"gate", "token", "fetch", "apply", "complete"} => run.status = "running"
              /\ j.at = "apply" => run.next <= j.total
              /\ j.at = "complete" => run.total > 0 /\ run.next = run.total + 1
<1>1. \A r \in 1 .. Len(runs) : Fits(runs[r], job[r])
  BY RowTypes DEF Underway, Engaged, At
<1>2. ASSUME DOMAIN runs' = 1 .. Len(runs), NEW r \in 1 .. MaxRuns,
             \A q \in 1 .. Len(runs) : q # r => runs'[q] = runs[q] /\ job'[q] = job[q],
             r \in 1 .. Len(runs) => Fits(runs'[r], job'[r])
      PROVE  Underway'
  BY <1>1, <1>2 DEF Underway, Engaged, At
<1>3. CASE Keeps
  BY <1>3 DEF Keeps, Underway, Engaged, At
<1>4. CASE Claims
  <2> DEFINE run == [status |-> "running", next |-> 1, total |-> 0, applied |-> <<>>]
             new == [NoJob EXCEPT !.at = "queued"]
  <2>1. /\ DOMAIN runs' = 1 .. Len(runs) + 1
        /\ \A i \in 1 .. Len(runs) : runs'[i] = runs[i]
    <3>1. run \in RunRows
      <4>1. 1 \in 1 .. MaxPages + 1 /\ 0 \in 0 .. MaxPages /\ <<>> \in Seq(1 .. MaxPages)
        BY Numbers, EmptySeq
      <4> QED
        BY <4>1 DEF RunRows
    <3> QED
      BY <1>4, <3>1, RowTypes, AppendProperties, LenProperties DEF Claims
  <2>2. /\ job'[Len(runs) + 1].at = "queued"
        /\ \A i \in 1 .. Len(runs) : job'[i] = job[i]
    BY <1>4, RowTypes, Numbers DEF Claims, NoJob
  <2>3. ASSUME NEW q \in DOMAIN runs' PROVE Fits(runs'[q], job'[q])
    <3>1. q \in 1 .. Len(runs) \/ q = Len(runs) + 1
      BY <2>1, RowTypes
    <3>2. CASE q \in 1 .. Len(runs)
      BY <1>1, <2>1, <2>2, <3>2
    <3>3. CASE q = Len(runs) + 1
      BY <2>2, <3>3
    <3> QED
      BY <3>1, <3>2, <3>3
  <2> QED
    BY <2>3 DEF Underway, Engaged, At
<1>5. ASSUME NEW r \in 1 .. MaxRuns, ApplyPage(r) PROVE Underway'
  <2> DEFINE new == Advanced(runs[r], job[r].total)
             j == [job[r] EXCEPT !.total = 0,
                       !.at = IF AtEnd(runs[r].next, job[r].total)
                              THEN "complete" ELSE "load"]
  <2>1. /\ r \in 1 .. Len(runs) /\ runs[r] \in RunRows /\ runs[r].next <= MaxPages
        /\ job[r] \in JobRows /\ job[r].total \in 0 .. MaxPages
    BY <1>5, RowTypes, Numbers DEF ApplyPage, JobsFit, At, JobRows
  <2>2. /\ new \in RunRows /\ new.status = runs[r].status
        /\ new.next = runs[r].next + 1 /\ new.total = job[r].total
    BY <2>1, AdvancedRun
  <2>3. /\ DOMAIN runs' = 1 .. Len(runs) /\ runs'[r] = new
        /\ \A i \in 1 .. Len(runs) : i # r => runs'[i] = runs[i]
    BY <1>5, <2>1, <2>2, RowTypes, ExceptSeq, LenProperties DEF ApplyPage
  <2>4. job' = [job EXCEPT ![r] = j]
    BY <1>5 DEF ApplyPage
  <2>5. j.at = IF AtEnd(runs[r].next, job[r].total) THEN "complete" ELSE "load"
    BY <2>1 DEF JobRows
  <2>6. runs[r].status = "running" /\ runs[r].next <= job[r].total /\ runs[r].next \in Nat \ {0}
    BY <1>1, <1>5, <2>1, Numbers DEF ApplyPage, At, RunRows
  <2>7. j.at = "complete" => runs[r].next = job[r].total
    BY <2>1, <2>5, <2>6, Numbers DEF AtEnd
  <2> HIDE DEF new, j
  <2>8. Fits(new, j)
    BY <2>2, <2>5, <2>6, <2>7
  <2>9. job'[r] = j /\ \A q \in 1 .. Len(runs) : q # r => job'[q] = job[q]
    BY <2>4, RowTypes
  <2> HIDE DEF Fits
  <2> QED
    BY <1>2, <2>3, <2>8, <2>9
<1>6. ASSUME NEW r \in 1 .. MaxRuns, Complete(r) PROVE Underway'
  <2>1. r \in 1 .. Len(runs) /\ runs[r] \in RunRows
    BY <1>6, RowTypes, Numbers DEF Complete, JobsFit, At
  <2>2. [runs[r] EXCEPT !.status = "completed"] \in RunRows
    BY <2>1 DEF RunRows
  <2>3. /\ DOMAIN runs' = 1 .. Len(runs)
        /\ \A i \in 1 .. Len(runs) : i # r => runs'[i] = runs[i]
    BY <1>6, <2>1, <2>2, RowTypes, ExceptSeq, LenProperties DEF Complete
  <2>4. job'[r].at = "done" /\ \A q \in 1 .. Len(runs) : q # r => job'[q] = job[q]
    BY <1>6, RowTypes DEF Complete, NoJob
  <2> QED
    BY <1>2, <2>3, <2>4
<1>7. ASSUME NEW r \in 1 .. MaxRuns,
             \/ Attempt(r) \/ LoadRun(r) \/ Gate(r) \/ LoadToken(r) \/ Fetch(r)
             \/ AttemptFails(r)
      PROVE  Underway'
  <2>1. /\ runs' = runs /\ job[r] \in JobRows
        /\ \A q \in 1 .. Len(runs) : q # r => job'[q] = job[q]
    <3>1. runs' = runs /\ job[r] \in JobRows
      BY <1>7, RowTypes DEF Attempt, LoadRun, Gate, LoadToken, Fetch, AttemptFails
    <3>2. \A q \in 1 .. MaxRuns : q # r => job'[q] = job[q]
      <4>1. CASE Attempt(r) \/ LoadRun(r) \/ AttemptFails(r)
        BY <4>1, RowTypes DEF Attempt, LoadRun, MovesTo, AttemptFails
      <4>2. CASE Gate(r)
        BY <4>2, RowTypes DEF Gate
      <4>3. CASE LoadToken(r) \/ Fetch(r)
        BY <4>3, RowTypes DEF LoadToken, Fetch
      <4> QED
        BY <1>7, <4>1, <4>2, <4>3
    <3>3. \A q \in 1 .. Len(runs) : q \in 1 .. MaxRuns
      BY RowTypes, Numbers
    <3> QED
      BY <3>1, <3>2, <3>3
  <2>2. ASSUME r \in 1 .. Len(runs) PROVE Fits(runs[r], job'[r])
    <3>1. runs[r].status \in {"running", "completed"}
      BY <2>2, RowTypes DEF RunRows
    <3>2. CASE Attempt(r)
      <4>1. job'[r].at = "load"
        BY <2>1, <3>2, RowTypes DEF Attempt, JobRows
      <4> QED
        BY <4>1
    <3>3. CASE LoadRun(r)
      <4>1. job'[r].at = IF runs[r].status = "completed" THEN "done" ELSE "gate"
        BY <2>1, <3>3, RowTypes DEF LoadRun, MovesTo, JobRows
      <4> QED
        BY <3>1, <4>1
    <3>4. CASE Gate(r) \/ LoadToken(r)
      <4>1. job'[r].at \in {"token", "fetch", "queued", "discarded"}
        BY <2>1, <3>4, RowTypes, EndedJob DEF Gate, LoadToken, JobRows
      <4>2. runs[r].status = "running"
        BY <1>1, <2>2, <3>4 DEF Gate, LoadToken, At
      <4> QED
        BY <4>1, <4>2
    <3>5. CASE Fetch(r)
      <4>1. \/ job'[r].at = "apply" /\ job'[r].total = pages /\ runs[r].next <= pages
            \/ job'[r].at \in {"queued", "discarded"}
        BY <2>1, <3>5, RowTypes, EndedJob DEF Fetch, NoJob
      <4>2. runs[r].status = "running"
        BY <1>1, <2>2, <3>5 DEF Fetch, At
      <4> QED
        BY <4>1, <4>2
    <3>6. CASE AttemptFails(r)
      <4>1. job'[r].at \in {"queued", "discarded"}
        BY <2>1, <3>6, RowTypes, EndedJob DEF AttemptFails
      <4> QED
        BY <4>1
    <3> QED
      BY <1>7, <3>2, <3>3, <3>4, <3>5, <3>6
  <2>3. DOMAIN runs' = 1 .. Len(runs)
    BY <2>1, RowTypes
  <2> HIDE DEF Fits
  <2> QED
    BY <1>2, <2>1, <2>2, <2>3
<1> QED
  BY <1>3, <1>4, <1>5, <1>6, <1>7, RunEffects DEF Work

LEMMA UnderwayHolds == Spec => []Underway
<1>1. Init => Underway
  BY DEF Init, Underway
<1> QED
  BY <1>1, TypesHold, NextUnderway, PTL DEF Spec

LEMMA InitWhole == Init => RunsAreWhole
<1> SUFFICES ASSUME Init PROVE RunsAreWhole
  OBVIOUS
<1>1. DOMAIN runs = {} /\ Len(runs) = 0
  BY DEF Init
<1> QED
  BY <1>1 DEF RunsAreWhole

\* The pages up to a cursor, and the page behind it.
LEMMA NextPage ==
  ASSUME NEW n \in Nat, n > 0
  PROVE  Append([i \in 1 .. n - 1 |-> i], n) = [i \in 1 .. n |-> i]
<1> DEFINE s == [i \in 1 .. n - 1 |-> i]
           t == [i \in 1 .. n |-> i]
<1>1. s \in Seq(Nat) /\ Len(s) = n - 1 /\ t \in Seq(Nat) /\ Len(t) = n
  OBVIOUS
<1>2. /\ Append(s, n) \in Seq(Nat) /\ Len(Append(s, n)) = n
      /\ \A i \in 1 .. n - 1 : Append(s, n)[i] = s[i]
      /\ Append(s, n)[n] = n
  BY <1>1, AppendProperties
<1>3. \A i \in 1 .. n : Append(s, n)[i] = t[i]
  BY <1>2
<1> QED
  BY <1>1, <1>2, <1>3, SeqEqual

LEMMA NextWhole == TypeInv /\ Underway /\ RunsAreWhole /\ [Next]_vars => RunsAreWhole'
<1> SUFFICES ASSUME TypeInv, Underway, RunsAreWhole, [Next]_vars PROVE RunsAreWhole'
  OBVIOUS
<1> USE DEF TypeInv
<1> DEFINE Ends(run) == run.status = "completed" => run.total > 0 /\ run.next = run.total + 1
<1>1. CASE UNCHANGED runs
  BY <1>1 DEF RunsAreWhole
<1>2. CASE Claims
  <2> DEFINE run == [status |-> "running", next |-> 1, total |-> 0, applied |-> <<>>]
  <2>1. run \in RunRows
    <3>1. 1 \in 1 .. MaxPages + 1 /\ 0 \in 0 .. MaxPages /\ <<>> \in Seq(1 .. MaxPages)
      BY Numbers, EmptySeq
    <3> QED
      BY <3>1 DEF RunRows
  <2>2. /\ runs' \in Seq(RunRows) /\ Len(runs') = Len(runs) + 1
        /\ \A i \in 1 .. Len(runs) : runs'[i] = runs[i]
        /\ runs'[Len(runs) + 1] = run
    BY <1>2, <2>1, RowTypes, AppendProperties DEF Claims
  <2>3. DOMAIN runs' = 1 .. Len(runs) + 1
    BY <2>2, LenProperties
  <2>4. run.applied = [i \in 1 .. run.next - 1 |-> i]
    BY DEF run
  <2>5. \A r \in 1 .. Len(runs) : runs[r].status = "completed"
    BY <1>2, RowTypes DEF Claims, InFlight, RunRows
  <2>6. \A q \in DOMAIN runs' : q = Len(runs) + 1 \/ q \in 1 .. Len(runs)
    BY <2>3, RowTypes
  <2>7. runs'[Len(runs) + 1].applied = [i \in 1 .. runs'[Len(runs) + 1].next - 1 |-> i]
    BY <2>2, <2>4
  <2>8. \A q \in 1 .. Len(runs) : runs'[q].applied = [i \in 1 .. runs'[q].next - 1 |-> i]
    BY <2>2, RowTypes DEF RunsAreWhole
  <2>9. \A q \in DOMAIN runs' : q < Len(runs') => runs'[q].status = "completed"
    BY <2>2, <2>5, <2>6, RowTypes
  <2>10. \A q \in DOMAIN runs' : Ends(runs'[q])
    <3> SUFFICES ASSUME NEW q \in DOMAIN runs' PROVE Ends(runs'[q])
      OBVIOUS
    <3>1. CASE q \in 1 .. Len(runs)
      <4>1. runs'[q] = runs[q] /\ q \in DOMAIN runs
        BY <2>2, <3>1, RowTypes
      <4> QED
        BY <4>1 DEF RunsAreWhole
    <3>2. CASE q = Len(runs) + 1
      BY <2>2, <3>2
    <3> QED
      BY <2>6, <3>1, <3>2
  <2> QED
    BY <2>6, <2>7, <2>8, <2>9, <2>10 DEF RunsAreWhole
<1>3. ASSUME NEW r \in 1 .. MaxRuns, ApplyPage(r) PROVE RunsAreWhole'
  <2>1. r \in 1 .. Len(runs) /\ runs[r] \in RunRows /\ runs[r].next <= MaxPages
    BY <1>3, RowTypes, Numbers DEF ApplyPage, JobsFit, At
  <2> DEFINE new == Advanced(runs[r], job[r].total)
  <2>2. /\ new \in RunRows /\ new.status = runs[r].status
        /\ new.next = runs[r].next + 1
        /\ new.applied = Append(runs[r].applied, runs[r].next)
    <3>1. job[r].total \in 0 .. MaxPages
      BY RowTypes DEF JobRows
    <3> QED
      BY <2>1, <3>1, AdvancedRun
  <2> HIDE DEF new
  <2>3. /\ DOMAIN runs' = 1 .. Len(runs) /\ Len(runs') = Len(runs)
        /\ runs'[r] = new
        /\ \A i \in 1 .. Len(runs) : i # r => runs'[i] = runs[i]
    BY <1>3, <2>1, <2>2, RowTypes, ExceptSeq, LenProperties DEF ApplyPage, new
  <2>4. runs[r].next \in Nat /\ runs[r].next > 0
    BY <2>1, Numbers DEF RunRows
  <2>5. runs'[r].applied = [i \in 1 .. runs[r].next |-> i]
    <3>1. runs[r].applied = [i \in 1 .. runs[r].next - 1 |-> i]
      BY <2>1, RowTypes DEF RunsAreWhole
    <3> QED
      BY <2>2, <2>3, <2>4, <3>1, NextPage
  <2>6. runs'[r].next - 1 = runs[r].next
    BY <2>2, <2>3, <2>4
  <2>7. \A q \in DOMAIN runs' : runs'[q].applied = [i \in 1 .. runs'[q].next - 1 |-> i]
    BY <2>3, <2>5, <2>6, RowTypes DEF RunsAreWhole
  <2>8. \A q \in DOMAIN runs' : q < Len(runs') => runs'[q].status = "completed"
    BY <2>1, <2>2, <2>3, RowTypes DEF RunsAreWhole
  <2>9. \A q \in DOMAIN runs' : Ends(runs'[q])
    <3>1. runs'[r].status = "running"
      BY <1>3, <2>1, <2>2, <2>3 DEF Underway, Engaged, ApplyPage, At
    <3>2. ASSUME NEW q \in DOMAIN runs', q # r PROVE Ends(runs'[q])
      <4>1. runs'[q] = runs[q] /\ q \in DOMAIN runs
        BY <2>3, <3>2, RowTypes
      <4> QED
        BY <4>1 DEF RunsAreWhole
    <3> QED
      BY <3>1, <3>2
  <2> QED
    BY <2>7, <2>8, <2>9 DEF RunsAreWhole
<1>4. ASSUME NEW r \in 1 .. MaxRuns, Complete(r) PROVE RunsAreWhole'
  <2>1. r \in 1 .. Len(runs) /\ runs[r] \in RunRows
    BY <1>4, RowTypes, Numbers DEF Complete, JobsFit, At
  <2> DEFINE run == [runs[r] EXCEPT !.status = "completed"]
  <2>2. /\ run \in RunRows /\ run.status = "completed"
        /\ run.next = runs[r].next /\ run.applied = runs[r].applied
        /\ run.total = runs[r].total
    BY <2>1 DEF RunRows
  <2>3. runs' = [runs EXCEPT ![r] = run]
    BY <1>4 DEF Complete
  <2>4. /\ DOMAIN runs' = 1 .. Len(runs) /\ Len(runs') = Len(runs)
        /\ runs'[r] = run
        /\ \A i \in 1 .. Len(runs) : i # r => runs'[i] = runs[i]
    BY <2>1, <2>2, <2>3, RowTypes, ExceptSeq, LenProperties
  <2>5. \A q \in DOMAIN runs' : runs'[q].applied = [i \in 1 .. runs'[q].next - 1 |-> i]
    BY <2>1, <2>2, <2>4, RowTypes DEF RunsAreWhole
  <2>6. \A q \in DOMAIN runs' : q < Len(runs') => runs'[q].status = "completed"
    BY <2>1, <2>2, <2>4, RowTypes DEF RunsAreWhole
  <2>7. \A q \in DOMAIN runs' : Ends(runs'[q])
    <3>1. run.total > 0 /\ run.next = run.total + 1
      BY <1>4, <2>1, <2>2 DEF Underway, Complete, At
    <3>2. ASSUME NEW q \in DOMAIN runs', q # r PROVE Ends(runs'[q])
      <4>1. runs'[q] = runs[q] /\ q \in DOMAIN runs
        BY <2>4, <3>2, RowTypes
      <4> QED
        BY <4>1 DEF RunsAreWhole
    <3> QED
      BY <2>4, <3>1, <3>2
  <2> QED
    BY <2>5, <2>6, <2>7 DEF RunsAreWhole
<1>5. ASSUME NEW r \in 1 .. MaxRuns,
             \/ Attempt(r) \/ LoadRun(r) \/ Gate(r) \/ LoadToken(r) \/ Fetch(r)
             \/ AttemptFails(r)
      PROVE  UNCHANGED runs
  BY <1>5 DEF Attempt, LoadRun, Gate, LoadToken, Fetch, AttemptFails
<1> QED
  BY <1>1, <1>2, <1>3, <1>4, <1>5, RunEffects DEF Keeps, Work

\* However often jobs are retried, the catalog changes and requests race, a run
\* applies each page once and in order, is completed exactly behind the last page
\* it was told of, and runs follow one another.
THEOREM WholeRuns == Spec => []RunsAreWhole
<1> QED
  BY TypesHold, UnderwayHolds, InitWhole, NextWhole, PTL DEF Spec

-----------------------------------------------------------------------------

\* A job keeps a run in flight going.
Drives(j) == j.at \in WorkerSteps \cup {"queued"} \/ j.attempts = MaxAttempts

LEMMA InitDriven == Init => RunInFlightIsDriven
BY DEF Init, RunInFlightIsDriven

LEMMA NextDriven == TypeInv /\ RunInFlightIsDriven /\ [Next]_vars => RunInFlightIsDriven'
<1> SUFFICES ASSUME TypeInv, RunInFlightIsDriven, [Next]_vars PROVE RunInFlightIsDriven'
  OBVIOUS
<1> USE DEF TypeInv
<1>1. CASE Keeps
  BY <1>1 DEF Keeps, RunInFlightIsDriven
<1>2. CASE Claims
  <2> DEFINE run == [status |-> "running", next |-> 1, total |-> 0, applied |-> <<>>]
             new == [NoJob EXCEPT !.at = "queued"]
  <2>1. run \in RunRows
    <3>1. 1 \in 1 .. MaxPages + 1 /\ 0 \in 0 .. MaxPages /\ <<>> \in Seq(1 .. MaxPages)
      BY Numbers, EmptySeq
    <3> QED
      BY <3>1 DEF RunRows
  <2>2. /\ DOMAIN runs' = 1 .. Len(runs) + 1
        /\ \A i \in 1 .. Len(runs) : runs'[i] = runs[i]
    BY <1>2, <2>1, RowTypes, AppendProperties, LenProperties DEF Claims
  <2>3. Len(runs) + 1 \in 1 .. MaxRuns
    BY <1>2, RowTypes, Numbers DEF Claims
  <2>4. /\ job'[Len(runs) + 1] = new /\ new.at = "queued"
        /\ \A r \in 1 .. Len(runs) : job'[r] = job[r]
    BY <1>2, <2>3, RowTypes, Numbers DEF Claims, NoJob
  <2>5. \A r \in DOMAIN runs' : r = Len(runs) + 1 \/ r \in 1 .. Len(runs)
    BY <2>2, RowTypes
  <2> QED
    BY <2>2, <2>4, <2>5, RowTypes DEF RunInFlightIsDriven
<1>3. ASSUME NEW r \in 1 .. MaxRuns, Work(r) \/ AttemptFails(r)
      PROVE  RunInFlightIsDriven'
  <2>1. /\ r \in 1 .. Len(runs) /\ runs[r] \in RunRows
        /\ job[r] \in JobRows /\ job \in [1 .. MaxRuns -> JobRows]
    <3>1. ~At(r, "none")
      BY <1>3 DEF Work, Attempt, LoadRun, Gate, LoadToken, Fetch, ApplyPage, Complete,
                  AttemptFails, At, WorkerSteps
    <3> QED
      BY <3>1, RowTypes, Numbers DEF JobsFit
  <2>2. Drives(Ended(job[r]))
    BY <2>1, EndedJob DEF Drives
  <2>3. \A q \in 1 .. MaxRuns : q # r => job'[q] = job[q]
    BY <1>3, <2>1 DEF Work, Attempt, LoadRun, Gate, LoadToken, Fetch, ApplyPage, Complete,
                      AttemptFails, MovesTo
  <2>4. ASSUME UNCHANGED runs, Drives(job'[r]) PROVE RunInFlightIsDriven'
    BY <2>1, <2>3, <2>4, RowTypes, Numbers DEF RunInFlightIsDriven, Drives
  <2>5. CASE Attempt(r)
    <3>1. job'[r].at = "load"
      BY <2>1, <2>5 DEF Attempt, JobRows
    <3> QED
      BY <2>4, <2>5, <3>1 DEF Attempt, Drives, WorkerSteps
  <2>6. CASE LoadRun(r)
    <3>1. CASE runs[r].status = "completed"
      BY <2>1, <2>3, <2>6, <3>1, RowTypes, Numbers DEF LoadRun, RunInFlightIsDriven
    <3>2. CASE runs[r].status # "completed"
      <4>1. job'[r].at = "gate"
        BY <2>1, <2>6, <3>2 DEF LoadRun, MovesTo, JobRows
      <4> QED
        BY <2>4, <2>6, <4>1 DEF LoadRun, Drives, WorkerSteps
    <3> QED
      BY <3>1, <3>2
  <2>7. CASE Gate(r)
    <3>1. job'[r].at = "token" \/ job'[r] = Ended(job[r])
      BY <2>1, <2>7 DEF Gate, JobRows
    <3> QED
      BY <2>2, <2>4, <2>7, <3>1 DEF Gate, Drives, WorkerSteps
  <2>8. CASE LoadToken(r)
    <3>1. job'[r].at = "fetch" \/ job'[r] = Ended(job[r])
      BY <2>1, <2>8 DEF LoadToken, JobRows
    <3> QED
      BY <2>2, <2>4, <2>8, <3>1 DEF LoadToken, Drives, WorkerSteps
  <2>9. CASE Fetch(r)
    <3>1. job'[r].at = "apply" \/ job'[r] = Ended(job[r])
      BY <2>1, <2>9 DEF Fetch, NoJob
    <3> QED
      BY <2>2, <2>4, <2>9, <3>1 DEF Fetch, Drives, WorkerSteps
  <2>10. CASE AttemptFails(r)
    <3>1. job'[r] = Ended(job[r])
      BY <2>1, <2>10 DEF AttemptFails
    <3> QED
      BY <2>2, <2>4, <2>10, <3>1 DEF AttemptFails
  <2>11. CASE ApplyPage(r)
    <3>1. job'[r].at \in {"complete", "load"}
      BY <2>1, <2>11 DEF ApplyPage, JobRows
    <3>2. Advanced(runs[r], job[r].total) \in RunRows
      <4>1. job[r].total \in 0 .. MaxPages
        BY <2>1 DEF JobRows
      <4> QED
        BY <2>1, <2>11, <4>1, AdvancedRun DEF ApplyPage, JobsFit
    <3>3. /\ DOMAIN runs' = 1 .. Len(runs)
          /\ \A i \in 1 .. Len(runs) : i # r => runs'[i] = runs[i]
      BY <2>1, <2>11, <3>2, RowTypes, ExceptSeq, LenProperties DEF ApplyPage
    <3> QED
      BY <2>1, <2>3, <3>1, <3>3, RowTypes, Numbers DEF RunInFlightIsDriven, WorkerSteps
  <2>12. CASE Complete(r)
    <3> DEFINE run == [runs[r] EXCEPT !.status = "completed"]
    <3>1. run \in RunRows /\ run.status = "completed"
      BY <2>1 DEF RunRows
    <3>2. /\ DOMAIN runs' = 1 .. Len(runs) /\ runs'[r] = run
          /\ \A i \in 1 .. Len(runs) : i # r => runs'[i] = runs[i]
      BY <2>1, <2>12, <3>1, RowTypes, ExceptSeq, LenProperties DEF Complete
    <3>3. runs'[r].status = "completed"
      BY <3>1, <3>2
    <3> HIDE DEF run
    <3> QED
      BY <2>1, <2>3, <3>2, <3>3, RowTypes, Numbers DEF RunInFlightIsDriven
  <2> QED
    BY <1>3, <2>5, <2>6, <2>7, <2>8, <2>9, <2>10, <2>11, <2>12 DEF Work
<1> QED
  BY <1>1, <1>2, <1>3, RunEffects

\* Errors, closed gates and lost workers never leave a run in flight without a
\* job, as long as River has attempts to give.
THEOREM DrivenRuns == Spec => []RunInFlightIsDriven
<1> QED
  BY TypesHold, InitDriven, NextDriven, PTL DEF Spec

-----------------------------------------------------------------------------
(***************************************************************************)
(* The registry.  While requests that change credentials do not overlap,   *)
(* the one in progress has reset the capabilities when it persists its     *)
(* tokens, and it probes with the tokens in use.                           *)
(***************************************************************************)

CredentialSteps == {"exchange", "invalidate", "persist", "probe", "reset"}

OneChange ==
    /\ \A c \in Calls : call[c].at \in CredentialSteps => c \in Changing
    /\ \A c \in Calls : call[c].at = "idle" => c \notin Changing
    /\ overlapped \/ \A c, d \in Changing : c = d

CallsAgree ==
    overlapped \/ \A c \in Calls :
        /\ call[c].at = "persist" => \A p \in Capabilities : ~Supported(p)
        /\ call[c].at = "probe" => conn = [state |-> "connected", gen |-> call[c].gen]

RegistryInv == TypeInv /\ OneChange /\ CallsAgree /\ RegistryIsCurrent

LEMMA NothingSupported ==
  ASSUME caps' = AllUnknown
  PROVE  \A p \in Capabilities : ~Supported(p)'
BY DEF AllUnknown, Unknown, Supported

LEMMA InitRegistry == Init => RegistryInv
<1> SUFFICES ASSUME Init PROVE RegistryInv
  OBVIOUS
<1>1. TypeInv
  BY InitTypes
<1>2. \A c \in Calls : call[c] = IdleCall
  BY DEF Init
<1>3. OneChange /\ CallsAgree
  BY <1>2 DEF OneChange, CallsAgree, CredentialSteps, Changing, IdleCall, Credential
<1>4. RegistryIsCurrent
  BY DEF Init, RegistryIsCurrent
<1> QED
  BY <1>1, <1>3, <1>4 DEF RegistryInv

\* A request that begins to change credentials is alone, or they overlap.
LEMMA BeginsAlone ==
  ASSUME RegistryInv, NEW c \in Calls, NEW op \in Credential,
         NEW at \in {"exchange", "reset"}, Begin(c, op, at),
         overlapped' = (overlapped \/ Changing # {})
  PROVE  /\ OneChange'
         /\ \A d \in Calls : d # c => call'[d] = call[d]
         /\ call'[c].at = at
         /\ ~overlapped' => \A d \in Calls : d # c => call[d].at \notin CredentialSteps
<1> DEFINE k == [IdleCall EXCEPT !.op = op, !.at = at]
<1>1. call \in [Calls -> CallRows]
  BY RowTypes DEF RegistryInv, TypeInv
<1>2. /\ \A d \in Calls : d # c => call'[d] = call[d]
      /\ call'[c] = k /\ k.op = op /\ k.at = at
  BY <1>1 DEF Begin, IdleCall
<1>3. \A d \in Calls : d \in Changing' <=> d = c \/ d \in Changing
  BY <1>2 DEF Changing
<1>4. \A d \in Calls : call'[d].at \in CredentialSteps => d \in Changing'
  BY <1>2, <1>3 DEF RegistryInv, OneChange
<1>5. \A d \in Calls : call'[d].at = "idle" => d \notin Changing'
  BY <1>2, <1>3 DEF RegistryInv, OneChange
<1>6. ~overlapped' => Changing = {}
  OBVIOUS
<1>7. overlapped' \/ \A d, e \in Changing' : d = e
  BY <1>3, <1>6 DEF Changing
<1> QED
  BY <1>2, <1>4, <1>5, <1>6, <1>7 DEF RegistryInv, OneChange

\* A request that goes on keeps its operation; one that ends is idle.
LEMMA GoesOn ==
  ASSUME RegistryInv, NEW c \in Calls, NEW k \in CallRows, call' = [call EXCEPT ![c] = k],
         UNCHANGED overlapped,
         \/ k = IdleCall
         \/ /\ k.op = call[c].op /\ k.at # "idle"
            /\ k.at \in CredentialSteps => call[c].at \in CredentialSteps
  PROVE  OneChange' /\ call'[c] = k /\ \A d \in Calls : d # c => call'[d] = call[d]
<1>1. call'[c] = k /\ \A d \in Calls : d # c => call'[d] = call[d]
  BY CallStep DEF RegistryInv, TypeInv
<1>2. CASE k = IdleCall
  <2>1. k.at = "idle" /\ k.op = "none"
    BY <1>2 DEF IdleCall
  <2>2. c \notin Changing' /\ Changing' \subseteq Changing
    BY <1>1, <2>1 DEF Changing, Credential
  <2>3. \A d \in Calls : d # c => (d \in Changing' <=> d \in Changing)
    BY <1>1 DEF Changing
  <2> QED
    BY <1>1, <2>1, <2>2, <2>3 DEF RegistryInv, OneChange, CredentialSteps
<1>3. CASE /\ k.op = call[c].op /\ k.at # "idle"
           /\ k.at \in CredentialSteps => call[c].at \in CredentialSteps
  <2>1. \A d \in Calls : d \in Changing' <=> d \in Changing
    BY <1>1, <1>3 DEF Changing
  <2>2. k.at \in CredentialSteps => c \in Changing
    BY <1>3 DEF RegistryInv, OneChange
  <2>3. Changing' = Changing
    BY <2>1 DEF Changing
  <2> QED
    BY <1>1, <1>3, <2>2, <2>3 DEF RegistryInv, OneChange, CredentialSteps
<1> QED
  BY <1>1, <1>2, <1>3

\* Only one request is changing credentials.
LEMMA Alone ==
  ASSUME RegistryInv, ~overlapped, NEW c \in Calls, call[c].at \in CredentialSteps
  PROVE  \A d \in Calls : d # c => call[d].at \notin CredentialSteps
BY DEF RegistryInv, OneChange

LEMMA NextRegistry == RegistryInv /\ [Next]_vars => RegistryInv'
<1> SUFFICES ASSUME RegistryInv, [Next]_vars PROVE RegistryInv'
  OBVIOUS
<1>1. TypeInv'
  BY NextTypes DEF RegistryInv
<1>2. call \in [Calls -> CallRows]
  BY RowTypes DEF RegistryInv, TypeInv
<1>3. IdleCall \in CallRows /\ IdleCall.at = "idle"
  BY IdleRows DEF IdleCall
\* A step that leaves the registry alone, and brings no request to a step that
\* the registry has to agree with.
<1>4. ASSUME UNCHANGED <<conn, caps>>, overlapped => overlapped', OneChange',
             \A d \in Calls : call'[d] = call[d] \/ call'[d].at \notin {"persist", "probe"}
      PROVE  RegistryInv'
  BY <1>1, <1>4 DEF RegistryInv, CallsAgree, RegistryIsCurrent, Supported
<1>5. ASSUME NEW c \in Calls, Connect(c) \/ Refresh(c) PROVE RegistryInv'
  <2>1. PICK op \in {"connect", "refresh"} : Begin(c, op, "exchange")
    BY <1>5 DEF Connect, Refresh
  <2>2. overlapped' = (overlapped \/ Changing # {})
    BY <1>5 DEF Connect, Refresh
  <2>3. /\ OneChange' /\ call'[c].at = "exchange"
        /\ \A d \in Calls : d # c => call'[d] = call[d]
    BY <2>1, <2>2, BeginsAlone DEF Credential
  <2> QED
    BY <1>4, <1>5, <2>2, <2>3 DEF Connect, Refresh
<1>6. ASSUME NEW c \in Calls, Exchange(c) PROVE RegistryInv'
  <2> DEFINE k == [call[c] EXCEPT !.at = "invalidate", !.gen = issued + 1]
  <2>1. call' = [call EXCEPT ![c] = k]
    BY <1>2, <1>6 DEF Exchange
  <2>2. issued + 1 \in Generations
    BY <1>1, <1>6 DEF Exchange, TypeInv, TypeOK
  <2>3. k \in CallRows /\ k.op = call[c].op /\ k.at = "invalidate"
    BY <1>2, <2>2 DEF CallRows
  <2>4. OneChange' /\ call'[c] = k /\ \A d \in Calls : d # c => call'[d] = call[d]
    BY <1>6, <2>1, <2>3, GoesOn DEF Exchange, CredentialSteps
  <2> QED
    BY <1>4, <1>6, <2>3, <2>4 DEF Exchange
<1>7. ASSUME NEW c \in Calls, Invalidate(c) PROVE RegistryInv'
  <2> DEFINE k == [call[c] EXCEPT !.at = "persist"]
  <2>1. k \in CallRows /\ k.op = call[c].op /\ k.at = "persist"
    BY <1>2 DEF CallRows
  <2>2. OneChange' /\ call'[c] = k /\ \A d \in Calls : d # c => call'[d] = call[d]
    BY <1>7, <2>1, GoesOn DEF Invalidate, CredentialSteps
  <2>3. \A p \in Capabilities : ~Supported(p)'
    BY <1>7, NothingSupported DEF Invalidate, Reset
  <2>4. overlapped \/ \A d \in Calls : d # c => call[d].at # "probe"
    BY <1>7, Alone DEF Invalidate, CredentialSteps
  <2>5. CallsAgree'
    BY <1>7, <2>1, <2>2, <2>3, <2>4 DEF CallsAgree, Invalidate
  <2> QED
    BY <1>1, <2>2, <2>3, <2>5 DEF RegistryInv, RegistryIsCurrent
<1>8. ASSUME NEW c \in Calls, PersistTokens(c) PROVE RegistryInv'
  <2> DEFINE k == [call[c] EXCEPT !.at = "probe"]
  <2>1. k \in CallRows /\ k.op = call[c].op /\ k.at = "probe" /\ k.gen = call[c].gen
    BY <1>2 DEF CallRows
  <2>2. OneChange' /\ call'[c] = k /\ \A d \in Calls : d # c => call'[d] = call[d]
    BY <1>8, <2>1, GoesOn DEF PersistTokens, CredentialSteps
  <2>3. overlapped \/ \A p \in Capabilities : ~Supported(p)
    BY <1>8 DEF PersistTokens, RegistryInv, CallsAgree
  <2>4. overlapped' = overlapped /\ caps' = caps
        /\ conn' = [state |-> "connected", gen |-> call[c].gen]
    BY <1>8 DEF PersistTokens
  <2>5. overlapped \/ \A d \in Calls : d # c => call[d].at \notin {"persist", "probe"}
    BY <1>8, Alone DEF PersistTokens, CredentialSteps
  <2>6. CallsAgree'
    BY <2>1, <2>2, <2>4, <2>5 DEF CallsAgree
  <2>7. RegistryIsCurrent'
    BY <2>3, <2>4 DEF RegistryIsCurrent, Supported
  <2> QED
    BY <1>1, <2>2, <2>6, <2>7 DEF RegistryInv
<1>9. ASSUME NEW c \in Calls, PersistProbe(c) PROVE RegistryInv'
  <2> DEFINE k == AfterProbe(call[c])
  <2>1. k \in CallRows
    <3>1. call'[c] = k
      BY <1>2, <1>9 DEF PersistProbe
    <3>2. call' \in [Calls -> CallRows]
      BY <1>1 DEF TypeInv, TypeOK, CallRows
    <3> QED
      BY <3>1, <3>2
  <2>2. \/ k = IdleCall
        \/ k.op = call[c].op /\ k.at = call[c].at /\ k.gen = call[c].gen
    BY <1>2 DEF AfterProbe, CallRows
  <2>3. call' = [call EXCEPT ![c] = k] /\ call[c].at = "probe"
    BY <1>9 DEF PersistProbe
  <2> HIDE DEF k
  <2>4. OneChange' /\ call'[c] = k /\ \A d \in Calls : d # c => call'[d] = call[d]
    BY <1>9, <2>1, <2>2, <2>3, GoesOn DEF PersistProbe, CredentialSteps
  <2>5. overlapped' = overlapped /\ conn' = conn
    BY <1>9 DEF PersistProbe
  <2>6. overlapped \/ \A d \in Calls : d # c => call[d].at \notin {"persist", "probe"}
    BY <2>3, Alone DEF CredentialSteps
  <2>7. CallsAgree'
    BY <1>3, <2>2, <2>3, <2>4, <2>5, <2>6 DEF RegistryInv, CallsAgree
  <2>8. overlapped \/ conn.gen = call[c].gen
    BY <2>3 DEF RegistryInv, CallsAgree
  <2>9. PICK s \in {"supported", "degraded"} :
          caps' = [caps EXCEPT ![Probed[call[c].probe]] = [status |-> s, of |-> call[c].gen]]
    BY <1>9 DEF PersistProbe
  <2>10. \A p \in Capabilities :
            caps'[p] = caps[p] \/ caps'[p] = [status |-> s, of |-> call[c].gen]
    BY <2>9 DEF RegistryInv, TypeInv, TypeOK
  <2>11. RegistryIsCurrent'
    BY <2>5, <2>8, <2>10 DEF RegistryInv, RegistryIsCurrent, Supported
  <2> QED
    BY <1>1, <2>4, <2>7, <2>11 DEF RegistryInv
<1>10. ASSUME NEW c \in Calls, Disconnect(c) PROVE RegistryInv'
  <2>1. Begin(c, "disconnect", "reset") /\ overlapped' = (overlapped \/ Changing # {})
    BY <1>10 DEF Disconnect
  <2>2. /\ OneChange' /\ call'[c].at = "reset"
        /\ \A d \in Calls : d # c => call'[d] = call[d]
        /\ ~overlapped' => \A d \in Calls : d # c => call[d].at \notin CredentialSteps
    BY <2>1, BeginsAlone DEF Credential
  <2>3. CallsAgree'
    BY <2>2 DEF CallsAgree, CredentialSteps
  <2>4. conn'.state # "connected"
    BY <1>10 DEF Disconnect
  <2> QED
    BY <1>1, <2>2, <2>3, <2>4 DEF RegistryInv, RegistryIsCurrent
<1>11. ASSUME NEW c \in Calls, ResetCapabilities(c) PROVE RegistryInv'
  <2>1. OneChange' /\ call'[c] = IdleCall /\ \A d \in Calls : d # c => call'[d] = call[d]
    BY <1>3, <1>11, GoesOn DEF ResetCapabilities
  <2>2. \A p \in Capabilities : ~Supported(p)'
    BY <1>11, NothingSupported DEF ResetCapabilities
  <2>3. CallsAgree'
    BY <1>3, <1>11, <2>1, <2>2 DEF ResetCapabilities, RegistryInv, CallsAgree
  <2> QED
    BY <1>1, <2>1, <2>2, <2>3 DEF RegistryInv, RegistryIsCurrent
<1>12. ASSUME NEW c \in Calls, SyncCatalog(c) PROVE RegistryInv'
  <2> DEFINE k == [IdleCall EXCEPT !.op = "sync", !.at = "latest"]
  <2>1. /\ call'[c] = k /\ k.op = "sync" /\ k.at = "latest" /\ call[c].at = "idle"
        /\ \A d \in Calls : d # c => call'[d] = call[d]
    BY <1>2, <1>12 DEF SyncCatalog, Begin, IdleCall
  <2>2. c \notin Changing /\ c \notin Changing'
    BY <2>1 DEF RegistryInv, OneChange, Changing, Credential
  <2>3. \A d \in Calls : d # c => (d \in Changing' <=> d \in Changing)
    BY <2>1 DEF Changing
  <2>4. Changing' = Changing
    BY <2>2, <2>3 DEF Changing
  <2>5. OneChange'
    BY <1>12, <2>1, <2>4 DEF SyncCatalog, RegistryInv, OneChange, CredentialSteps
  <2> QED
    BY <1>4, <1>12, <2>1, <2>5 DEF SyncCatalog
<1>13. ASSUME NEW c \in Calls, SyncInFlight(c) \/ Enqueue(c) \/ CallFails(c)
       PROVE  RegistryInv'
  <2> DEFINE k == [call[c] EXCEPT !.at = "enqueue"]
  <2>1. k \in CallRows /\ k.op = call[c].op /\ k.at = "enqueue"
    BY <1>2 DEF CallRows
  <2>2. call' = [call EXCEPT ![c] = IdleCall] \/ call' = [call EXCEPT ![c] = k]
    BY <1>2, <1>13 DEF SyncInFlight, Enqueue, CallFails
  <2>3. UNCHANGED <<conn, caps, overlapped>>
    BY <1>13 DEF SyncInFlight, Enqueue, CallFails
  <2>4. CASE call' = [call EXCEPT ![c] = IdleCall]
    <3>1. OneChange' /\ call'[c] = IdleCall /\ \A d \in Calls : d # c => call'[d] = call[d]
      BY <1>3, <2>3, <2>4, GoesOn
    <3> QED
      BY <1>3, <1>4, <2>3, <3>1
  <2>5. CASE call' = [call EXCEPT ![c] = k]
    <3>1. OneChange' /\ call'[c] = k /\ \A d \in Calls : d # c => call'[d] = call[d]
      BY <2>1, <2>3, <2>5, GoesOn DEF CredentialSteps
    <3> QED
      BY <1>4, <2>1, <2>3, <3>1
  <2> QED
    BY <2>2, <2>4, <2>5
<1>14. CASE UNCHANGED <<conn, caps, call, overlapped>>
  <2>1. OneChange'
    BY <1>14 DEF RegistryInv, OneChange, Changing
  <2> QED
    BY <1>4, <1>14, <2>1
<1>15. ASSUME NEW r \in 1 .. MaxRuns, Work(r) \/ AttemptFails(r)
       PROVE  UNCHANGED <<conn, caps, call, overlapped>>
  BY <1>15 DEF Work, Attempt, LoadRun, Gate, LoadToken, Fetch, ApplyPage, Complete, AttemptFails
<1>16. CatalogChanges \/ UNCHANGED vars => UNCHANGED <<conn, caps, call, overlapped>>
  BY DEF CatalogChanges, vars
<1> QED
  BY <1>5, <1>6, <1>7, <1>8, <1>9, <1>10, <1>11, <1>12, <1>13, <1>14, <1>15, <1>16 DEF Next

\* Wherever a connect, refresh or disconnect stops, no capability is Supported
\* that was not probed with the tokens of the connection.
THEOREM CurrentRegistry == Spec => []RegistryIsCurrent
<1>1. RegistryInv => RegistryIsCurrent
  BY DEF RegistryInv
<1>2. Spec => []RegistryInv
  BY InitRegistry, NextRegistry, PTL DEF Spec
<1> QED
  BY <1>1, <1>2, PTL
=============================================================================
