------------------------ MODULE DigestDeliveryProofs ------------------------
(***************************************************************************)
(* Proofs about DigestDelivery, for any number of accounts, days, job      *)
(* slots, attempts, database failures and crashes.                         *)
(***************************************************************************)
EXTENDS DigestDelivery, SequenceTheorems, TLAPS

Rows == [state: RowStates, ambiguous: BOOLEAN]

Queries == {"sending", "skipped", "dead_letter", "ambiguous", "delivered",
            "pending", "unconfirmed"}

-----------------------------------------------------------------------------

\* A guarded update changes one row, if any, and leaves it well typed.
LEMMA WriteEffect ==
  ASSUME TypeOK, NEW d \in Deliveries, NEW q \in Queries, Write(q, d)
  PROVE  /\ row' \in [Deliveries -> Rows]
         /\ \A e \in Deliveries : e # d => row'[e] = row[e]
         /\ Matches(q, row[d]) => row'[d] = Updated(q, row[d])
         /\ ~Matches(q, row[d]) => row'[d] = row[d]
<1>1. Updated(q, row[d]) \in Rows
  <2>1. row[d] \in Rows
    BY DEF TypeOK, Rows
  <2>2. CASE q = "ambiguous"
    BY <2>1, <2>2 DEF Updated, Rows
  <2>3. CASE q \in {"sending", "pending", "delivered"}
    BY <2>3 DEF Updated, Rows, RowStates, TerminalStates
  <2>4. CASE q \in {"skipped", "dead_letter", "unconfirmed"}
    BY <2>1, <2>4 DEF Updated, Rows, RowStates, TerminalStates
  <2> QED
    BY <2>2, <2>3, <2>4 DEF Queries
<1> QED
  BY <1>1 DEF TypeOK, Write, Rows

\* What a matching update requires of the row and what it leaves.
LEMMA UpdateFacts ==
  ASSUME NEW r \in Rows, NEW q \in Queries, Matches(q, r)
  PROVE  /\ q \in {"sending", "skipped", "dead_letter"} => r.state = "pending"
         /\ q \notin {"sending", "skipped", "dead_letter"} => r.state = "sending"
         /\ q = "ambiguous" =>
               Updated(q, r).state = "sending" /\ Updated(q, r).ambiguous
         /\ q # "ambiguous" => Updated(q, r).state = q
<1>1. CASE q \in {"sending", "skipped", "dead_letter"}
  <2>1. r.state = "pending"
    BY <1>1 DEF Matches
  <2>2. Updated(q, r).state = q
    BY <1>1 DEF Updated, Rows
  <2> QED
    BY <1>1, <2>1, <2>2
<1>2. CASE q \in {"delivered", "pending"}
  <2>1. r.state = "sending"
    BY <1>2 DEF Matches
  <2>2. Updated(q, r).state = q
    BY <1>2 DEF Updated
  <2> QED
    BY <1>2, <2>1, <2>2
<1>3. CASE q = "ambiguous"
  <2>1. r.state = "sending"
    BY <1>3 DEF Matches
  <2>2. Updated(q, r) = [r EXCEPT !.ambiguous = TRUE]
    BY <1>3 DEF Updated
  <2> QED
    BY <1>3, <2>1, <2>2 DEF Rows
<1>4. CASE q = "unconfirmed"
  <2>1. r.state = "sending"
    BY <1>4 DEF Matches
  <2>2. Updated(q, r) = [r EXCEPT !.state = q]
    BY <1>4 DEF Updated
  <2> QED
    BY <1>4, <2>1, <2>2 DEF Rows
<1> QED
  BY <1>1, <1>2, <1>3, <1>4 DEF Queries

\* The initial states satisfy the invariant.
LEMMA InvariantInit == Init => IInv
<1> SUFFICES ASSUME Init PROVE IInv
  OBVIOUS
<1>1. TypeOK
  <2>1. row \in [Deliveries -> Rows]
    BY DEF Init, Rows, RowStates
  <2>2. header \in [Deliveries -> 0 .. MaxNotes]
    BY DigestBounds DEF Init
  <2>3. job \in [Jobs -> [status: {"free", "queued", "running", "lost"},
                          of: Deliveries \cup {"none"},
                          attempt: 0 .. MaxAttempts]]
    BY DigestBounds DEF Init, FreeJob
  <2>4. run \in [Jobs -> [at: Steps \cup {"idle"}, items: 0 .. MaxNotes,
                          permanent: BOOLEAN]]
    BY DigestBounds DEF Init, IdleRun
  <2>5. mailed \in [Deliveries -> Seq(1 .. MaxNotes)]
    BY DEF Init
  <2>6. /\ signal \in [Deliveries -> SUBSET TerminalStates]
        /\ failures \in 0 .. MaxFailures
        /\ notes \in [Deliveries -> 0 .. MaxNotes]
        /\ late \in [Deliveries -> 0 .. MaxNotes]
    BY DigestBounds DEF Init
  <2> QED
    BY <2>1, <2>2, <2>3, <2>4, <2>5, <2>6 DEF TypeOK, Rows
<1>2. OneDriver /\ AttemptsAreCounted /\ StepFitsRow /\ ItemsAreCounted
  BY DEF Init, OneDriver, AttemptsAreCounted, StepFitsRow, ItemsAreCounted, At,
         FreeJob, IdleRun
<1>3. DayIsBounded /\ AbsentIsUntouched /\ ZeroResend /\ RecordIsTruthful
        /\ SignalIsPersisted
  BY DEF Init, DayIsBounded, AbsentIsUntouched, ZeroResend, RecordIsTruthful,
         SignalIsPersisted
<1> QED
  BY <1>1, <1>2, <1>3 DEF IInv

-----------------------------------------------------------------------------
(***************************************************************************)
(* Every step of every actor preserves the types.                          *)
(***************************************************************************)
LEMMA TypeNext == IInv /\ [Next]_vars => TypeOK'
<1> SUFFICES ASSUME IInv, [Next]_vars PROVE TypeOK'
  OBVIOUS
<1> USE DigestBounds
<1> DEFINE JobRows == [status: {"free", "queued", "running", "lost"},
                       of: Deliveries \cup {"none"}, attempt: 0 .. MaxAttempts]
           RunRows == [at: Steps \cup {"idle"}, items: 0 .. MaxNotes,
                       permanent: BOOLEAN]
<1>t. TypeOK
  BY DEF IInv
<1>g. ASSUME NEW j \in Jobs, NEW s \in Steps, Goto(j, s)
      PROVE  run' \in [Jobs -> RunRows]
  BY <1>t, <1>g DEF TypeOK, Goto
<1>r. ASSUME NEW j \in Jobs, NEW p \in BOOLEAN, Refused(j, p)
      PROVE  run' \in [Jobs -> RunRows]
  BY <1>t, <1>r DEF TypeOK, Refused, Steps
<1>f. ASSUME DatabaseFails PROVE failures' \in 0 .. MaxFailures
  BY <1>t, <1>f DEF TypeOK, DatabaseFails
<1>o. ASSUME NEW j \in Jobs, NEW s, At(j, s) PROVE job[j].of \in Deliveries
  BY <1>t, <1>o DEF IInv, OneDriver, At
<1>c. /\ FreeJob \in JobRows /\ IdleRun \in RunRows
      /\ [IdleRun EXCEPT !.at = "get"] \in RunRows
  <2>1. FreeJob \in JobRows
    BY DEF FreeJob
  <2>2. IdleRun \in RunRows
    BY DEF IdleRun
  <2>3. [IdleRun EXCEPT !.at = "get"] \in RunRows
    BY <2>2 DEF Steps
  <2> QED
    BY <2>1, <2>2, <2>3
<1>y. ASSUME NEW j \in Jobs, job[j].status # "free"
      PROVE  Retry(j) \in JobRows
  BY <1>t, <1>c DEF TypeOK, Retry
<1>e. ASSUME NEW d \in Deliveries, EnqueueDigestAccount(d)
      PROVE  job' \in [Jobs -> JobRows]
  BY <1>t, <1>e DEF TypeOK, EnqueueDigestAccount
<1>x. ASSUME NEW j \in Jobs, NEW q \in TerminalStates, Finish(j, q),
             job[j].of \in Deliveries
      PROVE  TypeOK'
  <2>1. row' \in [Deliveries -> Rows]
    BY <1>t, <1>x, WriteEffect
       DEF Finish, WriteFails, Queries, TerminalStates, TypeOK, Rows
  <2>2. run' \in [Jobs -> RunRows]
    BY <1>x, <1>g DEF Finish, Steps
  <2>3. signal' \in [Deliveries -> SUBSET TerminalStates]
    <3>1. signal[job[j].of] \cup {q} \in SUBSET TerminalStates
      BY <1>t, <1>x DEF TypeOK
    <3> QED
      BY <1>t, <1>x, <3>1 DEF Finish, Announce, TypeOK
  <2>4. failures' \in 0 .. MaxFailures
    BY <1>t, <1>x, <1>f DEF Finish, WriteFails, TypeOK
  <2> QED
    BY <1>t, <1>x, <2>1, <2>2, <2>3, <2>4 DEF Finish, TypeOK, Rows
<1>1. ASSUME NEW d \in Deliveries, EnsureDelivery(d) PROVE TypeOK'
  <2>1. row' \in [Deliveries -> Rows]
    <3>1. row[d] \in Rows
      BY <1>t DEF TypeOK, Rows
    <3>2. [row[d] EXCEPT !.state = "pending"] \in Rows
      BY <3>1 DEF Rows, RowStates
    <3> QED
      BY <1>t, <1>1, <3>2 DEF TypeOK, EnsureDelivery, Rows
  <2> QED
    BY <1>t, <1>1, <1>e, <2>1 DEF TypeOK, EnsureDelivery, Rows
<1>2. ASSUME NEW d \in Deliveries, RecoverNonterminal(d) PROVE TypeOK'
  BY <1>t, <1>2, <1>e DEF TypeOK, RecoverNonterminal
<1>3. ASSUME NEW d \in Deliveries, CommitLate(d) PROVE TypeOK'
  <2>1. notes' \in [Deliveries -> 0 .. MaxNotes] /\ late' \in [Deliveries -> 0 .. MaxNotes]
    BY <1>t, <1>3 DEF TypeOK, CommitLate, IInv, DayIsBounded
  <2> QED
    BY <1>t, <1>3, <2>1 DEF TypeOK, CommitLate
<1>4. ASSUME NEW j \in Jobs, Fetch(j) PROVE TypeOK'
  <2>1. job' \in [Jobs -> JobRows]
    <3>1. job[j] \in JobRows /\ job[j].attempt < MaxAttempts
      BY <1>t, <1>4 DEF TypeOK, Fetch, IInv, AttemptsAreCounted
    <3>2. job[j].attempt + 1 \in 0 .. MaxAttempts
      BY <3>1
    <3>3. [job[j] EXCEPT !.status = "running", !.attempt = @ + 1] \in JobRows
      BY <3>1, <3>2
    <3> QED
      BY <1>t, <1>4, <3>3 DEF TypeOK, Fetch
  <2>2. run' \in [Jobs -> RunRows]
    BY <1>t, <1>4, <1>c DEF TypeOK, Fetch
  <2> QED
    BY <1>t, <1>4, <2>1, <2>2 DEF TypeOK, Fetch
<1>5. ASSUME NEW j \in Jobs, Conclude(j) PROVE TypeOK'
  <2>1. Snooze(j) \in JobRows
    <3>1. job[j] \in JobRows /\ job[j].attempt > 0
      BY <1>t, <1>5 DEF TypeOK, Conclude, IInv, AttemptsAreCounted, At
    <3>2. job[j].attempt - 1 \in 0 .. MaxAttempts
      BY <3>1
    <3> QED
      BY <3>1, <3>2 DEF Snooze
  <2>2. job' \in [Jobs -> JobRows]
    BY <1>t, <1>5, <1>c, <1>y, <2>1 DEF TypeOK, Conclude, At
  <2>3. run' \in [Jobs -> RunRows]
    BY <1>t, <1>5, <1>c DEF TypeOK, Conclude
  <2> QED
    BY <1>t, <1>5, <2>2, <2>3 DEF TypeOK, Conclude
<1>6. ASSUME NEW j \in Jobs, Crash(j) PROVE TypeOK'
  <2>1. job' \in [Jobs -> JobRows]
    BY <1>t, <1>6 DEF TypeOK, Crash
  <2>2. run' \in [Jobs -> RunRows]
    BY <1>t, <1>6, <1>c DEF TypeOK, Crash
  <2> QED
    BY <1>t, <1>6, <1>f, <2>1, <2>2 DEF TypeOK, Crash
<1>7. ASSUME NEW j \in Jobs, Rescue(j) PROVE TypeOK'
  <2>1. job' \in [Jobs -> JobRows]
    BY <1>t, <1>7, <1>y DEF TypeOK, Rescue
  <2> QED
    BY <1>t, <1>7, <2>1 DEF TypeOK, Rescue
<1>8. ASSUME NEW j \in Jobs, GetDelivery(j) PROVE TypeOK'
  <2>1. Decision(row[job[j].of]) \in Steps
    <3>1. job[j].of \in Deliveries /\ row[job[j].of].state \in RowStates \ {"absent"}
      BY <1>t, <1>8 DEF GetDelivery, IInv, OneDriver, At, TypeOK
    <3> QED
      BY <1>t, <3>1 DEF Decision, Steps, RowStates, TypeOK
  <2>2. run' \in [Jobs -> RunRows]
    BY <1>8, <1>g, <2>1 DEF GetDelivery, Steps
  <2> QED
    BY <1>t, <1>8, <1>f, <2>2 DEF TypeOK, GetDelivery
<1>9. ASSUME NEW j \in Jobs, Compose(j) PROVE TypeOK'
  <2>1. notes[job[j].of] \in 0 .. MaxNotes
    BY <1>t, <1>9, <1>o DEF Compose, TypeOK
  <2>2. run' \in [Jobs -> RunRows]
    <3>1. CASE Goto(j, "skip") \/ Goto(j, "fail")
      BY <1>g, <3>1 DEF Steps
    <3>2. CASE run' = [run EXCEPT ![j].at = "claim", ![j].items = notes[job[j].of]]
      BY <1>t, <2>1, <3>2 DEF TypeOK, Steps
    <3> QED
      BY <1>9, <3>1, <3>2 DEF Compose
  <2> QED
    BY <1>t, <1>9, <2>2 DEF TypeOK, Compose
<1>10. ASSUME NEW j \in Jobs, ClaimDigest(j) PROVE TypeOK'
  <2>1. run[j].items \in 0 .. MaxNotes
    BY <1>t DEF TypeOK
  <2>2. header' \in [Deliveries -> 0 .. MaxNotes]
    BY <1>t, <1>10, <1>o, <2>1 DEF ClaimDigest, TypeOK
  <2>3. run' \in [Jobs -> RunRows]
    BY <1>10, <1>g DEF ClaimDigest, Steps
  <2> QED
    BY <1>t, <1>10, <1>f, <2>2, <2>3 DEF TypeOK, ClaimDigest
<1>11. ASSUME NEW j \in Jobs, MarkSending(j) PROVE TypeOK'
  <2>1. row' \in [Deliveries -> Rows]
    BY <1>t, <1>11, <1>o, WriteEffect DEF MarkSending, WriteFails, Queries, TypeOK, Rows
  <2>2. run' \in [Jobs -> RunRows]
    BY <1>11, <1>g DEF MarkSending, Steps
  <2> QED
    BY <1>t, <1>11, <1>f, <2>1, <2>2 DEF TypeOK, MarkSending, WriteFails, Rows
<1>12. ASSUME NEW j \in Jobs, Transmit(j) PROVE TypeOK'
  <2>1. row' \in [Deliveries -> Rows]
    BY <1>t, <1>12, <1>o, WriteEffect DEF Transmit, WriteFails, Queries, TypeOK, Rows
  <2>2. run' \in [Jobs -> RunRows]
    BY <1>12, <1>g, <1>r DEF Transmit, Steps
  <2> QED
    BY <1>t, <1>12, <1>f, <2>1, <2>2 DEF TypeOK, Transmit, WriteFails, Rows
<1>13. ASSUME NEW j \in Jobs, AwaitVerdict(j) PROVE TypeOK'
  <2>1. run[j].items \in 1 .. MaxNotes /\ job[j].of \in Deliveries
    BY <1>t, <1>13, <1>o DEF AwaitVerdict, TypeOK, IInv, ItemsAreCounted, At
  <2>2. mailed' \in [Deliveries -> Seq(1 .. MaxNotes)]
    <3>1. Append(mailed[job[j].of], run[j].items) \in Seq(1 .. MaxNotes)
      BY <1>t, <2>1 DEF TypeOK
    <3> QED
      BY <1>t, <1>13, <2>1, <3>1 DEF AwaitVerdict, TypeOK
  <2>3. run' \in [Jobs -> RunRows]
    BY <1>13, <1>g, <1>r DEF AwaitVerdict, Steps
  <2> QED
    BY <1>t, <1>13, <2>2, <2>3 DEF TypeOK, AwaitVerdict
<1>14. ASSUME NEW j \in Jobs, MarkDelivered(j) \/ MarkUnconfirmed(j) \/ MarkSkipped(j)
       PROVE TypeOK'
  BY <1>14, <1>o, <1>x DEF MarkDelivered, MarkUnconfirmed, MarkSkipped, TerminalStates
<1>15. ASSUME NEW j \in Jobs, ReleaseToPending(j) PROVE TypeOK'
  <2>1. row' \in [Deliveries -> Rows]
    BY <1>t, <1>15, <1>o, WriteEffect
       DEF ReleaseToPending, WriteFails, Queries, TypeOK, Rows
  <2>2. run' \in [Jobs -> RunRows]
    BY <1>15, <1>g DEF ReleaseToPending, Steps
  <2> QED
    BY <1>t, <1>15, <1>f, <2>1, <2>2 DEF TypeOK, ReleaseToPending, WriteFails, Rows
<1>16. ASSUME NEW j \in Jobs, FailPending(j) PROVE TypeOK'
  <2>1. CASE Finish(j, "dead_letter")
    BY <1>16, <1>o, <1>x, <2>1 DEF FailPending, TerminalStates
  <2>2. CASE Goto(j, "error") /\ UNCHANGED <<row, header, notes, late, job, mailed,
                                             signal, failures>>
    BY <1>t, <1>g, <2>2 DEF TypeOK, Steps
  <2> QED
    BY <1>16, <2>1, <2>2 DEF FailPending
<1>17. CASE UNCHANGED vars
  BY <1>t, <1>17 DEF TypeOK, vars
<1> QED
  BY <1>1, <1>2, <1>3, <1>4, <1>5, <1>6, <1>7, <1>8, <1>9, <1>10, <1>11, <1>12,
     <1>13, <1>14, <1>15, <1>16, <1>17 DEF Next, Work

-----------------------------------------------------------------------------
(***************************************************************************)
(* The record: what rows, relay and signals say of each other.             *)
(***************************************************************************)

Record == AbsentIsUntouched /\ ZeroResend /\ RecordIsTruthful /\ SignalIsPersisted

\* A guarded update keeps the record consistent, provided that a row is
\* released only when the relay holds nothing and delivered only when it does.
\* The mark of a terminal row is announced only by the write that set it.
LEMMA WriteKeepsRecord ==
  ASSUME IInv, TypeOK', NEW d \in Deliveries, NEW q \in Queries, Write(q, d),
         q = "pending" => mailed[d] = <<>>,
         q = "delivered" => mailed[d] # <<>>,
         mailed' = mailed,
         signal' = signal \/ (q \in TerminalStates /\ Announce(q, d))
  PROVE  Record'
<1>t. TypeOK
  BY DEF IInv
<1>1. /\ \A e \in Deliveries : e # d => row'[e] = row[e]
      /\ Matches(q, row[d]) => row'[d] = Updated(q, row[d])
      /\ ~Matches(q, row[d]) => row'[d] = row[d]
  BY <1>t, WriteEffect
<1>r. row[d] \in Rows
  BY <1>t DEF TypeOK, Rows
<1>2. \A e \in Deliveries : e # d => signal'[e] = signal[e]
  BY <1>t DEF Announce, TypeOK
<1>3. signal'[d] = signal[d] \/ (/\ Matches(q, row[d]) /\ q \in TerminalStates
                                /\ signal'[d] = signal[d] \cup {q})
  BY <1>t DEF Announce, TypeOK
<1>4. CASE ~Matches(q, row[d])
  <2>1. \A e \in Deliveries : row'[e] = row[e] /\ signal'[e] = signal[e]
    BY <1>1, <1>2, <1>3, <1>4
  <2> QED
    BY <2>1 DEF Record, IInv, AbsentIsUntouched, ZeroResend, RecordIsTruthful,
                SignalIsPersisted
<1>5. CASE Matches(q, row[d])
  <2>0. /\ q \in {"sending", "skipped", "dead_letter"} => row[d].state = "pending"
        /\ q \notin {"sending", "skipped", "dead_letter"} => row[d].state = "sending"
        /\ q = "ambiguous" => row'[d].state = "sending" /\ row'[d].ambiguous
        /\ q # "ambiguous" => row'[d].state = q
    BY <1>1, <1>5, <1>r, UpdateFacts
  <2>1. row'[d].state # "absent" /\ row[d].state \in {"pending", "sending"}
    BY <2>0 DEF Queries
  <2>2. signal[d] = {}
    BY <1>t, <2>1 DEF IInv, SignalIsPersisted, TypeOK, TerminalStates
  <2>3. q \in TerminalStates => row'[d].state = q
    BY <2>0 DEF TerminalStates
  <2>4. AbsentIsUntouched'
    BY <1>1, <1>2, <2>1 DEF IInv, AbsentIsUntouched
  <2>5. ZeroResend'
    BY DEF IInv, ZeroResend
  <2>6. /\ row'[d].state \in {"pending", "skipped", "dead_letter"} => mailed[d] = <<>>
        /\ row'[d].state = "sending" /\ ~row'[d].ambiguous => mailed[d] = <<>>
        /\ row'[d].state = "delivered" => mailed[d] # <<>>
    <3>1. CASE q \in {"sending", "skipped", "dead_letter"}
      BY <2>0, <3>1 DEF IInv, RecordIsTruthful
    <3>2. CASE q \in {"pending", "delivered"}
      BY <2>0, <3>2
    <3>3. CASE q \in {"ambiguous", "unconfirmed"}
      BY <2>0, <3>3
    <3> QED
      BY <3>1, <3>2, <3>3 DEF Queries
  <2>7. RecordIsTruthful'
    BY <1>1, <2>6 DEF IInv, RecordIsTruthful
  <2>8. SignalIsPersisted'
    BY <1>1, <1>2, <1>3, <2>2, <2>3 DEF IInv, SignalIsPersisted
  <2> QED
    BY <2>4, <2>5, <2>7, <2>8 DEF Record
<1> QED
  BY <1>4, <1>5

\* So does a database failure, whether or not its statement landed.
LEMMA FailureKeepsRecord ==
  ASSUME IInv, TypeOK', NEW d \in Deliveries, NEW q \in Queries, WriteFails(q, d),
         q = "pending" => mailed[d] = <<>>,
         q = "delivered" => mailed[d] # <<>>,
         mailed' = mailed, signal' = signal
  PROVE  Record'
<1>1. CASE UNCHANGED row
  BY <1>1 DEF Record, IInv, AbsentIsUntouched, ZeroResend, RecordIsTruthful,
              SignalIsPersisted
<1>2. CASE Write(q, d)
  BY <1>2, WriteKeepsRecord
<1> QED
  BY <1>1, <1>2 DEF WriteFails

\* Every step keeps the record consistent.
LEMMA RecordNext == IInv /\ [Next]_vars => Record'
<1> SUFFICES ASSUME IInv, [Next]_vars PROVE Record'
  OBVIOUS
<1>t. TypeOK /\ TypeOK'
  BY TypeNext DEF IInv
<1>o. ASSUME NEW j \in Jobs, NEW s, At(j, s) PROVE job[j].of \in Deliveries
  BY <1>o DEF IInv, OneDriver, At
<1>u. ASSUME UNCHANGED <<row, mailed, signal>> PROVE Record'
  BY <1>u DEF Record, IInv, AbsentIsUntouched, ZeroResend, RecordIsTruthful,
              SignalIsPersisted
<1>1. ASSUME NEW d \in Deliveries, EnsureDelivery(d) PROVE Record'
  <2>1. /\ \A e \in Deliveries : e # d => row'[e] = row[e]
        /\ row'[d].state = "pending"
        /\ mailed' = mailed /\ signal' = signal
    BY <1>t, <1>1 DEF EnsureDelivery, TypeOK
  <2>2. mailed[d] = <<>> /\ signal[d] = {}
    BY <1>1 DEF EnsureDelivery, IInv, AbsentIsUntouched
  <2> QED
    BY <2>1, <2>2 DEF Record, IInv, AbsentIsUntouched, ZeroResend,
                      RecordIsTruthful, SignalIsPersisted
<1>2. ASSUME NEW j \in Jobs, MarkSending(j) PROVE Record'
  BY <1>t, <1>2, <1>o, WriteKeepsRecord, FailureKeepsRecord DEF MarkSending, Queries
<1>3. ASSUME NEW j \in Jobs, Transmit(j) PROVE Record'
  <2>1. job[j].of \in Deliveries /\ mailed' = mailed /\ signal' = signal
    BY <1>3, <1>o DEF Transmit
  <2>2. CASE UNCHANGED row
    BY <1>u, <2>1, <2>2
  <2>3. CASE Write("ambiguous", job[j].of)
    BY <1>t, <2>1, <2>3, WriteKeepsRecord DEF Queries
  <2>4. CASE WriteFails("ambiguous", job[j].of)
    BY <1>t, <2>1, <2>4, FailureKeepsRecord DEF Queries
  <2> QED
    BY <1>3, <2>2, <2>3, <2>4 DEF Transmit
<1>4. ASSUME NEW j \in Jobs, AwaitVerdict(j) PROVE Record'
  <2> DEFINE d == job[j].of
  <2>1. /\ d \in Deliveries /\ row' = row /\ signal' = signal
        /\ row[d].state = "sending" /\ row[d].ambiguous /\ mailed[d] = <<>>
    BY <1>4, <1>o DEF AwaitVerdict, IInv, StepFitsRow
  <2>2. CASE mailed' = mailed
    BY <1>u, <2>1, <2>2
  <2>3. CASE mailed' = [mailed EXCEPT ![d] = Append(@, run[j].items)]
    <3>1. /\ \A e \in Deliveries : e # d => mailed'[e] = mailed[e]
          /\ Len(mailed'[d]) <= 1
      BY <1>t, <2>1, <2>3 DEF TypeOK
    <3> HIDE DEF d
    <3>2. AbsentIsUntouched' /\ RecordIsTruthful'
      BY <2>1, <3>1 DEF IInv, AbsentIsUntouched, RecordIsTruthful
    <3>3. ZeroResend'
      <4>1. ASSUME NEW e \in Deliveries PROVE Len(mailed'[e]) <= 1
        <5>1. CASE e = d
          BY <3>1, <5>1
        <5>2. CASE e # d
          BY <3>1, <5>2 DEF IInv, ZeroResend
        <5> QED
          BY <5>1, <5>2
      <4> QED
        BY <4>1 DEF ZeroResend
    <3>4. SignalIsPersisted'
      BY <2>1 DEF IInv, SignalIsPersisted
    <3> QED
      BY <3>2, <3>3, <3>4 DEF Record
  <2> QED
    BY <1>4, <2>2, <2>3 DEF AwaitVerdict
<1>5. ASSUME NEW j \in Jobs, NEW q \in TerminalStates, Finish(j, q),
             job[j].of \in Deliveries,
             q = "delivered" => mailed[job[j].of] # <<>>
      PROVE  Record'
  <2>1. q \in Queries /\ q # "pending" /\ mailed' = mailed
    BY <1>5 DEF Finish, Queries, TerminalStates
  <2>2. CASE Write(q, job[j].of) /\ Announce(q, job[j].of)
    BY <1>t, <1>5, <2>1, <2>2, WriteKeepsRecord
  <2>3. CASE WriteFails(q, job[j].of) /\ UNCHANGED signal
    BY <1>t, <1>5, <2>1, <2>3, FailureKeepsRecord
  <2> QED
    BY <1>5, <2>2, <2>3 DEF Finish
<1>6. ASSUME NEW j \in Jobs, MarkDelivered(j) PROVE Record'
  BY <1>5, <1>6, <1>o DEF MarkDelivered, TerminalStates, IInv, StepFitsRow
<1>7. ASSUME NEW j \in Jobs, MarkUnconfirmed(j) \/ MarkSkipped(j) PROVE Record'
  BY <1>5, <1>7, <1>o DEF MarkUnconfirmed, MarkSkipped, TerminalStates
<1>8. ASSUME NEW j \in Jobs, ReleaseToPending(j) PROVE Record'
  <2>1. /\ job[j].of \in Deliveries /\ mailed[job[j].of] = <<>>
        /\ mailed' = mailed /\ signal' = signal
    BY <1>8, <1>o DEF ReleaseToPending, IInv, StepFitsRow
  <2>2. CASE Write("pending", job[j].of)
    BY <1>t, <2>1, <2>2, WriteKeepsRecord DEF Queries
  <2>3. CASE WriteFails("pending", job[j].of)
    BY <1>t, <2>1, <2>3, FailureKeepsRecord DEF Queries
  <2> QED
    BY <1>8, <2>2, <2>3 DEF ReleaseToPending
<1>9. ASSUME NEW j \in Jobs, FailPending(j) PROVE Record'
  <2>1. CASE Finish(j, "dead_letter")
    BY <1>5, <1>9, <1>o, <2>1 DEF FailPending, TerminalStates
  <2>2. CASE UNCHANGED <<row, mailed, signal>>
    BY <1>u, <2>2
  <2> QED
    BY <1>9, <2>1, <2>2 DEF FailPending
<1>10. ASSUME NEW d \in Deliveries, RecoverNonterminal(d) \/ CommitLate(d) PROVE Record'
  BY <1>u, <1>10 DEF RecoverNonterminal, CommitLate
<1>11. ASSUME NEW j \in Jobs,
              \/ Fetch(j) \/ Crash(j) \/ Rescue(j) \/ Conclude(j)
              \/ GetDelivery(j) \/ Compose(j) \/ ClaimDigest(j)
       PROVE  Record'
  BY <1>u, <1>11 DEF Fetch, Crash, Rescue, Conclude, GetDelivery, Compose, ClaimDigest
<1>12. CASE UNCHANGED vars
  BY <1>u, <1>12 DEF vars
<1> QED
  BY <1>1, <1>2, <1>3, <1>4, <1>6, <1>7, <1>8, <1>9, <1>10, <1>11, <1>12
     DEF Next, Work

-----------------------------------------------------------------------------
(***************************************************************************)
(* The jobs: who drives a delivery and where its attempt stands.           *)
(***************************************************************************)

\* A row that was opened stays.
LEMMA RowStays ==
  IInv /\ [Next]_vars =>
    \A d \in Deliveries : row[d].state # "absent" => row'[d].state # "absent"
<1> SUFFICES ASSUME IInv, [Next]_vars, NEW d \in Deliveries, row[d].state # "absent"
             PROVE  row'[d].state # "absent"
  OBVIOUS
<1>t. TypeOK
  BY DEF IInv
<1>w. ASSUME NEW j \in Jobs, NEW s, At(j, s), NEW q \in Queries,
             Write(q, job[j].of) \/ WriteFails(q, job[j].of)
      PROVE  row'[d].state # "absent"
  <2>1. job[j].of \in Deliveries
    BY <1>w DEF IInv, OneDriver, At
  <2>2. CASE Write(q, job[j].of)
    <3>1. row[d] \in Rows
      BY <1>t DEF TypeOK, Rows
    <3>2. row'[d] = row[d] \/ (Matches(q, row[d]) /\ row'[d] = Updated(q, row[d]))
      BY <1>t, <2>1, <2>2, WriteEffect
    <3> QED
      BY <3>1, <3>2, UpdateFacts DEF Queries
  <2>3. CASE UNCHANGED row
    BY <2>3
  <2> QED
    BY <1>w, <2>2, <2>3 DEF WriteFails
<1>1. CASE UNCHANGED row
  BY <1>1
<1>2. ASSUME NEW e \in Deliveries, EnsureDelivery(e) PROVE row'[d].state # "absent"
  BY <1>t, <1>2 DEF EnsureDelivery, TypeOK
<1>3. ASSUME NEW j \in Jobs, MarkSending(j) PROVE row'[d].state # "absent"
  BY <1>3, <1>w DEF MarkSending, Queries
<1>4. ASSUME NEW j \in Jobs, Transmit(j) PROVE row'[d].state # "absent"
  BY <1>1, <1>4, <1>w DEF Transmit, Queries
<1>5. ASSUME NEW j \in Jobs,
             \/ MarkDelivered(j) \/ MarkUnconfirmed(j) \/ MarkSkipped(j)
             \/ ReleaseToPending(j) \/ FailPending(j)
      PROVE  row'[d].state # "absent"
  BY <1>1, <1>5, <1>w DEF MarkDelivered, MarkUnconfirmed, MarkSkipped,
     ReleaseToPending, FailPending, Finish, Queries
<1>6. ASSUME NEW j \in Jobs,
             \/ Fetch(j) \/ Crash(j) \/ Rescue(j) \/ Conclude(j) \/ AwaitVerdict(j)
             \/ GetDelivery(j) \/ Compose(j) \/ ClaimDigest(j)
      PROVE  row'[d].state # "absent"
  BY <1>1, <1>6 DEF Fetch, Crash, Rescue, Conclude, AwaitVerdict, GetDelivery,
     Compose, ClaimDigest
<1> QED
  BY <1>1, <1>2, <1>3, <1>4, <1>5, <1>6
     DEF Next, Work, vars, RecoverNonterminal, CommitLate

\* River's bookkeeping: one job in flight per delivery, attempts in range.
LEMMA JobsNext == IInv /\ [Next]_vars => OneDriver' /\ AttemptsAreCounted'
<1> SUFFICES ASSUME IInv, [Next]_vars PROVE OneDriver' /\ AttemptsAreCounted'
  OBVIOUS
<1> USE DigestBounds
<1>t. TypeOK /\ TypeOK'
  BY TypeNext DEF IInv
<1>s. \A d \in Deliveries : row[d].state # "absent" => row'[d].state # "absent"
  BY RowStays
<1>u. ASSUME job' = job PROVE OneDriver' /\ AttemptsAreCounted'
  BY <1>s, <1>u DEF IInv, OneDriver, AttemptsAreCounted
<1>e. ASSUME NEW d \in Deliveries, EnqueueDigestAccount(d), row'[d].state # "absent"
      PROVE  OneDriver' /\ AttemptsAreCounted'
  <2>1. PICK j \in Jobs :
            /\ job[j].status = "free"
            /\ job' = [job EXCEPT ![j] = [status |-> "queued", of |-> d, attempt |-> 0]]
    BY <1>e DEF EnqueueDigestAccount
  <2>2. /\ job'[j] = [status |-> "queued", of |-> d, attempt |-> 0]
        /\ \A i \in Jobs : i # j => job'[i] = job[i]
    BY <1>t, <2>1 DEF TypeOK
  <2>3. \A i \in Jobs : job[i].status # "free" => job[i].of # d
    BY <1>e DEF EnqueueDigestAccount, InFlight
  <2> QED
    BY <1>e, <1>s, <2>2, <2>3 DEF IInv, OneDriver, AttemptsAreCounted
<1>j. ASSUME NEW j \in Jobs, job[j].status # "free", NEW r,
             job' = [job EXCEPT ![j] = r],
             r.status = "free" \/ r.of = job[j].of,
             r.status = "queued" => r.attempt < MaxAttempts,
             r.status \in {"running", "lost"} => r.attempt > 0
      PROVE  OneDriver' /\ AttemptsAreCounted'
  <2>1. job'[j] = r /\ \A i \in Jobs : i # j => job'[i] = job[i]
    BY <1>t, <1>j DEF TypeOK
  <2> QED
    BY <1>j, <1>s, <2>1 DEF IInv, OneDriver, AttemptsAreCounted
<1>r. ASSUME NEW j \in Jobs, job[j].status # "free", job' = [job EXCEPT ![j] = Retry(j)]
      PROVE  OneDriver' /\ AttemptsAreCounted'
  <2>1. /\ Retry(j).status = "free" \/ Retry(j).of = job[j].of
        /\ Retry(j).status = "queued" => Retry(j).attempt < MaxAttempts
        /\ Retry(j).status \in {"free", "queued"}
    BY <1>t DEF Retry, LastAttempt, FreeJob, TypeOK
  <2> QED
    BY <1>r, <1>j, <2>1
<1>1. ASSUME NEW d \in Deliveries, EnsureDelivery(d) PROVE OneDriver' /\ AttemptsAreCounted'
  BY <1>t, <1>1, <1>e DEF EnsureDelivery, TypeOK
<1>2. ASSUME NEW d \in Deliveries, RecoverNonterminal(d)
      PROVE  OneDriver' /\ AttemptsAreCounted'
  BY <1>2, <1>e DEF RecoverNonterminal
<1>3. ASSUME NEW j \in Jobs, Fetch(j) PROVE OneDriver' /\ AttemptsAreCounted'
  <2> DEFINE r == [job[j] EXCEPT !.status = "running", !.attempt = @ + 1]
  <2>1. r.status = "running" /\ r.of = job[j].of /\ r.attempt > 0
    BY <1>t DEF TypeOK
  <2>2. job' = [job EXCEPT ![j] = r] /\ job[j].status # "free"
    BY <1>3 DEF Fetch
  <2> HIDE DEF r
  <2> QED
    BY <1>j, <2>1, <2>2
<1>4. ASSUME NEW j \in Jobs, Crash(j) PROVE OneDriver' /\ AttemptsAreCounted'
  <2> DEFINE r == [job[j] EXCEPT !.status = "lost"]
  <2>1. job' = [job EXCEPT ![j] = r] /\ job[j].status = "running" /\ job[j].attempt > 0
    BY <1>4 DEF Crash, IInv, AttemptsAreCounted
  <2>2. r.status = "lost" /\ r.of = job[j].of /\ r.attempt > 0
    BY <1>t, <2>1 DEF TypeOK
  <2> HIDE DEF r
  <2> QED
    BY <1>j, <2>1, <2>2
<1>5. ASSUME NEW j \in Jobs, Rescue(j) PROVE OneDriver' /\ AttemptsAreCounted'
  BY <1>5, <1>r DEF Rescue
<1>6. ASSUME NEW j \in Jobs, Conclude(j) PROVE OneDriver' /\ AttemptsAreCounted'
  <2>1. job[j].status = "running"
    BY <1>6 DEF Conclude, At
  <2>2. CASE job' = [job EXCEPT ![j] = FreeJob]
    <3>1. FreeJob.status = "free"
      BY DEF FreeJob
    <3> QED
      BY <1>j, <2>1, <2>2, <3>1
  <2>3. CASE job' = [job EXCEPT ![j] = Retry(j)]
    BY <1>r, <2>1, <2>3
  <2>4. CASE job' = [job EXCEPT ![j] = Snooze(j)]
    <3>1. /\ Snooze(j).status = "queued" /\ Snooze(j).of = job[j].of
          /\ Snooze(j).attempt < MaxAttempts
      BY <1>t DEF Snooze, TypeOK
    <3> QED
      BY <1>j, <2>1, <2>4, <3>1
  <2> QED
    BY <1>6, <2>2, <2>3, <2>4 DEF Conclude
<1>7. ASSUME NEW d \in Deliveries, CommitLate(d) PROVE OneDriver' /\ AttemptsAreCounted'
  BY <1>7, <1>u DEF CommitLate
<1>8. ASSUME NEW j \in Jobs,
             \/ GetDelivery(j) \/ Compose(j) \/ ClaimDigest(j) \/ MarkSending(j)
             \/ Transmit(j) \/ AwaitVerdict(j) \/ MarkDelivered(j)
             \/ MarkUnconfirmed(j) \/ MarkSkipped(j) \/ ReleaseToPending(j)
             \/ FailPending(j)
      PROVE  job' = job
  BY <1>8 DEF GetDelivery, Compose, ClaimDigest, MarkSending, Transmit, AwaitVerdict,
     MarkDelivered, MarkUnconfirmed, MarkSkipped, ReleaseToPending, FailPending, Finish
<1>9. CASE UNCHANGED vars
  BY <1>9, <1>u DEF vars
<1> QED
  BY <1>1, <1>2, <1>3, <1>4, <1>5, <1>6, <1>7, <1>8, <1>9, <1>u DEF Next, Work

\* The notifications of a day and the items of an attempt stay counted.
LEMMA CountsNext == IInv /\ [Next]_vars => DayIsBounded' /\ ItemsAreCounted'
<1> SUFFICES ASSUME IInv, [Next]_vars PROVE DayIsBounded' /\ ItemsAreCounted'
  OBVIOUS
<1>t. TypeOK
  BY DEF IInv
<1>1. DayIsBounded'
  <2>1. CASE UNCHANGED <<notes, late>>
    BY <2>1 DEF IInv, DayIsBounded
  <2>2. ASSUME NEW d \in Deliveries, CommitLate(d) PROVE DayIsBounded'
    <3>1. \A e \in Deliveries : notes'[e] + late'[e] = notes[e] + late[e]
      BY <1>t, <2>2 DEF CommitLate, TypeOK
    <3> QED
      BY <3>1 DEF IInv, DayIsBounded
  <2> QED
    BY <2>1, <2>2 DEF Next, Work, vars, EnsureDelivery, RecoverNonterminal, Fetch,
       Crash, Rescue, Conclude, GetDelivery, Compose, ClaimDigest, MarkSending,
       Transmit, AwaitVerdict, MarkDelivered, MarkUnconfirmed, MarkSkipped,
       ReleaseToPending, FailPending, Finish
<1>2. ItemsAreCounted'
  <2> DEFINE Sending == {"claim", "mark_sending", "transmit", "window"}
  <2>g. ASSUME NEW j \in Jobs, NEW s, Goto(j, s), s \in Sending => run[j].items > 0
        PROVE  ItemsAreCounted'
    BY <1>t, <2>g DEF TypeOK, Goto, IInv, ItemsAreCounted
  <2>r. ASSUME NEW j \in Jobs, NEW p, Refused(j, p) PROVE ItemsAreCounted'
    BY <1>t, <2>r DEF TypeOK, Refused, IInv, ItemsAreCounted
  <2>i. ASSUME NEW j \in Jobs, NEW r, run' = [run EXCEPT ![j] = r], r.at \notin Sending
        PROVE  ItemsAreCounted'
    BY <1>t, <2>i DEF TypeOK, IInv, ItemsAreCounted
  <2>1. CASE UNCHANGED run
    BY <2>1 DEF IInv, ItemsAreCounted
  <2>2. ASSUME NEW j \in Jobs, Fetch(j) \/ Crash(j) \/ Conclude(j) PROVE ItemsAreCounted'
    <3>1. IdleRun.at \notin Sending /\ [IdleRun EXCEPT !.at = "get"].at \notin Sending
      BY DEF IdleRun
    <3> QED
      BY <2>2, <2>i, <3>1 DEF Fetch, Crash, Conclude
  <2>3. ASSUME NEW j \in Jobs, GetDelivery(j) PROVE ItemsAreCounted'
    <3>1. Decision(row[job[j].of]) \notin Sending
      <4>1. row[job[j].of].state \in RowStates \ {"absent"} /\ row[job[j].of] \in Rows
        BY <1>t, <2>3 DEF GetDelivery, At, IInv, OneDriver, TypeOK, Rows
      <4> QED
        BY <4>1 DEF Decision, RowStates, Rows
    <3> QED
      BY <2>3, <2>g, <3>1 DEF GetDelivery
  <2>4. ASSUME NEW j \in Jobs, Compose(j) PROVE ItemsAreCounted'
    <3>1. CASE Goto(j, "skip") \/ Goto(j, "fail")
      BY <2>g, <3>1
    <3>2. CASE /\ notes[job[j].of] > 0
               /\ run' = [run EXCEPT ![j].at = "claim", ![j].items = notes[job[j].of]]
      BY <1>t, <3>2 DEF TypeOK, IInv, ItemsAreCounted
    <3> QED
      BY <2>4, <3>1, <3>2 DEF Compose
  <2>5. ASSUME NEW j \in Jobs, ClaimDigest(j) \/ MarkSending(j) \/ Transmit(j)
        PROVE  ItemsAreCounted'
    <3>1. run[j].items > 0
      BY <2>5 DEF ClaimDigest, MarkSending, Transmit, At, IInv, ItemsAreCounted
    <3> QED
      BY <2>5, <2>g, <2>r, <3>1 DEF ClaimDigest, MarkSending, Transmit
  <2>6. ASSUME NEW j \in Jobs, AwaitVerdict(j) PROVE ItemsAreCounted'
    BY <2>6, <2>g, <2>r DEF AwaitVerdict
  <2>7. ASSUME NEW j \in Jobs,
               \/ MarkDelivered(j) \/ MarkUnconfirmed(j) \/ MarkSkipped(j)
               \/ ReleaseToPending(j) \/ FailPending(j)
        PROVE  ItemsAreCounted'
    BY <2>7, <2>g DEF MarkDelivered, MarkUnconfirmed, MarkSkipped, ReleaseToPending,
       FailPending, Finish
  <2> QED
    BY <2>1, <2>2, <2>3, <2>4, <2>5, <2>6, <2>7
       DEF Next, Work, vars, EnsureDelivery, RecoverNonterminal, CommitLate, Rescue
<1> QED
  BY <1>1, <1>2

-----------------------------------------------------------------------------
(***************************************************************************)
(* The ambiguous window.                                                   *)
(***************************************************************************)

\* StepFitsRow of one job.
Fits(j) ==
    LET d == job[j].of
    IN  /\ At(j, "transmit") => row[d].state = "sending" /\ ~row[d].ambiguous
        /\ At(j, "window") => /\ row[d].state = "sending" /\ row[d].ambiguous
                              /\ mailed[d] = <<>>
        /\ At(j, "deliver") => row[d].state = "sending" /\ mailed[d] # <<>>
        /\ At(j, "release") => mailed[d] = <<>>

\* A worker's step touches its own delivery only, which no other job in
\* flight drives: what the others know of their rows stays true.
LEMMA OthersFit ==
  ASSUME IInv, NEW j \in Jobs, job[j].status # "free", NEW i \in Jobs, i # j,
         job'[i] = job[i], run'[i] = run[i],
         \A d \in Deliveries : d # job[j].of => row'[d] = row[d] /\ mailed'[d] = mailed[d]
  PROVE  Fits(i)'
<1>1. CASE job[i].status = "running"
  <2>1. job[i].of \in Deliveries /\ job[i].of # job[j].of
    BY <1>1 DEF IInv, OneDriver
  <2>2. row'[job[i].of] = row[job[i].of] /\ mailed'[job[i].of] = mailed[job[i].of]
    BY <2>1
  <2> QED
    BY <2>2 DEF IInv, StepFitsRow, Fits, At
<1>2. CASE job[i].status # "running"
  BY <1>2 DEF Fits, At
<1> QED
  BY <1>1, <1>2

\* A worker outside the four steps around the window claims nothing.
LEMMA ElsewhereFits ==
  ASSUME NEW j \in Jobs,
         \/ job'[j].status # "running"
         \/ run'[j].at \notin {"transmit", "window", "deliver", "release"}
  PROVE  Fits(j)'
  BY DEF Fits, At

\* Every step keeps the workers' knowledge of the window true.
LEMMA StepsNext == IInv /\ [Next]_vars => StepFitsRow'
<1> SUFFICES ASSUME IInv, [Next]_vars, NEW i \in Jobs PROVE Fits(i)'
  BY DEF StepFitsRow, Fits
<1>t. TypeOK /\ TypeOK'
  BY TypeNext DEF IInv
<1>f. Fits(i)
  BY DEF IInv, StepFitsRow, Fits
<1>u. ASSUME UNCHANGED <<row, mailed, job, run>> PROVE Fits(i)'
  BY <1>f, <1>u DEF Fits, At
<1>o. ASSUME NEW j \in Jobs, NEW s, At(j, s)
      PROVE  job[j].status = "running" /\ job[j].of \in Deliveries
  BY <1>o DEF IInv, OneDriver, At
<1>w. ASSUME NEW j \in Jobs, NEW q \in Queries, job[j].of \in Deliveries,
             Write(q, job[j].of) \/ WriteFails(q, job[j].of) \/ UNCHANGED row,
             NEW d \in Deliveries, d # job[j].of
      PROVE  row'[d] = row[d]
  BY <1>t, <1>w, WriteEffect DEF WriteFails
<1>e. ASSUME NEW d \in Deliveries, EnqueueDigestAccount(d), mailed' = mailed,
             run' = run, \A e \in Deliveries : e # d => row'[e] = row[e]
      PROVE  Fits(i)'
  <2>1. PICK j \in Jobs :
            /\ job[j].status = "free"
            /\ job' = [job EXCEPT ![j] = [status |-> "queued", of |-> d, attempt |-> 0]]
    BY <1>e DEF EnqueueDigestAccount
  <2>2. CASE i = j
    <3>1. job'[i].status = "queued"
      BY <1>t, <2>1, <2>2 DEF TypeOK
    <3> QED
      BY <3>1, ElsewhereFits
  <2>3. CASE i # j /\ job[i].status = "running"
    <3>1. job'[i] = job[i] /\ job[i].of \in Deliveries /\ job[i].of # d
      BY <1>t, <1>e, <2>1, <2>3
         DEF TypeOK, EnqueueDigestAccount, InFlight, IInv, OneDriver
    <3> QED
      BY <1>e, <1>f, <3>1 DEF Fits, At
  <2>4. CASE i # j /\ job[i].status # "running"
    <3>1. job'[i] = job[i]
      BY <1>t, <2>1, <2>4 DEF TypeOK
    <3> QED
      BY <2>4, <3>1, ElsewhereFits
  <2> QED
    BY <2>2, <2>3, <2>4
<1>g. ASSUME NEW j \in Jobs, NEW s, Goto(j, s)
      PROVE  run'[j].at = s /\ \A k \in Jobs : k # j => run'[k] = run[k]
  BY <1>t, <1>g DEF Goto, TypeOK
<1>r. ASSUME NEW j \in Jobs, NEW p, Refused(j, p)
      PROVE  run'[j].at = "release" /\ \A k \in Jobs : k # j => run'[k] = run[k]
  BY <1>t, <1>r DEF Refused, TypeOK
<1>1. ASSUME NEW d \in Deliveries,
             EnsureDelivery(d) \/ RecoverNonterminal(d) \/ CommitLate(d)
      PROVE  Fits(i)'
  <2>1. CASE EnsureDelivery(d)
    BY <1>t, <1>e, <2>1 DEF EnsureDelivery, TypeOK
  <2>2. CASE RecoverNonterminal(d)
    BY <1>e, <2>2 DEF RecoverNonterminal
  <2>3. CASE CommitLate(d)
    BY <1>u, <2>3 DEF CommitLate
  <2> QED
    BY <1>1, <2>1, <2>2, <2>3
<1>2. ASSUME NEW j \in Jobs, Fetch(j) \/ Conclude(j) \/ Crash(j) \/ Rescue(j)
      PROVE  Fits(i)'
  <2>1. /\ job[j].status # "free" /\ row' = row /\ mailed' = mailed
        /\ \A k \in Jobs : k # j => job'[k] = job[k] /\ run'[k] = run[k]
    BY <1>t, <1>2 DEF Fetch, Conclude, Crash, Rescue, At, TypeOK
  <2>2. \/ job'[j].status # "running"
        \/ run'[j].at \notin {"transmit", "window", "deliver", "release"}
    <3>1. CASE Fetch(j)
      <4>1. run'[j].at = "get"
        BY <1>t, <3>1 DEF Fetch, IdleRun, TypeOK
      <4> QED
        BY <4>1
    <3>2. CASE Conclude(j) \/ Crash(j)
      <4>1. run'[j].at = "idle"
        BY <1>t, <3>2 DEF Conclude, Crash, IdleRun, TypeOK
      <4> QED
        BY <4>1
    <3>3. CASE Rescue(j)
      <4>1. Retry(j).status # "running"
        BY <1>t DEF Retry, FreeJob, TypeOK
      <4> QED
        BY <1>t, <3>3, <4>1 DEF Rescue, TypeOK
    <3> QED
      BY <1>2, <3>1, <3>2, <3>3
  <2> QED
    BY <2>1, <2>2, OthersFit, ElsewhereFits
<1>3. ASSUME NEW j \in Jobs, GetDelivery(j) PROVE Fits(i)'
  <2>1. /\ job[j].status = "running" /\ job[j].of \in Deliveries
        /\ row' = row /\ mailed' = mailed /\ job' = job
    BY <1>3, <1>o DEF GetDelivery
  <2>2. /\ run'[j].at \in {"error", Decision(row[job[j].of])}
        /\ \A k \in Jobs : k # j => run'[k] = run[k]
    BY <1>3, <1>g DEF GetDelivery
  <2>3. row[job[j].of] \in Rows /\ row[job[j].of].state \in RowStates \ {"absent"}
    BY <1>t, <2>1 DEF IInv, OneDriver, TypeOK, Rows
  <2>4. /\ Decision(row[job[j].of]) \in {"completed", "release", "finalize", "compose"}
        /\ Decision(row[job[j].of]) = "release" =>
              row[job[j].of].state = "sending" /\ ~row[job[j].of].ambiguous
    BY <2>3 DEF Decision, RowStates, Rows, TerminalStates
  <2>5. Fits(j)'
    BY <2>1, <2>2, <2>4 DEF Fits, At, IInv, RecordIsTruthful
  <2> QED
    BY <2>1, <2>2, <2>5, OthersFit
<1>4. ASSUME NEW j \in Jobs, Compose(j) \/ ClaimDigest(j) PROVE Fits(i)'
  <2>1. /\ job[j].status = "running" /\ row' = row /\ mailed' = mailed /\ job' = job
    BY <1>4, <1>o DEF Compose, ClaimDigest
  <2>2. /\ run'[j].at \in {"skip", "claim", "fail", "mark_sending"}
        /\ \A k \in Jobs : k # j => run'[k] = run[k]
    BY <1>t, <1>4, <1>g DEF Compose, ClaimDigest, TypeOK
  <2> QED
    BY <2>1, <2>2, OthersFit, ElsewhereFits
<1>5. ASSUME NEW j \in Jobs, MarkSending(j) PROVE Fits(i)'
  <2> DEFINE d == job[j].of
  <2>1. /\ job[j].status = "running" /\ d \in Deliveries
        /\ mailed' = mailed /\ job' = job
    BY <1>5, <1>o DEF MarkSending
  <2>2. \A e \in Deliveries : e # d => row'[e] = row[e]
    BY <1>5, <1>w, <2>1 DEF MarkSending, Queries
  <2>3. \A k \in Jobs : k # j => run'[k] = run[k]
    BY <1>5, <1>g DEF MarkSending
  <2>4. CASE Matches("sending", row[d]) /\ Write("sending", d) /\ Goto(j, "transmit")
    <3>1. row'[d] = [state |-> "sending", ambiguous |-> FALSE]
      BY <1>t, <2>1, <2>4, WriteEffect DEF Updated, Queries
    <3>2. run'[j].at = "transmit"
      BY <1>g, <2>4
    <3> QED
      BY <2>1, <2>2, <2>3, <3>1, <3>2, OthersFit DEF Fits, At
  <2>5. CASE Goto(j, "completed") \/ Goto(j, "fail")
    BY <1>g, <2>1, <2>2, <2>3, <2>5, OthersFit, ElsewhereFits
  <2> QED
    BY <1>5, <2>4, <2>5 DEF MarkSending
<1>6. ASSUME NEW j \in Jobs, Transmit(j) PROVE Fits(i)'
  <2> DEFINE d == job[j].of
  <2>1. /\ job[j].status = "running" /\ d \in Deliveries
        /\ mailed' = mailed /\ job' = job /\ mailed[d] = <<>>
    BY <1>6, <1>o DEF Transmit, IInv, StepFitsRow, RecordIsTruthful
  <2>2. \A e \in Deliveries : e # d => row'[e] = row[e]
    BY <1>6, <1>w, <2>1 DEF Transmit, Queries
  <2>3. \A k \in Jobs : k # j => run'[k] = run[k]
    BY <1>6, <1>g, <1>r DEF Transmit
  <2>4. CASE Matches("ambiguous", row[d]) /\ Write("ambiguous", d) /\ Goto(j, "window")
    <3>0. row[d] \in Rows /\ row'[d] = Updated("ambiguous", row[d])
      BY <1>t, <2>1, <2>4, WriteEffect DEF Queries, TypeOK, Rows
    <3>1. row'[d].state = "sending" /\ row'[d].ambiguous
      BY <2>4, <3>0, UpdateFacts DEF Queries
    <3>2. run'[j].at = "window"
      BY <1>g, <2>4
    <3> QED
      BY <2>1, <2>2, <2>3, <3>1, <3>2, OthersFit DEF Fits, At
  <2>5. CASE \E p \in BOOLEAN : Refused(j, p)
    BY <1>r, <2>1, <2>2, <2>3, <2>5, OthersFit DEF Fits, At
  <2> QED
    BY <1>6, <2>4, <2>5 DEF Transmit
<1>7. ASSUME NEW j \in Jobs, AwaitVerdict(j) PROVE Fits(i)'
  <2> DEFINE d == job[j].of
  <2>1. /\ job[j].status = "running" /\ d \in Deliveries /\ row' = row /\ job' = job
        /\ row[d].state = "sending" /\ mailed[d] = <<>>
    BY <1>7, <1>o DEF AwaitVerdict, IInv, StepFitsRow
  <2>2. /\ \A e \in Deliveries : e # d => mailed'[e] = mailed[e]
        /\ \A k \in Jobs : k # j => run'[k] = run[k]
    BY <1>t, <1>7, <1>g, <1>r DEF AwaitVerdict, TypeOK
  <2>3. CASE mailed' = mailed /\ \E p \in BOOLEAN : Refused(j, p)
    BY <1>r, <2>1, <2>2, <2>3, OthersFit DEF Fits, At
  <2>4. CASE Goto(j, "finalize")
    BY <1>g, <2>1, <2>2, <2>4, OthersFit, ElsewhereFits
  <2>5. CASE /\ mailed' = [mailed EXCEPT ![d] = Append(@, run[j].items)]
             /\ Goto(j, "deliver")
    <3>0. Len(mailed'[d]) = Len(mailed[d]) + 1 /\ Len(mailed[d]) \in Nat
      BY <1>t, <2>1, <2>5 DEF TypeOK
    <3>1. mailed'[d] # <<>> /\ run'[j].at = "deliver"
      BY <1>g, <2>1, <2>5, <3>0
    <3> QED
      BY <2>1, <2>2, <3>1, OthersFit DEF Fits, At
  <2> QED
    BY <1>7, <2>3, <2>4, <2>5 DEF AwaitVerdict
<1>8. ASSUME NEW j \in Jobs,
             \/ MarkDelivered(j) \/ MarkUnconfirmed(j) \/ MarkSkipped(j)
             \/ ReleaseToPending(j) \/ FailPending(j)
      PROVE  Fits(i)'
  <2>1. /\ job[j].status = "running" /\ job[j].of \in Deliveries
        /\ mailed' = mailed /\ job' = job
    BY <1>8, <1>o DEF MarkDelivered, MarkUnconfirmed, MarkSkipped, ReleaseToPending,
       FailPending, Finish
  <2>2. \A e \in Deliveries : e # job[j].of => row'[e] = row[e]
    BY <1>8, <1>w, <2>1 DEF MarkDelivered, MarkUnconfirmed, MarkSkipped,
       ReleaseToPending, FailPending, Finish, Queries
  <2>3. /\ run'[j].at \in {"completed", "unpersisted", "fail", "error"}
        /\ \A k \in Jobs : k # j => run'[k] = run[k]
    BY <1>8, <1>g DEF MarkDelivered, MarkUnconfirmed, MarkSkipped, ReleaseToPending,
       FailPending, Finish
  <2> QED
    BY <2>1, <2>2, <2>3, OthersFit, ElsewhereFits
<1>9. CASE UNCHANGED vars
  BY <1>9, <1>u DEF vars
<1> QED
  BY <1>1, <1>2, <1>3, <1>4, <1>5, <1>6, <1>7, <1>8, <1>9 DEF Next, Work

-----------------------------------------------------------------------------
(***************************************************************************)
(* The theorems.                                                           *)
(***************************************************************************)

\* Every reachable state satisfies the inductive invariant: types, one driver
\* per delivery, counted attempts, and rows, relay, signals and workers that
\* agree about what was sent.
THEOREM Invariant == Spec => []IInv
<1>1. IInv /\ [Next]_vars => IInv'
  BY TypeNext, RecordNext, JobsNext, CountsNext, StepsNext DEF IInv, Record
<1> QED
  BY <1>1, InvariantInit, PTL DEF Spec

\* Every variable keeps its type: no attempt beyond those River gives, no
\* membership larger than the day's notifications.
THEOREM TypeCorrect == Spec => []TypeOK
<1>1. IInv => TypeOK
  BY DEF IInv
<1> QED
  BY <1>1, Invariant, PTL

\* Zero resend: the relay never accepts a second digest for an account and a
\* day, whatever crashes, database failures, retries and recovery passes do.
THEOREM NeverResent == Spec => []ZeroResend
<1>1. IInv => ZeroResend
  BY DEF IInv
<1> QED
  BY <1>1, Invariant, PTL

\* A delivered row means a mail the relay holds; pending, skipped, dead-letter
\* and unambiguously sending rows mean one it does not hold.
THEOREM Truthful == Spec => []RecordIsTruthful
<1>1. IInv => RecordIsTruthful
  BY DEF IInv
<1> QED
  BY <1>1, Invariant, PTL

\* Monitoring is told of a terminal state only when the row is in it, and
\* stays in it.
THEOREM SignalsPersist == Spec => []SignalIsPersisted
<1>1. IInv => SignalIsPersisted
  BY DEF IInv
<1> QED
  BY <1>1, Invariant, PTL

-----------------------------------------------------------------------------
(***************************************************************************)
(* The contract.                                                           *)
(***************************************************************************)
OutcomeOf(s) ==
    IF s = "absent" THEN "none" ELSE IF s \in TerminalStates THEN s ELSE "open"

Contract == INSTANCE MailContract WITH
    Messages  <- Deliveries,
    outcome   <- [d \in Deliveries |-> OutcomeOf(row[d].state)],
    mails     <- [d \in Deliveries |-> Len(mailed[d])],
    announced <- signal

\* What row, relay and monitoring show does not change.
LEMMA ContractStutters ==
  ASSUME \A d \in Deliveries : OutcomeOf(row'[d].state) = OutcomeOf(row[d].state),
         UNCHANGED <<mailed, signal>>
  PROVE  UNCHANGED Contract!vars
BY DEF Contract!vars

\* A guarded update settles its message, or shows nothing.
LEMMA WriteIsContract ==
  ASSUME IInv, NEW d \in Deliveries, NEW q \in Queries, Write(q, d),
         q = "delivered" => mailed[d] # <<>>,
         mailed' = mailed,
         signal' = signal \/ (q \in TerminalStates /\ Announce(q, d))
  PROVE  [Contract!OnceNext]_(Contract!vars)
<1>t. TypeOK /\ row[d] \in Rows /\ signal \in [Deliveries -> SUBSET TerminalStates]
  BY DEF IInv, TypeOK, Rows
<1>1. /\ \A e \in Deliveries : e # d => row'[e] = row[e]
      /\ Matches(q, row[d]) => row'[d] = Updated(q, row[d])
      /\ ~Matches(q, row[d]) => row'[d] = row[d]
  BY <1>t, WriteEffect
<1>2. CASE ~Matches(q, row[d])
  <2>1. \A e \in Deliveries : row'[e] = row[e]
    BY <1>1, <1>2
  <2>2. signal' = signal
    <3>1. CASE signal' = signal
      BY <3>1
    <3>2. CASE Announce(q, d)
      BY <1>t, <1>2, <3>2 DEF Announce
    <3> QED
      BY <3>1, <3>2
  <2> QED
    BY <2>1, <2>2, ContractStutters
<1>3. CASE Matches(q, row[d]) /\ q \notin TerminalStates
  <2>1. OutcomeOf(row'[d].state) = "open" /\ OutcomeOf(row[d].state) = "open"
    BY <1>t, <1>1, <1>3, UpdateFacts DEF Queries, TerminalStates, OutcomeOf
  <2>2. \A e \in Deliveries : OutcomeOf(row'[e].state) = OutcomeOf(row[e].state)
    BY <1>1, <2>1
  <2> QED
    BY <1>3, <2>2, ContractStutters
<1>4. CASE Matches(q, row[d]) /\ q \in TerminalStates
  <2>1. /\ row'[d].state = q /\ row[d].state \in {"pending", "sending"}
        /\ q \in {"skipped", "dead_letter"} => row[d].state = "pending"
    BY <1>t, <1>1, <1>4, UpdateFacts DEF TerminalStates
  <2>2. q \in {"skipped", "dead_letter"} => mailed[d] = <<>>
    BY <2>1 DEF IInv, RecordIsTruthful
  <2>3. signal[d] = {}
    BY <1>t, <2>1 DEF IInv, SignalIsPersisted, TerminalStates
  <2>4. signal' = signal \/ signal' = [signal EXCEPT ![d] = {q}]
    BY <1>4, <2>3 DEF Announce
  <2>5. /\ OutcomeOf(row[d].state) = "open" /\ OutcomeOf(row'[d].state) = q
        /\ \A e \in Deliveries : e # d => OutcomeOf(row'[e].state) = OutcomeOf(row[e].state)
    BY <1>1, <1>4, <2>1 DEF OutcomeOf, TerminalStates
  <2>6. [e \in Deliveries |-> OutcomeOf(row'[e].state)]
            = [[e \in Deliveries |-> OutcomeOf(row[e].state)] EXCEPT ![d] = q]
    BY <2>5
  <2>7. mailed[d] \in Seq(1 .. MaxNotes)
    BY <1>t DEF TypeOK
  <2>8. /\ q = "delivered" => Len(mailed[d]) > 0
        /\ q \in {"skipped", "dead_letter"} => Len(mailed[d]) = 0
    BY <2>2, <2>7, EmptySeq, LenProperties
  <2>9. Contract!Settle(d, q)
    BY <2>4, <2>5, <2>6, <2>8 DEF Contract!Settle
  <2>10. Contract!GiveUpUnsent(d, q) /\ q \in Contract!Outcomes
    BY <1>4, <2>8, <2>9 DEF Contract!GiveUpUnsent, Contract!Outcomes, TerminalStates
  <2> QED
    BY <2>10 DEF Contract!OnceNext
<1> QED
  BY <1>2, <1>3, <1>4

\* So does one that fails, whether or not it landed.
LEMMA FailureIsContract ==
  ASSUME IInv, NEW d \in Deliveries, NEW q \in Queries, WriteFails(q, d),
         q = "delivered" => mailed[d] # <<>>,
         mailed' = mailed, signal' = signal
  PROVE  [Contract!OnceNext]_(Contract!vars)
<1>1. CASE UNCHANGED row
  BY <1>1, ContractStutters
<1>2. CASE Write(q, d)
  BY <1>2, WriteIsContract
<1> QED
  BY <1>1, <1>2 DEF WriteFails

\* One more than none is one.
LEMMA FirstOfMany ==
  ASSUME NEW g, NEW d, g[d] = 0
  PROVE  [g EXCEPT ![d] = @ + 1] = [g EXCEPT ![d] = 1]
OBVIOUS

LEMMA ContractInit == Init => Contract!Init
BY DEF Init, Contract!Init, OutcomeOf

LEMMA ContractNext == IInv /\ [Next]_vars => [Contract!OnceNext]_(Contract!vars)
<1> SUFFICES ASSUME IInv, [Next]_vars PROVE [Contract!OnceNext]_(Contract!vars)
  OBVIOUS
<1>t. TypeOK
  BY DEF IInv
<1>o. ASSUME NEW j \in Jobs, NEW s, At(j, s) PROVE job[j].of \in Deliveries
  BY <1>o DEF IInv, OneDriver, At
<1>u. ASSUME UNCHANGED <<row, mailed, signal>> PROVE UNCHANGED Contract!vars
  BY <1>u, ContractStutters
<1>1. ASSUME NEW d \in Deliveries, EnsureDelivery(d) PROVE Contract!OnceNext
  <2>1. /\ row[d].state = "absent" /\ row'[d].state = "pending"
        /\ \A e \in Deliveries : e # d => row'[e] = row[e]
        /\ mailed' = mailed /\ signal' = signal
    BY <1>t, <1>1 DEF EnsureDelivery, TypeOK
  <2>2. OutcomeOf("absent") = "none" /\ OutcomeOf("pending") = "open"
    BY DEF OutcomeOf, TerminalStates
  <2>3. [e \in Deliveries |-> OutcomeOf(row'[e].state)]
            = [[e \in Deliveries |-> OutcomeOf(row[e].state)] EXCEPT ![d] = "open"]
    BY <2>1, <2>2
  <2>4. Contract!Open(d)
    BY <2>1, <2>2, <2>3 DEF Contract!Open
  <2> QED
    BY <2>4 DEF Contract!OnceNext
<1>2. ASSUME NEW j \in Jobs, MarkSending(j) PROVE [Contract!OnceNext]_(Contract!vars)
  BY <1>2, <1>o, WriteIsContract, FailureIsContract DEF MarkSending, Queries
<1>3. ASSUME NEW j \in Jobs, Transmit(j) PROVE [Contract!OnceNext]_(Contract!vars)
  <2>1. job[j].of \in Deliveries /\ mailed' = mailed /\ signal' = signal
    BY <1>3, <1>o DEF Transmit
  <2>2. CASE UNCHANGED row
    BY <1>u, <2>1, <2>2
  <2>3. CASE Write("ambiguous", job[j].of)
    BY <2>1, <2>3, WriteIsContract DEF Queries
  <2>4. CASE WriteFails("ambiguous", job[j].of)
    BY <2>1, <2>4, FailureIsContract DEF Queries
  <2> QED
    BY <1>3, <2>2, <2>3, <2>4 DEF Transmit
<1>4. ASSUME NEW j \in Jobs, AwaitVerdict(j) PROVE [Contract!OnceNext]_(Contract!vars)
  <2>0. PICK d \in Deliveries : d = job[j].of
    BY <1>4, <1>o DEF AwaitVerdict
  <2>1. /\ row' = row /\ signal' = signal
        /\ row[d].state = "sending" /\ mailed[d] = <<>>
    BY <1>4, <2>0 DEF AwaitVerdict, IInv, StepFitsRow
  <2>2. CASE mailed' = mailed
    BY <1>u, <2>1, <2>2
  <2>3. ASSUME NEW n, mailed' = [mailed EXCEPT ![d] = Append(mailed[d], n)]
        PROVE  Contract!OnceNext
    <3>1. /\ \A e \in Deliveries : e # d => mailed'[e] = mailed[e]
          /\ Len(mailed[d]) = 0 /\ Len(mailed'[d]) = 1
      BY <1>t, <2>1, <2>3 DEF TypeOK
    <3>2. \A e \in Deliveries :
             Len(mailed'[e]) = IF e = d THEN 1 ELSE Len(mailed[e])
      BY <3>1
    <3>3. [e \in Deliveries |-> Len(mailed'[e])]
              = [[e \in Deliveries |-> Len(mailed[e])] EXCEPT ![d] = 1]
      BY ONLY <3>2
    <3>4. [[e \in Deliveries |-> Len(mailed[e])] EXCEPT ![d] = @ + 1]
              = [[e \in Deliveries |-> Len(mailed[e])] EXCEPT ![d] = 1]
      <4> DEFINE lens == [e \in Deliveries |-> Len(mailed[e])]
      <4>1. lens[d] = 0
        BY <3>1
      <4> HIDE DEF lens
      <4>2. [lens EXCEPT ![d] = @ + 1] = [lens EXCEPT ![d] = 1]
        BY <4>1, FirstOfMany
      <4> QED
        BY <4>2 DEF lens
    <3>5. Contract!Send(d)
      BY <2>1, <3>3, <3>4 DEF Contract!Send, OutcomeOf, TerminalStates
    <3> QED
      BY <3>1, <3>5 DEF Contract!OnceNext, Contract!SendOnce
  <2> QED
    BY <1>4, <2>0, <2>2, <2>3 DEF AwaitVerdict
<1>5. ASSUME NEW j \in Jobs, NEW q \in TerminalStates, Finish(j, q),
             job[j].of \in Deliveries,
             q = "delivered" => mailed[job[j].of] # <<>>
      PROVE  [Contract!OnceNext]_(Contract!vars)
  <2>1. q \in Queries /\ mailed' = mailed
    BY <1>5 DEF Finish, Queries, TerminalStates
  <2>2. CASE Write(q, job[j].of) /\ Announce(q, job[j].of)
    BY <1>5, <2>1, <2>2, WriteIsContract
  <2>3. CASE WriteFails(q, job[j].of) /\ UNCHANGED signal
    BY <1>5, <2>1, <2>3, FailureIsContract
  <2> QED
    BY <1>5, <2>2, <2>3 DEF Finish
<1>6. ASSUME NEW j \in Jobs, MarkDelivered(j) PROVE [Contract!OnceNext]_(Contract!vars)
  BY <1>5, <1>6, <1>o DEF MarkDelivered, TerminalStates, IInv, StepFitsRow
<1>7. ASSUME NEW j \in Jobs, MarkUnconfirmed(j) \/ MarkSkipped(j)
      PROVE  [Contract!OnceNext]_(Contract!vars)
  BY <1>5, <1>7, <1>o DEF MarkUnconfirmed, MarkSkipped, TerminalStates
<1>8. ASSUME NEW j \in Jobs, ReleaseToPending(j) PROVE [Contract!OnceNext]_(Contract!vars)
  BY <1>8, <1>o, WriteIsContract, FailureIsContract DEF ReleaseToPending, Queries
<1>9. ASSUME NEW j \in Jobs, FailPending(j) PROVE [Contract!OnceNext]_(Contract!vars)
  BY <1>5, <1>9, <1>o, <1>u DEF FailPending, TerminalStates
<1>10. CASE \/ UNCHANGED vars
            \/ \E d \in Deliveries : RecoverNonterminal(d) \/ CommitLate(d)
            \/ \E j \in Jobs : \/ Fetch(j) \/ Crash(j) \/ Rescue(j) \/ Conclude(j)
                               \/ GetDelivery(j) \/ Compose(j) \/ ClaimDigest(j)
  BY <1>u, <1>10 DEF vars, RecoverNonterminal, CommitLate, Fetch, Crash, Rescue,
     Conclude, GetDelivery, Compose, ClaimDigest
<1> QED
  BY <1>1, <1>2, <1>3, <1>4, <1>6, <1>7, <1>8, <1>9, <1>10 DEF Next, Work

\* deliverAccountDay keeps the stricter contract: over any number of attempts,
\* releases, re-drives, recoveries and dead workers, a day's digest is mailed
\* once at most and only before it settled, it settles once and for good, is
\* skipped or dead-lettered only if it was not mailed, and monitoring hears of
\* an outcome in the write that set it or never.
THEOREM DigestKeepsContract == Spec => Contract!OnceSpec
BY ContractInit, ContractNext, Invariant, PTL DEF Spec, Contract!OnceSpec
=============================================================================
