---------------------------- MODULE DigestDelivery ----------------------------
(***************************************************************************)
(* The daily email digest of services/core/internal/notify: one durable    *)
(* delivery row per (account, business day), River jobs that drive it, the *)
(* SMTP exchange with its ambiguous window, and the hourly fan-out pass    *)
(* that opens rows and recovers the ones left behind.                      *)
(*                                                                         *)
(* Every statement of deliverAccountDay that touches the database or the   *)
(* relay is a step of its own: a worker may die between any two, and a     *)
(* write may fail without landing or land and still report an error.       *)
(***************************************************************************)
EXTENDS Integers, Sequences

CONSTANTS
    Deliveries,     \* the (account, business day) keys
    Jobs,           \* slots for River jobs; a finished job frees its slot
    MaxAttempts,    \* DigestAccountMaxAttempts
    MaxNotes,       \* bound: notifications of a day
    MaxFailures     \* bound: database failures and crashed workers

ASSUME DigestBounds ==
    MaxAttempts \in Nat \ {0} /\ MaxNotes \in Nat /\ MaxFailures \in Nat

VARIABLES
    row,        \* notification_digest_deliveries
    header,     \* notification_digests: the items of the snapshot, 0 for none
    notes,      \* the day's digest notifications that are committed
    late,       \* ... and those whose transactions are still open
    job,        \* River's jobs
    run,        \* the attempt a job's worker is in
    mailed,     \* the messages the relay accepted, as their item counts
    signal,     \* the terminal outcomes announced to monitoring
    failures

vars == <<row, header, notes, late, job, run, mailed, signal, failures>>

-----------------------------------------------------------------------------

TerminalStates == {"delivered", "skipped", "unconfirmed", "dead_letter"}
RowStates == TerminalStates \cup {"absent", "pending", "sending"}

Steps == {"get", "compose", "claim", "mark_sending", "transmit", "window",
          "deliver", "finalize", "skip", "release", "fail",
          "completed", "error", "unpersisted"}

IdleRun == [at |-> "idle", items |-> 0, permanent |-> FALSE]
FreeJob == [status |-> "free", of |-> "none", attempt |-> 0]

TypeOK ==
    /\ row \in [Deliveries -> [state: RowStates, ambiguous: BOOLEAN]]
    /\ header \in [Deliveries -> 0 .. MaxNotes]
    /\ notes \in [Deliveries -> 0 .. MaxNotes]
    /\ late \in [Deliveries -> 0 .. MaxNotes]
    /\ job \in [Jobs -> [status: {"free", "queued", "running", "lost"},
                         of: Deliveries \cup {"none"},
                         attempt: 0 .. MaxAttempts]]
    /\ run \in [Jobs -> [at: Steps \cup {"idle"}, items: 0 .. MaxNotes,
                         permanent: BOOLEAN]]
    /\ mailed \in [Deliveries -> Seq(1 .. MaxNotes)]
    /\ signal \in [Deliveries -> SUBSET TerminalStates]
    /\ failures \in 0 .. MaxFailures

Init ==
    /\ row = [d \in Deliveries |-> [state |-> "absent", ambiguous |-> FALSE]]
    /\ header = [d \in Deliveries |-> 0]
    /\ notes \in [Deliveries -> 0 .. MaxNotes]
    /\ late \in [Deliveries -> 0 .. MaxNotes]
    /\ \A d \in Deliveries : notes[d] + late[d] <= MaxNotes
    /\ job = [j \in Jobs |-> FreeJob]
    /\ run = [j \in Jobs |-> IdleRun]
    /\ mailed = [d \in Deliveries |-> <<>>]
    /\ signal = [d \in Deliveries |-> {}]
    /\ failures = 0

-----------------------------------------------------------------------------
(***************************************************************************)
(* The guarded updates of queries/notify.sql: the states each one matches  *)
(* and the row it leaves.                                                  *)
(***************************************************************************)

Matches(query, r) ==
    CASE query \in {"sending", "skipped", "dead_letter"} -> r.state = "pending"
      [] query \in {"ambiguous", "delivered", "pending"} -> r.state = "sending"
      [] query = "unconfirmed" -> r.state = "sending" /\ r.ambiguous

Updated(query, r) ==
    CASE query = "ambiguous" -> [r EXCEPT !.ambiguous = TRUE]
      [] query \in {"sending", "pending", "delivered"} ->
            [state |-> query, ambiguous |-> FALSE]
      [] query \in {"skipped", "dead_letter", "unconfirmed"} ->
            [r EXCEPT !.state = query]

\* An UPDATE whose guard matches nothing changes nothing and is no error.
Write(query, d) ==
    row' = [row EXCEPT ![d] = IF Matches(query, @) THEN Updated(query, @) ELSE @]

\* A database error: the statement did not land, or it did and the answer was
\* lost.
DatabaseFails == failures < MaxFailures /\ failures' = failures + 1
WriteFails(query, d) == DatabaseFails /\ (UNCHANGED row \/ Write(query, d))

Goto(j, step) == run' = [run EXCEPT ![j].at = step]

At(j, step) == job[j].status = "running" /\ run[j].at = step

LastAttempt(j) == job[j].attempt >= MaxAttempts

-----------------------------------------------------------------------------
(***************************************************************************)
(* The fan-out pass.  It sends nothing.                                    *)
(***************************************************************************)

\* River's uniqueness by arguments over the states available, pending,
\* running, scheduled and retryable.  A job whose worker died is still
\* running to River.
NeverInFlight(d) == FALSE
InFlight(d) == \E j \in Jobs : job[j].status # "free" /\ job[j].of = d

EnqueueDigestAccount(d) ==
    /\ ~InFlight(d)
    /\ \E j \in Jobs :
          /\ job[j].status = "free"
          /\ job' = [job EXCEPT ![j] = [status |-> "queued", of |-> d, attempt |-> 0]]

\* The row and its driving job commit together.
EnsureDelivery(d) ==
    /\ row[d].state = "absent"
    /\ row' = [row EXCEPT ![d].state = "pending"]
    /\ EnqueueDigestAccount(d)
    /\ UNCHANGED <<header, notes, late, run, mailed, signal, failures>>

\* Rows that are not terminal are enqueued again.  The age of a claim is not
\* modelled: a sending row may be recovered at any time, sooner than the
\* 15 minutes of sendingStaleAfter.
RecoverPending(d) ==
    /\ row[d].state = "pending"
    /\ EnqueueDigestAccount(d)
    /\ UNCHANGED <<row, header, notes, late, run, mailed, signal, failures>>
RecoverNonterminal(d) ==
    /\ row[d].state \in {"pending", "sending"}
    /\ EnqueueDigestAccount(d)
    /\ UNCHANGED <<row, header, notes, late, run, mailed, signal, failures>>

-----------------------------------------------------------------------------
(***************************************************************************)
(* River: a job is fetched, worked and concluded; the job of a dead worker *)
(* is rescued.                                                             *)
(***************************************************************************)

Fetch(j) ==
    /\ job[j].status = "queued"
    /\ job' = [job EXCEPT ![j].status = "running", ![j].attempt = @ + 1]
    /\ run' = [run EXCEPT ![j] = [IdleRun EXCEPT !.at = "get"]]
    /\ UNCHANGED <<row, header, notes, late, mailed, signal, failures>>

\* An error consumes the attempt and discards the job after the last one.
Retry(j) == IF LastAttempt(j) THEN FreeJob ELSE [job[j] EXCEPT !.status = "queued"]

\* A terminal decision that could not be persisted is snoozed, which consumes
\* no attempt, until the job is older than DigestTerminalRedriveWindow.
Snooze(j) == [job[j] EXCEPT !.status = "queued", !.attempt = @ - 1]

Conclude(j) ==
    /\ \/ At(j, "completed") /\ job' = [job EXCEPT ![j] = FreeJob]
       \/ At(j, "error") /\ job' = [job EXCEPT ![j] = Retry(j)]
       \/ At(j, "unpersisted") /\ \E next \in {Snooze(j), Retry(j)} :
                                     job' = [job EXCEPT ![j] = next]
    /\ run' = [run EXCEPT ![j] = IdleRun]
    /\ UNCHANGED <<row, header, notes, late, mailed, signal, failures>>

\* The process stops, or the write that would conclude the job is lost.
Crash(j) ==
    /\ job[j].status = "running" /\ DatabaseFails
    /\ job' = [job EXCEPT ![j].status = "lost"]
    /\ run' = [run EXCEPT ![j] = IdleRun]
    /\ UNCHANGED <<row, header, notes, late, mailed, signal>>

Rescue(j) ==
    /\ job[j].status = "lost"
    /\ job' = [job EXCEPT ![j] = Retry(j)]
    /\ UNCHANGED <<row, header, notes, late, run, mailed, signal, failures>>

-----------------------------------------------------------------------------
(***************************************************************************)
(* deliverAccountDay.                                                      *)
(***************************************************************************)

\* What the attempt does with the row it finds.
ReleaseEveryClaim(r) ==
    CASE r.state \in TerminalStates -> "completed"
      [] r.state = "sending" -> "release"
      [] r.state = "pending" -> "compose"
Decision(r) ==
    CASE r.state \in TerminalStates -> "completed"
      [] r.state = "sending" /\ ~r.ambiguous -> "release"
      [] r.state = "sending" /\ r.ambiguous -> "finalize"
      [] r.state = "pending" -> "compose"

GetDelivery(j) ==
    /\ At(j, "get")
    /\ \/ Goto(j, Decision(row[job[j].of])) /\ UNCHANGED failures
       \/ DatabaseFails /\ Goto(j, "error")
    /\ UNCHANGED <<row, header, notes, late, job, mailed, signal>>

\* The day's items are queried, the target resolved and the message rendered;
\* each may fail for reasons of the tenant's own.
Compose(j) ==
    /\ At(j, "compose")
    /\ LET items == notes[job[j].of]
       IN  \/ items = 0 /\ Goto(j, "skip")
           \/ /\ items > 0
              /\ run' = [run EXCEPT ![j].at = "claim", ![j].items = items]
           \/ Goto(j, "fail")
    /\ UNCHANGED <<row, header, notes, late, job, mailed, signal, failures>>

\* claim: the header and its items, once; a later attempt finds the header.
ClaimDigest(j) ==
    LET d == job[j].of
        Insert == header' = [header EXCEPT ![d] = IF @ = 0 THEN run[j].items ELSE @]
    IN  /\ At(j, "claim")
        /\ \/ Insert /\ Goto(j, "mark_sending") /\ UNCHANGED failures
           \/ /\ DatabaseFails /\ (Insert \/ UNCHANGED header)
              /\ Goto(j, "fail")
        /\ UNCHANGED <<row, notes, late, job, mailed, signal>>

MarkSending(j) ==
    LET d == job[j].of
    IN  /\ At(j, "mark_sending")
        /\ \/ /\ Write("sending", d)
              /\ Goto(j, IF Matches("sending", row[d]) THEN "transmit" ELSE "completed")
              /\ UNCHANGED failures
           \/ WriteFails("sending", d) /\ Goto(j, "fail")
        /\ UNCHANGED <<header, notes, late, job, mailed, signal>>

\* A definitive refusal: the claim is given back, and the row dead-lettered
\* at once when the failure is permanent.
Refused(j, permanent) ==
    run' = [run EXCEPT ![j].at = "release", ![j].permanent = permanent]

\* SendReportingAmbiguity up to the barrier, which records the window before
\* it is entered.  A barrier that was not recorded abandons the send.
Transmit(j) ==
    LET d == job[j].of
    IN  /\ At(j, "transmit")
        /\ \/ /\ \E permanent \in BOOLEAN : Refused(j, permanent)
              /\ UNCHANGED <<row, failures>>
           \/ /\ Write("ambiguous", d)
              /\ IF Matches("ambiguous", row[d]) THEN Goto(j, "window")
                                                 ELSE Refused(j, FALSE)
              /\ UNCHANGED failures
           \/ WriteFails("ambiguous", d) /\ Refused(j, FALSE)
        /\ UNCHANGED <<header, notes, late, job, mailed, signal>>

\* The terminator is written and the verdict awaited.  classifySend: a 4xx or
\* 5xx is a refusal, as is an attempt already expired; without a verdict, or
\* with a code below 400 other than 250, acceptance is unknown.
AwaitVerdict(j) ==
    LET d == job[j].of
    IN  /\ At(j, "window")
        /\ \/ /\ \E permanent \in BOOLEAN : Refused(j, permanent)
              /\ UNCHANGED mailed
           \/ /\ mailed' = [mailed EXCEPT ![d] = Append(@, run[j].items)]
              /\ \E verdict \in {"deliver", "finalize"} : Goto(j, verdict)
           \/ Goto(j, "finalize") /\ UNCHANGED mailed
        /\ UNCHANGED <<row, header, notes, late, job, signal, failures>>

\* A terminal write: announced when it landed, silent when its guard missed,
\* re-driven when it failed.
AnnounceMissed(query, d) == signal' = [signal EXCEPT ![d] = @ \cup {query}]
Announce(query, d) ==
    signal' = [signal EXCEPT ![d] =
                  IF Matches(query, row[d]) THEN @ \cup {query} ELSE @]

Finish(j, query) ==
    LET d == job[j].of
    IN  /\ \/ /\ Write(query, d) /\ Announce(query, d)
              /\ Goto(j, "completed") /\ UNCHANGED failures
           \/ WriteFails(query, d) /\ Goto(j, "unpersisted") /\ UNCHANGED signal
        /\ UNCHANGED <<header, notes, late, job, mailed>>

MarkDelivered(j)   == At(j, "deliver") /\ Finish(j, "delivered")
MarkUnconfirmed(j) == At(j, "finalize") /\ Finish(j, "unconfirmed")
MarkSkipped(j)     == At(j, "skip") /\ Finish(j, "skipped")

ReleaseToPending(j) ==
    LET d == job[j].of
    IN  /\ At(j, "release")
        /\ \/ Write("pending", d) /\ Goto(j, "fail") /\ UNCHANGED failures
           \/ WriteFails("pending", d) /\ Goto(j, "unpersisted")
        /\ UNCHANGED <<header, notes, late, job, mailed, signal>>

\* failPending.  The write that counts a transient failure decides nothing
\* and is left out, with its errors, which the code ignores.
FailPending(j) ==
    /\ At(j, "fail")
    /\ \/ (run[j].permanent \/ LastAttempt(j)) /\ Finish(j, "dead_letter")
       \/ /\ ~(run[j].permanent \/ LastAttempt(j)) /\ Goto(j, "error")
          /\ UNCHANGED <<row, header, notes, late, job, mailed, signal, failures>>

\* A transaction that began before midnight, so that its notification carries
\* the closed day's created_at, commits.
CommitLate(d) ==
    /\ late[d] > 0
    /\ late' = [late EXCEPT ![d] = @ - 1]
    /\ notes' = [notes EXCEPT ![d] = @ + 1]
    /\ UNCHANGED <<row, header, job, run, mailed, signal, failures>>

-----------------------------------------------------------------------------

\* One step of the worker that holds job j.
Work(j) ==
    \/ GetDelivery(j) \/ Compose(j) \/ ClaimDigest(j) \/ MarkSending(j)
    \/ Transmit(j) \/ AwaitVerdict(j) \/ MarkDelivered(j) \/ MarkUnconfirmed(j)
    \/ MarkSkipped(j) \/ ReleaseToPending(j) \/ FailPending(j) \/ Conclude(j)

Next ==
    \/ \E d \in Deliveries :
          EnsureDelivery(d) \/ RecoverNonterminal(d) \/ CommitLate(d)
    \/ \E j \in Jobs : Fetch(j) \/ Work(j) \/ Crash(j) \/ Rescue(j)

Spec == Init /\ [][Next]_vars

\* The fan-out pass is periodic, River hands out every queued job, runs the
\* worker it gave it to and rescues the jobs of dead ones.
Fairness ==
    /\ \A d \in Deliveries :
          WF_vars(EnsureDelivery(d)) /\ WF_vars(RecoverNonterminal(d))
    /\ \A j \in Jobs : WF_vars(Fetch(j)) /\ WF_vars(Work(j)) /\ WF_vars(Rescue(j))

FairSpec == Spec /\ Fairness

-----------------------------------------------------------------------------
(***************************************************************************)
(* Safety.                                                                 *)
(***************************************************************************)

\* Zero resend: however often the row is released, re-driven, recovered or
\* finalized by another attempt, the relay accepts at most one digest for an
\* account and day.
ZeroResend == \A d \in Deliveries : Len(mailed[d]) <= 1

\* No false "delivered" and no false "not delivered": a row that may still be
\* sent, was skipped or was dead-lettered stands for a mail the relay does not
\* hold, and a delivered row for one it does.
RecordIsTruthful ==
    \A d \in Deliveries :
        /\ row[d].state \in {"pending", "skipped", "dead_letter"} => mailed[d] = <<>>
        /\ row[d].state = "sending" /\ ~row[d].ambiguous => mailed[d] = <<>>
        /\ row[d].state = "delivered" => mailed[d] # <<>>

\* No terminal signal for a state that was not persisted, whichever write
\* failed and whoever finalized the row.
SignalIsPersisted ==
    \A d \in Deliveries : \A outcome \in signal[d] : row[d].state = outcome

\* At most one job in flight drives a delivery, and its row exists.
OneDriver ==
    /\ \A i, j \in Jobs :
          /\ job[i].status # "free" /\ job[j].status # "free"
          /\ job[i].of = job[j].of
          => i = j
    /\ \A j \in Jobs :
          job[j].status # "free" =>
              job[j].of \in Deliveries /\ row[job[j].of].state # "absent"

\* A queued job has an attempt left, a running one has used one.
AttemptsAreCounted ==
    \A j \in Jobs :
        /\ job[j].status = "queued" => job[j].attempt < MaxAttempts
        /\ job[j].status \in {"running", "lost"} => job[j].attempt > 0

\* What a worker knows of its row and of the relay at the steps around the
\* ambiguous window.
StepFitsRow ==
    \A j \in Jobs :
        LET d == job[j].of
        IN  /\ At(j, "transmit") => row[d].state = "sending" /\ ~row[d].ambiguous
            /\ At(j, "window") => /\ row[d].state = "sending" /\ row[d].ambiguous
                                  /\ mailed[d] = <<>>
            /\ At(j, "deliver") => row[d].state = "sending" /\ mailed[d] # <<>>
            /\ At(j, "release") => mailed[d] = <<>>

DayIsBounded == \A d \in Deliveries : notes[d] + late[d] <= MaxNotes

ItemsAreCounted ==
    \A j \in Jobs :
        run[j].at \in {"claim", "mark_sending", "transmit", "window"} =>
            run[j].items > 0

\* Before its row is opened, a delivery was neither mailed nor announced.
AbsentIsUntouched ==
    \A d \in Deliveries :
        row[d].state = "absent" => mailed[d] = <<>> /\ signal[d] = {}

\* The inductive invariant.
IInv ==
    /\ TypeOK
    /\ OneDriver
    /\ AttemptsAreCounted
    /\ StepFitsRow
    /\ DayIsBounded
    /\ ItemsAreCounted
    /\ AbsentIsUntouched
    /\ ZeroResend
    /\ RecordIsTruthful
    /\ SignalIsPersisted

-----------------------------------------------------------------------------
(***************************************************************************)
(* Liveness.                                                               *)
(***************************************************************************)

\* Every account and day reaches a terminal state, however long the relay or
\* the tenant's configuration keeps failing, once database failures and
\* crashes cease: a job discarded on the way is replaced by the recovery pass.
EveryDeliveryFinishes ==
    \A d \in Deliveries : <>(row[d].state \in TerminalStates)

-----------------------------------------------------------------------------
(***************************************************************************)
(* Statements of the source that a late commit refutes.                    *)
(***************************************************************************)

\* digest.go: a retry "covers the SAME window with the SAME membership": what
\* is mailed is the snapshot the header recorded.
MembershipIsMailed ==
    \A d \in Deliveries : \A i \in DOMAIN mailed[d] : mailed[d][i] = header[d]

\* digest.go: "the digest covers ALL of the day's eligible notifications
\* exactly once".
CoversTheDay ==
    \A d \in Deliveries :
        /\ row[d].state = "delivered" => \E i \in DOMAIN mailed[d] :
                                            mailed[d][i] = notes[d] + late[d]
        /\ row[d].state = "skipped" => notes[d] + late[d] = 0
=============================================================================
