---------------------------- MODULE UrgentDelivery ----------------------------
(***************************************************************************)
(* In-app notifications and the urgent email of services/core/internal/    *)
(* notify: a producing transaction enqueues a notification_deliver job,    *)
(* the job stores the notification once per dedup key, and an execution or *)
(* safety failure opens an outbox row and an urgent-email job in the same  *)
(* transaction.  The email job drives the row to delivered or dead_letter. *)
(*                                                                         *)
(* A mail sender is configured.  The attempt counter of the row decides    *)
(* nothing and is left out, and so is the backoff between attempts.        *)
(***************************************************************************)
EXTENDS Integers, FiniteSets

CONSTANTS
    Keys,           \* dedup keys: category, identity and payload
    UrgentKeys,     \* those of the categories that bypass the digest
    Jobs,           \* slots for River jobs; a finished job frees its slot
    MaxAttempts,    \* River's attempts of a job
    MaxFailures     \* bound: failures of the database, lost verdicts, crashes

ASSUME UrgentBounds ==
    /\ UrgentKeys \subseteq Keys
    /\ MaxAttempts \in Nat \ {0} /\ MaxFailures \in Nat

VARIABLES
    notified,   \* notifications, by dedup key
    outbox,     \* notification_urgent_outbox
    job,        \* River's jobs
    accepted,   \* how many messages of a notification the relay took
    signals,    \* how often its dead letter was announced
    produced,   \* history: keys whose producing transaction committed
    cut,        \* history: keys whose email job's last attempt was cut short
    failures

vars == <<notified, outbox, job, accepted, signals, produced, cut, failures>>

-----------------------------------------------------------------------------

TerminalStates == {"delivered", "dead_letter"}
FreeJob == [kind |-> "none", of |-> "none", status |-> "free", attempt |-> 0, at |-> "idle"]

DeliverSteps == {"store"}
DispatchSteps == {"get", "send", "mark", "fail", "announce"}
Verdicts == {"completed", "error", "unpersisted"}

TypeOK ==
    /\ notified \subseteq Keys
    /\ outbox \in [Keys -> TerminalStates \cup {"absent", "pending"}]
    /\ job \in [Jobs -> [kind : {"none", "deliver", "email"}, of : Keys \cup {"none"},
                         status : {"free", "queued", "running", "lost"},
                         attempt : 0 .. MaxAttempts,
                         at : DeliverSteps \cup DispatchSteps \cup Verdicts \cup {"idle"}]]
    /\ accepted \in [Keys -> Nat]
    /\ signals \in [Keys -> Nat]
    /\ produced \subseteq Keys /\ cut \subseteq Keys
    /\ failures \in 0 .. MaxFailures

Init ==
    /\ notified = {} /\ produced = {} /\ cut = {}
    /\ outbox = [k \in Keys |-> "absent"]
    /\ job = [j \in Jobs |-> FreeJob]
    /\ accepted = [k \in Keys |-> 0]
    /\ signals = [k \in Keys |-> 0]
    /\ failures = 0

Fails == failures < MaxFailures /\ failures' = failures + 1

Free == {j \in Jobs : job[j].status = "free"}
At(j, step) == job[j].status = "running" /\ job[j].at = step
Goto(j, step) == job' = [job EXCEPT ![j].at = step]
\* Mutant: one attempt too many.
PastLastAttempt(j) == job[j].attempt > MaxAttempts
LastAttempt(j) == job[j].attempt >= MaxAttempts

NewJob(kind, k) == [FreeJob EXCEPT !.kind = kind, !.of = k, !.status = "queued"]

-----------------------------------------------------------------------------
(***************************************************************************)
(* The producing transactions and River.                                   *)
(***************************************************************************)

\* MarketEventTx, ExecutionFailureTx, SafetyFailureTx: the intent commits with
\* what it reports, and is not unique: one identity may be reported again.  A
\* slot is kept for the email job of every intent under way.
Outstanding == {j \in Jobs : job[j].kind = "deliver"}

Produce(k) ==
    /\ Cardinality(Free) >= Cardinality(Outstanding) + 2
    /\ \E j \in Free : job' = [job EXCEPT ![j] = NewJob("deliver", k)]
    /\ produced' = produced \cup {k}
    /\ UNCHANGED <<notified, outbox, accepted, signals, cut, failures>>

Fetch(j) ==
    /\ job[j].status = "queued"
    /\ job' = [job EXCEPT
                 ![j].status = "running", ![j].attempt = @ + 1,
                 ![j].at = IF job[j].kind = "deliver" THEN "store" ELSE "get"]
    /\ UNCHANGED <<notified, outbox, accepted, signals, produced, cut, failures>>

\* Mutant: the worker swallows the error.
RetryNever(j) == FreeJob

\* An error consumes the attempt; the last one discards the job.
Retry(j) == IF LastAttempt(j) THEN FreeJob
            ELSE [job[j] EXCEPT !.status = "queued", !.at = "idle"]

\* Mutant: the error of the dispatcher is passed on.
SnoozeNever(j) == Retry(j)

\* An email job whose dead letter could not be persisted is snoozed, which
\* consumes no attempt.
Snooze(j) == [job[j] EXCEPT !.status = "queued", !.at = "idle", !.attempt = @ - 1]

Conclude(j) ==
    /\ \/ At(j, "completed") /\ job' = [job EXCEPT ![j] = FreeJob]
       \/ At(j, "error") /\ job' = [job EXCEPT ![j] = Retry(j)]
       \/ At(j, "unpersisted") /\ job' = [job EXCEPT ![j] = Snooze(j)]
    /\ UNCHANGED <<notified, outbox, accepted, signals, produced, cut, failures>>

\* The last attempt of an email job ends before its outcome is recorded.
Cut(j) == cut' = IF job[j].kind = "email" /\ LastAttempt(j)
                 THEN cut \cup {job[j].of} ELSE cut

\* The process stops, or the write that would conclude the job is lost.
Crash(j) ==
    /\ job[j].status = "running" /\ Fails
    /\ job' = [job EXCEPT ![j].status = "lost"]
    /\ Cut(j)
    /\ UNCHANGED <<notified, outbox, accepted, signals, produced>>

Rescue(j) ==
    /\ job[j].status = "lost"
    /\ job' = [job EXCEPT ![j] = Retry(j)]
    /\ UNCHANGED <<notified, outbox, accepted, signals, produced, cut, failures>>

-----------------------------------------------------------------------------
(***************************************************************************)
(* Store.Deliver, one transaction.                                         *)
(***************************************************************************)

\* INSERT .. ON CONFLICT (account, dedup key) DO NOTHING.  A collision finds
\* the same payload, for the key is a hash of it.
Fresh(k) == k \notin notified

\* The outbox row and the email job commit with the notification; a row that
\* is there already was enqueued with its own job.
Store(j, verdict) ==
    LET k == job[j].of
        concluded == [job EXCEPT ![j].at = verdict]
    IN  /\ notified' = notified \cup {k}
        /\ IF Fresh(k) /\ k \in UrgentKeys /\ outbox[k] = "absent"
           THEN /\ outbox' = [outbox EXCEPT ![k] = "pending"]
                /\ \E f \in Free : job' = [concluded EXCEPT ![f] = NewJob("email", k)]
           ELSE job' = concluded /\ UNCHANGED outbox

\* The transaction commits; or it rolls back; or it commits and the answer is
\* lost.
Deliver(j) ==
    /\ At(j, "store")
    /\ \/ Store(j, "completed") /\ UNCHANGED failures
       \/ Fails /\ Store(j, "error")
       \/ Fails /\ Goto(j, "error") /\ UNCHANGED <<notified, outbox>>
    /\ UNCHANGED <<accepted, signals, produced, cut>>

-----------------------------------------------------------------------------
(***************************************************************************)
(* UrgentDispatcher.Dispatch.                                              *)
(***************************************************************************)

\* A row that is not pending, or not there, ends the job.
Settled(k) == outbox[k] # "pending"

GetOutbox(j) ==
    /\ At(j, "get")
    /\ \/ /\ Goto(j, IF Settled(job[j].of) THEN "completed" ELSE "send")
          /\ UNCHANGED <<cut, failures>>
       \/ Fails /\ Goto(j, "error") /\ Cut(j)
    /\ UNCHANGED <<notified, outbox, accepted, signals, produced>>

\* Mutant: a failed QUIT fails the attempt.
SendWithTeardown(j) ==
    LET Taken == accepted' = [accepted EXCEPT ![job[j].of] = @ + 1]
    IN  /\ At(j, "send")
        /\ \/ Taken /\ (Goto(j, "mark") \/ Goto(j, "fail"))
           \/ Goto(j, "fail") /\ UNCHANGED accepted
        /\ UNCHANGED <<notified, outbox, signals, produced, cut, failures>>

\* The target is resolved, the message rendered and sent.  Any of it may fail
\* for as long as it likes; a lost verdict is a failure as well, although the
\* relay holds the message.
Send(j) ==
    LET Taken == accepted' = [accepted EXCEPT ![job[j].of] = @ + 1]
    IN  /\ At(j, "send")
        /\ \/ Taken /\ Goto(j, "mark") /\ UNCHANGED failures
           \/ Goto(j, "fail") /\ UNCHANGED <<accepted, failures>>
           \/ Fails /\ Taken /\ Goto(j, "fail")
        /\ UNCHANGED <<notified, outbox, signals, produced, cut>>

\* The updates of queries/notify.sql match the pending row only; one that
\* matches nothing is no error.
Write(k, state) == outbox' = [outbox EXCEPT ![k] = IF @ = "pending" THEN state ELSE @]

\* A mark that fails ends the attempt in an error: the next one sends again.
MarkDelivered(j) ==
    LET k == job[j].of
    IN  /\ At(j, "mark")
        /\ \/ Write(k, "delivered") /\ Goto(j, "completed") /\ UNCHANGED <<cut, failures>>
           \/ /\ Fails /\ (Write(k, "delivered") \/ UNCHANGED outbox)
              /\ Goto(j, "error") /\ Cut(j)
        /\ UNCHANGED <<notified, accepted, signals, produced>>

\* Mutant: the signals do not wait for the row.
AnnouncedAnyway == "announce"
Unpersisted == "unpersisted"

\* fail: the last attempt dead-letters the row, an earlier one is retried.
\* The signals wait for the row.
Fail(j) ==
    LET k == job[j].of
    IN  /\ At(j, "fail")
        /\ \/ ~LastAttempt(j) /\ Goto(j, "error") /\ UNCHANGED <<outbox, failures>>
           \/ /\ LastAttempt(j) /\ Write(k, "dead_letter") /\ Goto(j, "announce")
              /\ UNCHANGED failures
           \/ /\ LastAttempt(j) /\ Fails
              /\ (Write(k, "dead_letter") \/ UNCHANGED outbox)
              /\ Goto(j, Unpersisted)
        /\ UNCHANGED <<notified, accepted, signals, produced, cut>>

Announce(j) ==
    /\ At(j, "announce")
    /\ signals' = [signals EXCEPT ![job[j].of] = @ + 1]
    /\ Goto(j, "error")
    /\ UNCHANGED <<notified, outbox, accepted, produced, cut, failures>>

-----------------------------------------------------------------------------

Work(j) ==
    \/ Fetch(j) \/ Conclude(j) \/ Rescue(j) \/ Deliver(j)
    \/ GetOutbox(j) \/ Send(j) \/ MarkDelivered(j) \/ Fail(j) \/ Announce(j)

Next ==
    \/ \E k \in Keys : Produce(k)
    \/ \E j \in Jobs : Work(j) \/ Crash(j)

Spec == Init /\ [][Next]_vars

\* River fetches every queued job, a worker is bounded by its job's timeout,
\* and the rescuer finds the jobs of dead workers.  Nothing is assumed of the
\* producers or of the relay.
FairSpec == Spec /\ \A j \in Jobs : WF_vars(Work(j))

-----------------------------------------------------------------------------
(***************************************************************************)
(* Properties.                                                             *)
(***************************************************************************)

Driven(k) == \E j \in Jobs : job[j].kind = "email" /\ job[j].of = k

\* A stored failure has its outbox row, and a pending row has the job that
\* drives it, whatever failed between the notification and the mail; only a
\* last attempt that was cut short leaves the row behind.
PendingIsDriven ==
    \A k \in UrgentKeys \cap notified :
        outbox[k] \in TerminalStates \/ (outbox[k] = "pending" /\ (Driven(k) \/ k \in cut))

\* fail: "An urgent category is therefore never silently dropped and never
\* shed".  A last attempt whose read of the row or whose mark fails, or that
\* dies, leaves a pending row that no job and no sweep looks at again.
NeverDropped ==
    \A k \in Keys : outbox[k] = "pending" => Driven(k)

\* The row says delivered only of a message the relay took, the dead letter is
\* announced only once it is on the row, and once.
RowIsTruthful ==
    \A k \in Keys :
        /\ outbox[k] = "delivered" => accepted[k] > 0
        /\ signals[k] > 0 => outbox[k] = "dead_letter" /\ signals[k] = 1

\* Reporting one failure again, in any number of intents and attempts, mails
\* nothing again: every message after a notification's first is the price of
\* a lost verdict, a lost mark or a crash.
DuplicatesAreLosses == \A k \in Keys : accepted[k] <= failures + 1

\* While fewer attempts fail than a job has, every produced intent becomes a
\* notification, and the email of an urgent one comes to rest.
EveryIntentConcludes ==
    \A k \in Keys :
        k \in produced ~> /\ k \in notified
                          /\ k \in UrgentKeys => outbox[k] \in TerminalStates \/ k \in cut
=============================================================================
