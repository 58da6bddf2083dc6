-------------------------- MODULE UrgentDeliveryProofs --------------------------
(***************************************************************************)
(* Proofs about UrgentDelivery, for any keys, any number of jobs, attempts *)
(* and failures.                                                           *)
(***************************************************************************)
EXTENDS UrgentDelivery, TLAPS

-----------------------------------------------------------------------------
(***************************************************************************)
(* The inductive invariant.                                                *)
(***************************************************************************)
Steps == DeliverSteps \cup DispatchSteps \cup Verdicts \cup {"idle"}

JobRecords == [kind : {"none", "deliver", "email"}, of : Keys \cup {"none"},
               status : {"free", "queued", "running", "lost"},
               attempt : 0 .. MaxAttempts, at : Steps]

IsEmailOf(j, k) == job[j].kind = "email" /\ job[j].of = k

\* A job in a slot is about a key; one that is queued has an attempt left, and
\* one that was fetched has used one.
JobIsSound(j) ==
    /\ job[j].kind = "none" <=> job[j].status = "free"
    /\ job[j].kind # "none" => job[j].of \in Keys
    /\ job[j].kind = "email" => job[j].of \in UrgentKeys
    /\ job[j].status = "queued" => job[j].attempt < MaxAttempts
    /\ job[j].status \in {"running", "lost"} => job[j].attempt > 0
    /\ job[j].kind = "deliver" /\ job[j].status = "running" =>
          job[j].at \in {"store", "completed", "error"}
    /\ job[j].kind = "email" /\ job[j].status = "running" =>
          job[j].at \in DispatchSteps \cup Verdicts

\* What an email job knows of its row at each point.  An attempt that ends for
\* good leaves a settled row, or was cut short.
Settles(k) == outbox[k] \in TerminalStates \/ k \in cut

EmailStage(j) ==
    LET k == job[j].of
    IN  job[j].kind = "email" =>
            /\ outbox[k] # "absent"
            /\ At(j, "send") \/ At(j, "mark") \/ At(j, "fail") => outbox[k] = "pending"
            /\ At(j, "mark") => accepted[k] > 0
            /\ At(j, "announce") =>
                  outbox[k] = "dead_letter" /\ signals[k] = 0 /\ LastAttempt(j)
            /\ At(j, "completed") => outbox[k] \in TerminalStates
            /\ At(j, "error") /\ LastAttempt(j) => Settles(k)
            /\ job[j].status = "lost" /\ LastAttempt(j) => Settles(k)

OneEmailEach ==
    \A i, j \in Jobs : \A k \in Keys : IsEmailOf(i, k) /\ IsEmailOf(j, k) => i = j

Marking(k) == \E j \in Jobs : IsEmailOf(j, k) /\ At(j, "mark")

\* The row of a key: there with the notification of an urgent one, driven while
\* it is pending, truthful, and with no message that a failure does not explain.
RowIsSound(k) ==
    /\ outbox[k] # "absent" <=> k \in UrgentKeys \cap notified
    /\ outbox[k] = "pending" => Driven(k) \/ k \in cut
    /\ outbox[k] = "absent" => accepted[k] = 0
    /\ outbox[k] = "pending" /\ ~Marking(k) => accepted[k] <= failures
    /\ accepted[k] <= failures + 1
    /\ outbox[k] = "delivered" => accepted[k] > 0
    /\ signals[k] > 0 => outbox[k] = "dead_letter" /\ signals[k] = 1

UrgentInv ==
    /\ TypeOK
    /\ \A j \in Jobs : JobIsSound(j) /\ EmailStage(j)
    /\ OneEmailEach
    /\ \A k \in Keys : RowIsSound(k)

-----------------------------------------------------------------------------
(***************************************************************************)
(* Frames: what a step leaves alone.                                       *)
(***************************************************************************)

\* Nothing the invariant says of the key changes; more may have failed.
RowSame(k) ==
    /\ outbox'[k] = outbox[k] /\ accepted'[k] = accepted[k] /\ signals'[k] = signals[k]
    /\ k \in cut' <=> k \in cut
    /\ k \in UrgentKeys \cap notified' <=> k \in UrgentKeys \cap notified
    /\ failures' >= failures

\* A row is as it was when the step touches no email job of it.
LEMMA RowKept ==
  ASSUME UrgentInv, TypeOK', NEW S \in SUBSET Jobs, NEW k \in Keys, RowSame(k),
         \A i \in Jobs \ S : job'[i] = job[i],
         \A i \in S : ~IsEmailOf(i, k) /\ ~IsEmailOf(i, k)'
  PROVE  RowIsSound(k)'
<1>t. /\ RowIsSound(k) /\ failures \in Nat /\ failures' \in Nat
      /\ accepted[k] \in Nat /\ signals[k] \in Nat
  BY UrgentBounds DEF UrgentInv, TypeOK
<1>1. \A i \in Jobs : IsEmailOf(i, k)' <=> IsEmailOf(i, k)
  BY DEF IsEmailOf
<1>2. \A i \in Jobs : IsEmailOf(i, k) => job'[i] = job[i]
  OBVIOUS
<1>3. Driven(k)' <=> Driven(k)
  BY <1>1 DEF Driven, IsEmailOf
<1>4. Marking(k)' <=> Marking(k)
  BY <1>1, <1>2 DEF Marking, At
<1> QED
  BY <1>t, <1>3, <1>4 DEF RowIsSound, RowSame

\* A job the step does not touch is as it was when its row is.
LEMMA JobKept ==
  ASSUME UrgentInv, NEW i \in Jobs, job'[i] = job[i],
         job[i].kind = "email" => RowSame(job[i].of)
  PROVE  JobIsSound(i)' /\ EmailStage(i)'
<1>1. JobIsSound(i) /\ EmailStage(i)
  BY DEF UrgentInv
<1>2. JobIsSound(i)'
  BY <1>1 DEF JobIsSound
<1>3. CASE job[i].kind = "email"
  BY <1>1, <1>2, <1>3 DEF EmailStage, RowSame, At, LastAttempt, Settles
<1>4. CASE job[i].kind # "email"
  BY <1>2, <1>4 DEF EmailStage
<1> QED
  BY <1>3, <1>4

\* A step of a job that is no email leaves every row alone.
LEMMA PlainStep ==
  ASSUME UrgentInv, TypeOK', NEW j \in Jobs,
         job[j].kind # "email", job'[j].kind # "email", JobIsSound(j)',
         \A i \in Jobs \ {j} : job'[i] = job[i],
         \A k \in Keys : RowSame(k)
  PROVE  UrgentInv'
<1>1. \A k \in Keys : RowIsSound(k)'
  <2> TAKE k \in Keys
  <2>1. {j} \in SUBSET Jobs /\ \A i \in {j} : ~IsEmailOf(i, k) /\ ~IsEmailOf(i, k)'
    BY DEF IsEmailOf
  <2> QED
    BY <2>1, RowKept
<1>2. \A i \in Jobs : JobIsSound(i)' /\ EmailStage(i)'
  <2> TAKE i \in Jobs
  <2>1. CASE i = j
    BY <2>1 DEF EmailStage
  <2>2. CASE i # j
    <3>1. job[i].kind = "email" => job[i].of \in Keys
      BY DEF UrgentInv, JobIsSound
    <3> QED
      BY <2>2, <3>1, JobKept
  <2> QED
    BY <2>1, <2>2
<1>3. OneEmailEach'
  BY DEF OneEmailEach, IsEmailOf, UrgentInv
<1> QED
  BY <1>1, <1>2, <1>3 DEF UrgentInv

\* A step of the one email job of a key has to answer for that job and for the
\* row of that key.
LEMMA EmailStep ==
  ASSUME UrgentInv, TypeOK', NEW j \in Jobs, NEW k \in Keys, IsEmailOf(j, k),
         job'[j].kind = "email" => job'[j].of = k,
         \A i \in Jobs \ {j} : job'[i] = job[i],
         \A m \in Keys \ {k} : RowSame(m),
         JobIsSound(j)', EmailStage(j)', RowIsSound(k)'
  PROVE  UrgentInv'
<1>1. \A m \in Keys : RowIsSound(m)'
  <2> TAKE m \in Keys
  <2>1. CASE m = k
    BY <2>1
  <2>2. CASE m # k
    <3>1. {j} \in SUBSET Jobs /\ \A i \in {j} : ~IsEmailOf(i, m) /\ ~IsEmailOf(i, m)'
      BY <2>2 DEF IsEmailOf
    <3> QED
      BY <2>2, <3>1, RowKept
  <2> QED
    BY <2>1, <2>2
<1>2. \A i \in Jobs : JobIsSound(i)' /\ EmailStage(i)'
  <2> TAKE i \in Jobs
  <2>1. CASE i = j
    BY <2>1
  <2>2. CASE i # j
    <3>1. job[i].kind = "email" => job[i].of \in Keys
      BY DEF UrgentInv, JobIsSound
    <3>2. job[i].kind = "email" => job[i].of # k
      BY <2>2 DEF UrgentInv, OneEmailEach, IsEmailOf
    <3> QED
      BY <2>2, <3>1, <3>2, JobKept
  <2> QED
    BY <2>1, <2>2
<1>3. OneEmailEach'
  BY DEF OneEmailEach, IsEmailOf, UrgentInv
<1> QED
  BY <1>1, <1>2, <1>3 DEF UrgentInv

\* A key whose email job is not at the mark has every message but one explained.
LEMMA Unmarked ==
  ASSUME UrgentInv, NEW j \in Jobs, NEW k \in Keys, IsEmailOf(j, k),
         outbox[k] = "pending", ~At(j, "mark")
  PROVE  accepted[k] <= failures
BY DEF UrgentInv, RowIsSound, Marking, OneEmailEach

-----------------------------------------------------------------------------
(***************************************************************************)
(* Steps of a job.                                                         *)
(***************************************************************************)

\* Moving a job to another point changes nothing else of it.
LEMMA GotoFields ==
  ASSUME TypeOK, NEW j \in Jobs, NEW s \in Steps, Goto(j, s)
  PROVE  /\ job' \in [Jobs -> JobRecords]
         /\ job'[j].kind = job[j].kind /\ job'[j].of = job[j].of
         /\ job'[j].status = job[j].status /\ job'[j].attempt = job[j].attempt
         /\ job'[j].at = s
         /\ \A i \in Jobs \ {j} : job'[i] = job[i]
<1>t. job \in [Jobs -> JobRecords]
  BY DEF TypeOK, JobRecords, Steps
<1>1. job' = [job EXCEPT ![j] = [job[j] EXCEPT !.at = s]]
  BY DEF Goto
<1>2. [job[j] EXCEPT !.at = s] \in JobRecords
  BY <1>t DEF JobRecords
<1> QED
  BY <1>t, <1>1, <1>2 DEF JobRecords

\* The dispatcher runs on the email jobs of urgent keys.
LEMMA EmailAt ==
  ASSUME UrgentInv, NEW j \in Jobs, NEW s \in DispatchSteps, At(j, s)
  PROVE  /\ IsEmailOf(j, job[j].of) /\ job[j].of \in Keys /\ job[j].of \in UrgentKeys
         /\ EmailStage(j) /\ RowIsSound(job[j].of) /\ job[j].attempt > 0
         /\ outbox[job[j].of] # "absent"
<1>1. JobIsSound(j) /\ EmailStage(j) /\ job[j] \in JobRecords
  BY DEF UrgentInv, TypeOK, JobRecords, Steps
<1>2. job[j].kind = "email"
  BY <1>1 DEF JobIsSound, At, DispatchSteps, JobRecords
<1> QED
  BY <1>1, <1>2 DEF JobIsSound, IsEmailOf, UrgentInv, EmailStage, At

\* What an attempt of the dispatcher must leave to be sound.
LEMMA DispatchStep ==
  ASSUME UrgentInv, TypeOK', NEW j \in Jobs, NEW k \in Keys, IsEmailOf(j, k),
         job[j].status = "running",
         NEW s \in DispatchSteps \cup Verdicts, Goto(j, s),
         notified' = notified,
         \A m \in Keys \ {k} : RowSame(m),
         outbox'[k] # "absent",
         s \in {"send", "mark", "fail"} => outbox'[k] = "pending",
         s = "mark" => accepted'[k] > 0,
         s = "announce" => outbox'[k] = "dead_letter" /\ signals'[k] = 0 /\ LastAttempt(j),
         s = "completed" => outbox'[k] \in TerminalStates,
         s = "error" /\ LastAttempt(j) => outbox'[k] \in TerminalStates \/ k \in cut',
         outbox'[k] = "pending" /\ s # "mark" => accepted'[k] <= failures',
         accepted'[k] <= failures' + 1,
         outbox'[k] = "delivered" => accepted'[k] > 0,
         signals'[k] > 0 => outbox'[k] = "dead_letter" /\ signals'[k] = 1
  PROVE  UrgentInv'
<1>t. TypeOK /\ JobIsSound(j) /\ RowIsSound(k) /\ EmailStage(j) /\ s \in Steps
  BY DEF UrgentInv, Steps
<1>1. /\ job'[j].kind = "email" /\ job'[j].of = k
      /\ job'[j].status = "running" /\ job'[j].attempt = job[j].attempt
      /\ job'[j].at = s
      /\ \A i \in Jobs \ {j} : job'[i] = job[i]
  BY <1>t, GotoFields DEF IsEmailOf
<1>2. JobIsSound(j)'
  BY <1>t, <1>1 DEF JobIsSound, IsEmailOf
<1>3. EmailStage(j)'
  BY <1>1 DEF EmailStage, At, LastAttempt, Settles
<1>4. Driven(k)'
  BY <1>1 DEF Driven
<1>5. Marking(k)' <=> s = "mark"
  <2>1. \A i \in Jobs \ {j} : ~IsEmailOf(i, k)'
    BY <1>1 DEF IsEmailOf, UrgentInv, OneEmailEach
  <2> QED
    BY <1>1, <2>1 DEF Marking, At, IsEmailOf
<1>6. k \in UrgentKeys \cap notified'
  BY <1>t DEF RowIsSound, EmailStage, IsEmailOf
<1>7. RowIsSound(k)'
  BY <1>4, <1>5, <1>6 DEF RowIsSound
<1> QED
  BY <1>1, <1>2, <1>3, <1>7, EmailStep

\* What a step of River on an email job must leave.
LEMMA RiverStep ==
  ASSUME UrgentInv, TypeOK', NEW j \in Jobs, NEW k \in Keys, IsEmailOf(j, k),
         JobIsSound(j)',
         job'[j].kind = "email" => job'[j].of = k,
         job'[j].status = "running" => job'[j].at = "get",
         \A i \in Jobs \ {j} : job'[i] = job[i],
         notified' = notified /\ outbox' = outbox /\ accepted' = accepted,
         signals' = signals,
         failures' >= failures,
         cut \subseteq cut', \A m \in Keys \ {k} : m \in cut' => m \in cut,
         job'[j].kind # "email" => outbox[k] \in TerminalStates \/ k \in cut',
         job'[j].status = "lost" /\ job'[j].attempt >= MaxAttempts =>
            outbox[k] \in TerminalStates \/ k \in cut',
         At(j, "mark") => failures' = failures + 1
  PROVE  UrgentInv'
<1>t. /\ JobIsSound(j) /\ RowIsSound(k) /\ EmailStage(j)
      /\ failures \in Nat /\ failures' \in Nat /\ accepted[k] \in Nat
  BY UrgentBounds DEF UrgentInv, TypeOK
<1>1. outbox[k] # "absent"
  BY <1>t DEF EmailStage, IsEmailOf
<1>2. EmailStage(j)'
  BY <1>1 DEF EmailStage, At, LastAttempt, Settles
<1>3. RowIsSound(k)'
  <2>1. outbox[k] = "pending" => Driven(k)' \/ k \in cut'
    BY DEF Driven, TerminalStates
  <2>2. outbox[k] = "pending" => accepted[k] <= failures'
    <3>1. CASE At(j, "mark")
      BY <1>t, <3>1 DEF RowIsSound
    <3>2. CASE ~At(j, "mark")
      BY <1>t, <3>2, Unmarked
    <3> QED
      BY <3>1, <3>2
  <2> QED
    BY <1>t, <2>1, <2>2 DEF RowIsSound
<1>4. \A m \in Keys \ {k} : RowSame(m)
  BY DEF RowSame
<1> QED
  BY <1>2, <1>3, <1>4, EmailStep

-----------------------------------------------------------------------------
(***************************************************************************)
(* Type correctness.                                                       *)
(***************************************************************************)

LEMMA NewJobFields ==
  ASSUME NEW kind \in {"deliver", "email"}, NEW k \in Keys
  PROVE  /\ NewJob(kind, k) \in JobRecords
         /\ NewJob(kind, k).kind = kind /\ NewJob(kind, k).of = k
         /\ NewJob(kind, k).status = "queued" /\ NewJob(kind, k).attempt = 0
<1>1. FreeJob \in [kind : {"none"}, of : {"none"}, status : {"free"}, attempt : {0},
                  at : {"idle"}]
  BY DEF FreeJob
<1>2. 0 \in 0 .. MaxAttempts
  BY UrgentBounds
<1>3. /\ NewJob(kind, k) \in [kind : {kind}, of : {k}, status : {"queued"}, attempt : {0},
                              at : {"idle"}]
  BY <1>1 DEF NewJob
<1> QED
  BY <1>2, <1>3 DEF JobRecords, Steps

LEMMA FreeJobFields ==
  /\ FreeJob \in JobRecords
  /\ FreeJob.kind = "none" /\ FreeJob.status = "free"
<1>2. 0 \in 0 .. MaxAttempts
  BY UrgentBounds
<1> QED
  BY <1>2 DEF FreeJob, JobRecords, Steps

\* What River does to a job: it fetches, concludes, loses or rescues it.  An
\* attempt is given back only to a job that has used one, and is used only by a
\* job that has one left.
Fetched(j) ==
    /\ job[j].status = "queued"
    /\ job'[j].status = "running" /\ job'[j].attempt = job[j].attempt + 1
    /\ job'[j].kind = job[j].kind /\ job'[j].of = job[j].of
    /\ job'[j].at = IF job[j].kind = "deliver" THEN "store" ELSE "get"

Requeued(j) ==
    /\ job'[j].status = "queued" /\ job'[j].attempt < MaxAttempts
    /\ job'[j].kind = job[j].kind /\ job'[j].of = job[j].of

Freed(j) == job'[j] = FreeJob

LostJob(j) ==
    /\ job'[j].status = "lost" /\ job'[j].attempt = job[j].attempt
    /\ job'[j].kind = job[j].kind /\ job'[j].of = job[j].of

LEMMA RiverFields ==
  ASSUME UrgentInv, NEW j \in Jobs, Fetch(j) \/ Conclude(j) \/ Crash(j) \/ Rescue(j)
  PROVE  /\ job' \in [Jobs -> JobRecords]
         /\ \A i \in Jobs \ {j} : job'[i] = job[i]
         /\ Fetch(j) => Fetched(j)
         /\ Crash(j) => LostJob(j)
         /\ Conclude(j) => \/ Freed(j) /\ (At(j, "completed") \/ (At(j, "error") /\ LastAttempt(j)))
                           \/ Requeued(j)
         /\ Rescue(j) => (Freed(j) /\ LastAttempt(j)) \/ Requeued(j)
<1>t. /\ job \in [Jobs -> JobRecords] /\ job[j] \in JobRecords
      /\ job[j].attempt \in Nat /\ job[j].attempt <= MaxAttempts
      /\ MaxAttempts \in Nat \ {0}
      /\ JobIsSound(j)
  BY UrgentBounds DEF UrgentInv, TypeOK, JobRecords, Steps
<1> DEFINE r == [job[j] EXCEPT !.status = "running", !.attempt = job[j].attempt + 1,
                               !.at = IF job[j].kind = "deliver" THEN "store" ELSE "get"]
<1>1. CASE Fetch(j)
  <2>1. job' = [job EXCEPT ![j] = r]
    BY <1>1 DEF Fetch
  <2>2. job[j].attempt + 1 \in 0 .. MaxAttempts
    BY <1>t, <1>1 DEF Fetch, JobIsSound
  <2>3. /\ r \in JobRecords /\ r.status = "running" /\ r.attempt = job[j].attempt + 1
        /\ r.kind = job[j].kind /\ r.of = job[j].of
        /\ r.at = IF job[j].kind = "deliver" THEN "store" ELSE "get"
    BY <1>t, <2>2 DEF JobRecords, Steps, DeliverSteps, DispatchSteps
  <2>4. ~Conclude(j) /\ ~Crash(j) /\ ~Rescue(j)
    BY <1>1 DEF Fetch, Conclude, Crash, Rescue, At
  <2> HIDE DEF r
  <2>5. job'[j] = r /\ job' \in [Jobs -> JobRecords] /\ \A i \in Jobs \ {j} : job'[i] = job[i]
    BY <1>t, <2>1, <2>3
  <2>6. Fetched(j)
    BY <1>1, <2>3, <2>5 DEF Fetched, Fetch
  <2> QED
    BY <2>4, <2>5, <2>6
<1>r. /\ LastAttempt(j) => Retry(j) = FreeJob
      /\ ~LastAttempt(j) => /\ Retry(j) \in JobRecords
                            /\ Retry(j).status = "queued" /\ Retry(j).attempt < MaxAttempts
                            /\ Retry(j).kind = job[j].kind /\ Retry(j).of = job[j].of
  <2>1. CASE LastAttempt(j)
    BY <2>1 DEF Retry
  <2>2. CASE ~LastAttempt(j)
    <3>1. Retry(j) = [job[j] EXCEPT !.status = "queued", !.at = "idle"]
      BY <2>2 DEF Retry
    <3>2. job[j].attempt < MaxAttempts
      BY <1>t, <2>2 DEF LastAttempt
    <3>3. [job[j] EXCEPT !.status = "queued", !.at = "idle"] \in JobRecords
      BY <1>t DEF JobRecords, Steps
    <3>4. /\ Retry(j).status = "queued" /\ Retry(j).attempt = job[j].attempt
          /\ Retry(j).kind = job[j].kind /\ Retry(j).of = job[j].of
      BY <1>t, <3>1 DEF JobRecords
    <3> QED
      BY <2>2, <3>1, <3>2, <3>3, <3>4
  <2> QED
    BY <2>1, <2>2
<1>2. CASE Conclude(j)
  <2>1. /\ ~Fetch(j) /\ ~Rescue(j) /\ job[j].status = "running"
    BY <1>2 DEF Fetch, Conclude, Rescue, At
  <2>a. ASSUME Crash(j) PROVE LostJob(j)
    <3>1. job'[j] = [job[j] EXCEPT !.status = "lost"]
      BY <1>t, <2>a DEF Crash
    <3> QED
      BY <1>t, <3>1 DEF LostJob, JobRecords
  <2>2. CASE At(j, "completed") /\ job' = [job EXCEPT ![j] = FreeJob]
    <3>1. /\ job'[j] = FreeJob /\ job' \in [Jobs -> JobRecords]
          /\ \A i \in Jobs \ {j} : job'[i] = job[i]
      BY <1>t, <2>2, FreeJobFields
    <3>2. Freed(j)
      BY <3>1 DEF Freed
    <3> QED
      BY <2>1, <2>a, <2>2, <3>1, <3>2
  <2>3. CASE At(j, "error") /\ job' = [job EXCEPT ![j] = Retry(j)]
    <3>1. Retry(j) \in JobRecords
      BY <1>r, FreeJobFields
    <3>2. /\ job'[j] = Retry(j) /\ job' \in [Jobs -> JobRecords]
          /\ \A i \in Jobs \ {j} : job'[i] = job[i]
      BY <1>t, <2>3, <3>1
    <3> QED
      BY <1>r, <2>1, <2>a, <2>3, <3>2 DEF Freed, Requeued
  <2>4. CASE At(j, "unpersisted") /\ job' = [job EXCEPT ![j] = Snooze(j)]
    <3>1. job[j].attempt - 1 \in 0 .. MaxAttempts /\ job[j].attempt - 1 < MaxAttempts
      BY <1>t, <2>1 DEF JobIsSound
    <3>2. Snooze(j) = [job[j] EXCEPT !.status = "queued", !.at = "idle",
                                     !.attempt = job[j].attempt - 1]
      BY DEF Snooze
    <3>3. /\ Snooze(j) \in JobRecords /\ Snooze(j).status = "queued"
          /\ Snooze(j).attempt < MaxAttempts
          /\ Snooze(j).kind = job[j].kind /\ Snooze(j).of = job[j].of
      BY <1>t, <3>1, <3>2 DEF JobRecords, Steps
    <3>4. /\ job'[j] = Snooze(j) /\ job' \in [Jobs -> JobRecords]
          /\ \A i \in Jobs \ {j} : job'[i] = job[i]
      BY <1>t, <2>4, <3>3
    <3> QED
      BY <2>1, <2>a, <3>3, <3>4 DEF Requeued
  <2> QED
    BY <1>2, <2>2, <2>3, <2>4 DEF Conclude
<1>3. CASE Crash(j)
  <2>1. job' = [job EXCEPT ![j] = [job[j] EXCEPT !.status = "lost"]]
    BY <1>3 DEF Crash
  <2>2. [job[j] EXCEPT !.status = "lost"] \in JobRecords
    BY <1>t DEF JobRecords
  <2>3. /\ job' \in [Jobs -> JobRecords] /\ \A i \in Jobs \ {j} : job'[i] = job[i]
    BY <1>t, <2>1, <2>2
  <2>4. LostJob(j)
    BY <1>t, <2>1 DEF LostJob, JobRecords
  <2>5. ~Fetch(j) /\ ~Rescue(j)
    BY <1>3 DEF Fetch, Rescue, Crash
  <2> QED
    BY <1>2, <2>3, <2>4, <2>5
<1>4. CASE Rescue(j)
  <2>1. ~Fetch(j) /\ ~Conclude(j) /\ ~Crash(j)
    BY <1>4 DEF Fetch, Conclude, Rescue, Crash, At
  <2>2. Retry(j) \in JobRecords
    BY <1>r, FreeJobFields
  <2>3. /\ job'[j] = Retry(j) /\ job' \in [Jobs -> JobRecords]
        /\ \A i \in Jobs \ {j} : job'[i] = job[i]
    BY <1>t, <1>4, <2>2 DEF Rescue
  <2> QED
    BY <1>r, <2>1, <2>3 DEF Freed, Requeued
<1> QED
  BY <1>1, <1>2, <1>3, <1>4

\* The steps of River keep the invariant.
LEMMA RiverNext ==
  ASSUME UrgentInv, NEW j \in Jobs, Fetch(j) \/ Conclude(j) \/ Crash(j) \/ Rescue(j)
  PROVE  UrgentInv'
<1> DEFINE k == job[j].of
<1>t. /\ TypeOK /\ JobIsSound(j) /\ EmailStage(j) /\ job[j] \in JobRecords
      /\ failures \in Nat /\ MaxFailures \in Nat /\ job[j].attempt \in Nat
      /\ MaxAttempts \in Nat \ {0}
  BY UrgentBounds DEF UrgentInv, TypeOK, JobRecords, Steps
<1>b. job[j].kind # "none"
  BY <1>t DEF Fetch, Conclude, Crash, Rescue, At, JobIsSound
<1>k. k \in Keys
  BY <1>t, <1>b DEF JobIsSound
<1>1. /\ notified' = notified /\ outbox' = outbox /\ accepted' = accepted
      /\ signals' = signals /\ produced' = produced
      /\ failures' \in {failures, failures + 1} /\ failures' \in 0 .. MaxFailures
      /\ Crash(j) => failures' = failures + 1
      /\ ~Crash(j) => cut' = cut
      /\ cut' = cut \/ (job[j].kind = "email" /\ cut' = cut \cup {k})
      /\ Crash(j) /\ job[j].kind = "email" /\ LastAttempt(j) => k \in cut'
  BY <1>t DEF TypeOK, Fetch, Conclude, Crash, Rescue, Fails, Cut
<1>2. \A i \in Jobs \ {j} : job'[i] = job[i]
  BY RiverFields
<1>3. TypeOK'
  BY <1>t, <1>k, <1>1, RiverFields DEF TypeOK, JobRecords, Steps
<1>4. JobIsSound(j)'
  <2>1. CASE Fetch(j)
    <3>1. Fetched(j)
      BY <2>1, RiverFields
    <3> QED
      BY <1>t, <1>b, <3>1 DEF Fetched, JobIsSound, DispatchSteps
  <2>2. CASE Crash(j)
    <3>1. LostJob(j) /\ job[j].status = "running"
      BY <2>2, RiverFields DEF Crash
    <3> QED
      BY <1>t, <1>b, <3>1 DEF LostJob, JobIsSound
  <2>3. CASE Freed(j)
    BY <2>3, FreeJobFields DEF Freed, JobIsSound
  <2>4. CASE Requeued(j)
    BY <1>t, <1>b, <2>4 DEF Requeued, JobIsSound
  <2> QED
    BY <2>1, <2>2, <2>3, <2>4, RiverFields
<1>5. CASE job[j].kind # "email"
  <2>1. job'[j].kind # "email"
    BY <1>5, RiverFields, FreeJobFields DEF Fetched, LostJob, Freed, Requeued
  <2>2. \A m \in Keys : RowSame(m)
    BY <1>t, <1>1, <1>5 DEF RowSame
  <2> QED
    BY <1>2, <1>3, <1>4, <1>5, <2>1, <2>2, PlainStep
<1>6. CASE job[j].kind = "email"
  <2>1. IsEmailOf(j, k)
    BY <1>6 DEF IsEmailOf
  <2>2. job'[j].kind = "email" => job'[j].of = k
    BY RiverFields, FreeJobFields DEF Fetched, LostJob, Freed, Requeued
  <2>3. job'[j].status = "running" => job'[j].at = "get"
    BY <1>6, RiverFields, FreeJobFields DEF Fetched, LostJob, Freed, Requeued
  <2>4. job'[j].kind # "email" => outbox[k] \in TerminalStates \/ k \in cut'
    <3>1. job'[j].kind # "email" =>
            \/ At(j, "completed")
            \/ At(j, "error") /\ LastAttempt(j)
            \/ job[j].status = "lost" /\ LastAttempt(j)
      BY <1>6, RiverFields DEF Fetched, LostJob, Freed, Requeued, Rescue
    <3> QED
      BY <1>t, <1>1, <1>6, <3>1 DEF EmailStage, Settles
  <2>5. job'[j].status = "lost" /\ job'[j].attempt >= MaxAttempts =>
           outbox[k] \in TerminalStates \/ k \in cut'
    <3>1. job'[j].status = "lost" => Crash(j) /\ job'[j].attempt = job[j].attempt
      BY RiverFields, FreeJobFields DEF Fetched, LostJob, Freed, Requeued
    <3> QED
      BY <1>1, <1>6, <3>1 DEF LastAttempt
  <2>6. CASE At(j, "mark")
    <3>1. Crash(j)
      BY <2>6 DEF At, Fetch, Conclude, Rescue
    <3> QED
      BY <1>t, <1>k, <1>1, <1>2, <1>3, <1>4, <2>1, <2>2, <2>3, <2>4, <2>5, <3>1, RiverStep
  <2>7. CASE ~At(j, "mark")
    BY <1>t, <1>k, <1>1, <1>2, <1>3, <1>4, <2>1, <2>2, <2>3, <2>4, <2>5, <2>7, RiverStep
  <2> QED
    BY <2>6, <2>7
<1> QED
  BY <1>5, <1>6

-----------------------------------------------------------------------------
(***************************************************************************)
(* The producers and the notification.                                     *)
(***************************************************************************)

\* An intent is enqueued on a free slot.
LEMMA ProduceNext ==
  ASSUME UrgentInv, NEW k \in Keys, Produce(k)
  PROVE  UrgentInv'
<1>t. /\ TypeOK /\ job \in [Jobs -> JobRecords] /\ failures \in Nat
      /\ MaxAttempts \in Nat \ {0}
  BY UrgentBounds DEF UrgentInv, TypeOK, JobRecords, Steps
<1>1. PICK f \in Free : job' = [job EXCEPT ![f] = NewJob("deliver", k)]
  BY DEF Produce
<1>2. f \in Jobs /\ job[f].kind = "none"
  BY DEF Free, UrgentInv, JobIsSound
<1>3. /\ job' \in [Jobs -> JobRecords] /\ job'[f] = NewJob("deliver", k)
      /\ \A i \in Jobs \ {f} : job'[i] = job[i]
  BY <1>t, <1>1, <1>2, NewJobFields
<1>4. TypeOK'
  BY <1>t, <1>3 DEF TypeOK, Produce, JobRecords, Steps
<1>5. JobIsSound(f)' /\ job'[f].kind # "email"
  BY <1>t, <1>3, NewJobFields DEF JobIsSound
<1>6. \A m \in Keys : RowSame(m)
  BY <1>t DEF RowSame, Produce
<1> QED
  BY <1>2, <1>3, <1>4, <1>5, <1>6, PlainStep

LEMMA RowOpened ==
  ASSUME NEW k \in Keys, outbox'[k] = "pending", Driven(k)', accepted'[k] = 0,
         signals'[k] = 0, k \in UrgentKeys \cap notified', failures' \in Nat
  PROVE  RowIsSound(k)'
<1>1. /\ outbox'[k] # "absent" /\ outbox'[k] # "delivered"
      /\ accepted'[k] <= failures' /\ accepted'[k] <= failures' + 1
  OBVIOUS
<1>2. ~(signals'[k] > 0)
  OBVIOUS
<1> QED
  BY <1>1, <1>2 DEF RowIsSound

\* A notification that finds no row opens one, with the job that drives it, in
\* the same transaction.
LEMMA StoreOpens ==
  ASSUME UrgentInv, TypeOK', NEW j \in Jobs, NEW k \in Keys, NEW f \in Jobs \ {j},
         NEW s \in {"completed", "error"},
         job[j].kind = "deliver", job[f].kind = "none",
         /\ job'[j].kind = "deliver" /\ job'[j].of = k
         /\ job'[j].status = "running" /\ job'[j].at = s /\ job'[j].attempt = job[j].attempt,
         job[j].status = "running",
         job'[f] = NewJob("email", k),
         \A i \in Jobs \ {j, f} : job'[i] = job[i],
         k \in UrgentKeys, outbox[k] = "absent",
         outbox' = [outbox EXCEPT ![k] = "pending"],
         notified' = notified \cup {k},
         UNCHANGED <<accepted, signals, cut>>, failures' \in {failures, failures + 1}
  PROVE  UrgentInv'
<1>t. /\ outbox \in [Keys -> TerminalStates \cup {"absent", "pending"}]
      /\ failures \in Nat /\ failures' \in Nat /\ failures' >= failures
      /\ MaxAttempts \in Nat \ {0} /\ JobIsSound(j)
      /\ accepted[k] = 0 /\ signals[k] \in Nat /\ RowIsSound(k)
  BY UrgentBounds DEF UrgentInv, TypeOK, RowIsSound
<1>1. \A i \in Jobs : ~IsEmailOf(i, k)
  BY DEF UrgentInv, EmailStage, IsEmailOf
<1>2. /\ outbox'[k] = "pending" /\ \A m \in Keys \ {k} : RowSame(m)
  BY <1>t DEF RowSame
<1>f. /\ job'[f].kind = "email" /\ job'[f].of = k /\ job'[f].status = "queued"
      /\ job'[f].attempt = 0
  BY NewJobFields
<1>3. JobIsSound(j)' /\ EmailStage(j)'
  BY <1>t DEF JobIsSound, EmailStage
<1>4. JobIsSound(f)' /\ EmailStage(f)'
  BY <1>t, <1>2, <1>f DEF JobIsSound, EmailStage, At
<1>5. \A i \in Jobs : JobIsSound(i)' /\ EmailStage(i)'
  <2> TAKE i \in Jobs
  <2>1. CASE i \in {j, f}
    BY <2>1, <1>3, <1>4
  <2>2. CASE i \notin {j, f}
    <3>1. job[i].kind = "email" => job[i].of \in Keys \ {k}
      BY <1>1 DEF UrgentInv, JobIsSound, IsEmailOf
    <3> QED
      BY <1>2, <2>2, <3>1, JobKept
  <2> QED
    BY <2>1, <2>2
<1>6. \A m \in Keys \ {k} : RowIsSound(m)'
  <2> TAKE m \in Keys \ {k}
  <2>1. /\ {j, f} \in SUBSET Jobs
        /\ \A i \in {j, f} : ~IsEmailOf(i, m) /\ ~IsEmailOf(i, m)'
    BY <1>f DEF IsEmailOf
  <2> QED
    BY <1>2, <2>1, RowKept
<1>7. RowIsSound(k)'
  <2>1. Driven(k)'
    BY <1>f DEF Driven
  <2>2. signals[k] = 0
    BY <1>t DEF RowIsSound
  <2>3. accepted'[k] = 0 /\ signals'[k] = 0 /\ k \in UrgentKeys \cap notified'
    BY <1>t, <2>2
  <2> QED
    BY <1>t, <1>2, <2>1, <2>3, RowOpened
<1>8. OneEmailEach'
  <2> SUFFICES ASSUME NEW a \in Jobs, NEW b \in Jobs, NEW m \in Keys,
                      IsEmailOf(a, m)', IsEmailOf(b, m)'
               PROVE  a = b
    BY DEF OneEmailEach
  <2>1. \A i \in Jobs : IsEmailOf(i, m)' => i = f \/ (IsEmailOf(i, m) /\ m # k)
    <3> SUFFICES ASSUME NEW i \in Jobs, i # f, IsEmailOf(i, m)'
                 PROVE  IsEmailOf(i, m) /\ m # k
      OBVIOUS
    <3>1. i # j
      BY DEF IsEmailOf
    <3>2. job'[i] = job[i]
      BY <3>1
    <3>3. IsEmailOf(i, m)
      BY <3>2 DEF IsEmailOf
    <3> QED
      BY <1>1, <3>3
  <2>2. IsEmailOf(f, m)' => m = k
    BY <1>f DEF IsEmailOf
  <2> QED
    BY <2>1, <2>2 DEF UrgentInv, OneEmailEach
<1> QED
  BY <1>5, <1>6, <1>7, <1>8 DEF UrgentInv

\* Store.Deliver: the row and its job commit with the notification, or the
\* notification was there and everything is left alone.
LEMMA DeliverNext ==
  ASSUME UrgentInv, NEW j \in Jobs, Deliver(j)
  PROVE  UrgentInv'
<1> DEFINE k == job[j].of
<1>t. /\ TypeOK /\ job \in [Jobs -> JobRecords] /\ job[j] \in JobRecords
      /\ failures \in Nat /\ JobIsSound(j) /\ MaxFailures \in Nat
      /\ outbox \in [Keys -> TerminalStates \cup {"absent", "pending"}]
      /\ notified \subseteq Keys
  BY UrgentBounds DEF UrgentInv, TypeOK, JobRecords, Steps
<1>1. job[j].status = "running" /\ job[j].at = "store"
  BY DEF Deliver, At
<1>2. job[j].kind = "deliver" /\ k \in Keys
  BY <1>t, <1>1 DEF JobIsSound, DispatchSteps, Verdicts, JobRecords
<1>3. /\ failures' \in {failures, failures + 1} /\ failures' \in 0 .. MaxFailures
      /\ UNCHANGED <<accepted, signals, produced, cut>>
  BY <1>t DEF Deliver, Fails, TypeOK
<1>g. ASSUME NEW s \in {"completed", "error"}, Goto(j, s), outbox' = outbox,
             \/ notified' = notified
             \/ notified' = notified \cup {k} /\ (k \in UrgentKeys => k \in notified)
      PROVE  UrgentInv'
  <2>0. s \in Steps
    BY DEF Steps, Verdicts
  <2>1. TypeOK'
    BY <1>t, <1>2, <1>3, <1>g, <2>0, GotoFields DEF TypeOK, JobRecords, Steps
  <2>2. \A m \in Keys : RowSame(m)
    BY <1>t, <1>3, <1>g DEF RowSame
  <2>3. /\ JobIsSound(j)' /\ job'[j].kind # "email"
        /\ \A i \in Jobs \ {j} : job'[i] = job[i]
    BY <1>t, <1>1, <1>2, <2>0, <1>g, GotoFields DEF JobIsSound
  <2> QED
    BY <1>2, <2>1, <2>2, <2>3, PlainStep
<1>s. ASSUME NEW s \in {"completed", "error"}, Store(j, s) PROVE UrgentInv'
  <2>0. s \in Steps
    BY DEF Steps, Verdicts
  <2> DEFINE concluded == [job EXCEPT ![j].at = s]
  <2>1. CASE Fresh(k) /\ k \in UrgentKeys /\ outbox[k] = "absent"
    <3>1. /\ outbox' = [outbox EXCEPT ![k] = "pending"] /\ notified' = notified \cup {k}
          /\ \E f \in Free : job' = [concluded EXCEPT ![f] = NewJob("email", k)]
      BY <1>s, <2>1 DEF Store
    <3>2. PICK f \in Free : job' = [concluded EXCEPT ![f] = NewJob("email", k)]
      BY <3>1
    <3>3. f \in Jobs \ {j} /\ job[f].kind = "none"
      BY <1>1 DEF Free, UrgentInv, JobIsSound
    <3>4. /\ concluded \in [Jobs -> JobRecords]
          /\ concluded[j].kind = job[j].kind /\ concluded[j].of = k
          /\ concluded[j].status = "running" /\ concluded[j].attempt = job[j].attempt
          /\ concluded[j].at = s
          /\ \A i \in Jobs \ {j} : concluded[i] = job[i]
      <4>1. concluded = [job EXCEPT ![j] = [job[j] EXCEPT !.at = s]]
        OBVIOUS
      <4>2. [job[j] EXCEPT !.at = s] \in JobRecords
        BY <1>t, <2>0 DEF JobRecords
      <4> QED
        BY <1>t, <1>1, <4>1, <4>2 DEF JobRecords
    <3> HIDE DEF concluded
    <3>5. /\ job' \in [Jobs -> JobRecords] /\ job'[f] = NewJob("email", k)
          /\ job'[j] = concluded[j]
          /\ \A i \in Jobs \ {j, f} : job'[i] = job[i]
      BY <1>2, <3>2, <3>3, <3>4, NewJobFields
    <3>6. TypeOK'
      BY <1>t, <1>2, <1>3, <3>1, <3>5 DEF TypeOK, JobRecords, Steps
    <3>7. /\ job'[j].kind = "deliver" /\ job'[j].of = k
          /\ job'[j].status = "running" /\ job'[j].at = s
          /\ job'[j].attempt = job[j].attempt
      BY <1>2, <3>4, <3>5
    <3>8. UNCHANGED <<accepted, signals, cut>>
      BY <1>3
    <3>9. k \in UrgentKeys /\ outbox[k] = "absent"
      BY <2>1
    <3> HIDE DEF k
    <3> QED
      BY <1>1, <1>2, <1>3, <3>1, <3>3, <3>5, <3>6, <3>7, <3>8, <3>9, StoreOpens
  <2>2. CASE ~(Fresh(k) /\ k \in UrgentKeys /\ outbox[k] = "absent")
    <3>1. Goto(j, s) /\ outbox' = outbox /\ notified' = notified \cup {k}
      BY <1>s, <2>2 DEF Store, Goto
    <3>2. k \in UrgentKeys => k \in notified
      BY <1>2, <2>2 DEF Fresh, UrgentInv, RowIsSound
    <3> QED
      BY <1>g, <3>1, <3>2
  <2> QED
    BY <2>1, <2>2
<1>4. CASE Store(j, "completed") \/ Store(j, "error")
  BY <1>s, <1>4
<1>5. CASE Goto(j, "error") /\ UNCHANGED <<notified, outbox>>
  BY <1>g, <1>5
<1> QED
  BY <1>4, <1>5 DEF Deliver

-----------------------------------------------------------------------------
(***************************************************************************)
(* The dispatcher.                                                         *)
(***************************************************************************)

LEMMA DispatchNext ==
  ASSUME UrgentInv, NEW j \in Jobs,
         GetOutbox(j) \/ Send(j) \/ MarkDelivered(j) \/ Fail(j) \/ Announce(j)
  PROVE  UrgentInv'
<1> DEFINE k == job[j].of
<1>t. /\ TypeOK /\ failures \in Nat /\ MaxFailures \in Nat
      /\ outbox \in [Keys -> TerminalStates \cup {"absent", "pending"}]
      /\ accepted \in [Keys -> Nat] /\ signals \in [Keys -> Nat]
      /\ cut \subseteq Keys /\ failures <= MaxFailures
  BY UrgentBounds DEF UrgentInv, TypeOK
<1>1. /\ IsEmailOf(j, k) /\ k \in Keys /\ EmailStage(j) /\ RowIsSound(k)
      /\ outbox[k] # "absent" /\ job[j].kind = "email" /\ job[j].status = "running"
  <2>1. \E s \in DispatchSteps : At(j, s)
    BY DEF GetOutbox, Send, MarkDelivered, Fail, Announce, DispatchSteps
  <2> QED
    BY <2>1, EmailAt DEF IsEmailOf, At
<1>2. /\ accepted[k] \in Nat /\ signals[k] \in Nat
      /\ outbox[k] \in TerminalStates \cup {"pending"}
  BY <1>t, <1>1
<1>3. /\ notified' = notified /\ produced' = produced
      /\ failures' \in {failures, failures + 1} /\ failures' \in 0 .. MaxFailures
      /\ cut' = cut \/ cut' = cut \cup {k}
  BY <1>t DEF GetOutbox, Send, MarkDelivered, Fail, Announce, Fails, Cut
<1>4. /\ outbox' = outbox \/ Write(k, "delivered") \/ Write(k, "dead_letter")
      /\ accepted' = accepted \/ accepted' = [accepted EXCEPT ![k] = @ + 1]
      /\ signals' = signals \/ signals' = [signals EXCEPT ![k] = @ + 1]
  BY DEF GetOutbox, Send, MarkDelivered, Fail, Announce
<1>5. /\ outbox' \in [Keys -> TerminalStates \cup {"absent", "pending"}]
      /\ accepted' \in [Keys -> Nat] /\ signals' \in [Keys -> Nat]
      /\ cut' \subseteq Keys
  BY <1>t, <1>1, <1>3, <1>4 DEF Write, TerminalStates
<1>6. \A m \in Keys \ {k} : RowSame(m)
  BY <1>t, <1>1, <1>3, <1>4 DEF RowSame, Write
<1>7. ASSUME NEW s \in DispatchSteps \cup Verdicts, Goto(j, s) PROVE TypeOK'
  <2>1. job' \in [Jobs -> JobRecords]
    BY <1>t, <1>7, GotoFields DEF Steps
  <2> QED
    BY <1>t, <1>3, <1>5, <2>1 DEF TypeOK, JobRecords, Steps
<1>w. ASSUME NEW state \in TerminalStates, Write(k, state), outbox[k] = "pending"
      PROVE  outbox'[k] = state
  BY <1>t, <1>1, <1>w DEF Write
<1>8. CASE GetOutbox(j)
  <2>1. /\ outbox' = outbox /\ accepted' = accepted /\ signals' = signals
        /\ outbox[k] = "pending" => accepted[k] <= failures
    BY <1>1, <1>8, Unmarked DEF GetOutbox, At
  <2>5. /\ accepted'[k] <= failures' + 1
        /\ outbox[k] = "pending" => accepted'[k] <= failures'
        /\ outbox[k] = "delivered" => accepted'[k] > 0
        /\ signals'[k] > 0 => outbox[k] = "dead_letter" /\ signals'[k] = 1
    BY <1>t, <1>1, <1>2, <1>3, <2>1 DEF RowIsSound
  <2>2. CASE Goto(j, "completed") /\ Settled(k)
    <3>1. outbox[k] \in TerminalStates /\ outbox[k] # "pending"
      BY <1>1, <1>2, <2>2 DEF Settled
    <3>2. "completed" \in DispatchSteps \cup Verdicts
      BY DEF Verdicts
    <3> HIDE DEF k
    <3> QED
      BY <1>t, <1>1, <1>2, <1>3, <1>6, <1>7, <2>1, <2>2, <2>5, <3>1, <3>2, DispatchStep
  <2>3. CASE Goto(j, "send") /\ ~Settled(k)
    <3>1. outbox[k] = "pending"
      BY <2>3 DEF Settled
    <3>2. "send" \in DispatchSteps \cup Verdicts
      BY DEF DispatchSteps
    <3> HIDE DEF k
    <3> QED
      BY <1>t, <1>1, <1>2, <1>3, <1>6, <1>7, <2>1, <2>3, <2>5, <3>1, <3>2, DispatchStep
  <2>4. CASE Goto(j, "error") /\ Cut(j)
    <3>1. LastAttempt(j) => k \in cut'
      BY <1>1, <2>4 DEF Cut
    <3>2. "error" \in DispatchSteps \cup Verdicts
      BY DEF Verdicts
    <3> HIDE DEF k
    <3> QED
      BY <1>t, <1>1, <1>2, <1>3, <1>6, <1>7, <2>1, <2>4, <2>5, <3>1, <3>2, DispatchStep
  <2> QED
    BY <1>8, <2>2, <2>3, <2>4 DEF GetOutbox
<1>9. CASE Send(j)
  <2>1. /\ outbox' = outbox /\ signals' = signals /\ cut' = cut
        /\ outbox[k] = "pending" /\ accepted[k] <= failures
    BY <1>1, <1>9, Unmarked DEF Send, At, EmailStage
  <2>2. \/ accepted'[k] = accepted[k] + 1 /\ Goto(j, "mark") /\ failures' = failures
        \/ accepted'[k] = accepted[k] /\ Goto(j, "fail") /\ failures' = failures
        \/ accepted'[k] = accepted[k] + 1 /\ Goto(j, "fail") /\ failures' = failures + 1
    BY <1>t, <1>1, <1>9 DEF Send, Fails
  <2>3. PICK s \in {"mark", "fail"} :
          /\ Goto(j, s)
          /\ s = "mark" => accepted'[k] > 0
          /\ s # "mark" => accepted'[k] <= failures'
          /\ accepted'[k] <= failures' + 1
    BY <1>t, <1>2, <2>1, <2>2
  <2>4. s \in DispatchSteps \cup Verdicts
    BY DEF DispatchSteps
  <2>5. outbox'[k] = "pending" /\ signals'[k] = 0
    BY <1>1, <1>2, <2>1 DEF RowIsSound
  <2> HIDE DEF k
  <2> QED
    BY <1>1, <1>3, <1>6, <1>7, <2>3, <2>4, <2>5, DispatchStep
<1>10. CASE MarkDelivered(j)
  <2>1. /\ accepted' = accepted /\ signals' = signals
        /\ outbox[k] = "pending" /\ accepted[k] > 0 /\ accepted[k] <= failures + 1
        /\ signals[k] = 0
    BY <1>1, <1>2, <1>10 DEF MarkDelivered, EmailStage, RowIsSound
  <2>2. CASE Write(k, "delivered") /\ Goto(j, "completed") /\ failures' = failures
    <3>1. outbox'[k] = "delivered"
      BY <1>w, <2>1, <2>2 DEF TerminalStates
    <3>2. "completed" \in DispatchSteps \cup Verdicts /\ outbox'[k] \in TerminalStates
      BY <3>1 DEF Verdicts, TerminalStates
    <3> HIDE DEF k
    <3> QED
      BY <1>1, <1>3, <1>6, <1>7, <2>1, <2>2, <3>1, <3>2, DispatchStep
  <2>3. CASE /\ failures' = failures + 1 /\ Goto(j, "error") /\ Cut(j)
             /\ Write(k, "delivered") \/ outbox' = outbox
    <3>1. outbox'[k] \in {"delivered", "pending"}
      BY <1>w, <2>1, <2>3 DEF TerminalStates
    <3>2. "error" \in DispatchSteps \cup Verdicts
      BY DEF Verdicts
    <3>3. LastAttempt(j) => k \in cut'
      BY <1>1, <2>3 DEF Cut
    <3> HIDE DEF k
    <3> QED
      BY <1>t, <1>1, <1>2, <1>3, <1>6, <1>7, <2>1, <2>3, <3>1, <3>2, <3>3, DispatchStep
  <2> QED
    BY <1>10, <2>2, <2>3 DEF MarkDelivered, Fails
<1>11. CASE Fail(j)
  <2>1. /\ accepted' = accepted /\ signals' = signals /\ cut' = cut
        /\ outbox[k] = "pending" /\ accepted[k] <= failures /\ signals[k] = 0
    BY <1>1, <1>2, <1>11, Unmarked DEF Fail, At, EmailStage, RowIsSound
  <2>2. CASE ~LastAttempt(j) /\ Goto(j, "error") /\ outbox' = outbox /\ failures' = failures
    <3>1. "error" \in DispatchSteps \cup Verdicts
      BY DEF Verdicts
    <3> HIDE DEF k
    <3> QED
      BY <1>t, <1>1, <1>2, <1>3, <1>6, <1>7, <2>1, <2>2, <3>1, DispatchStep
  <2>3. CASE /\ LastAttempt(j) /\ Write(k, "dead_letter") /\ Goto(j, "announce")
             /\ failures' = failures
    <3>1. outbox'[k] = "dead_letter"
      BY <1>w, <2>1, <2>3 DEF TerminalStates
    <3>2. "announce" \in DispatchSteps \cup Verdicts
      BY DEF DispatchSteps
    <3> HIDE DEF k
    <3> QED
      BY <1>t, <1>1, <1>2, <1>3, <1>6, <1>7, <2>1, <2>3, <3>1, <3>2, DispatchStep
  <2>4. CASE /\ failures' = failures + 1 /\ Goto(j, "unpersisted")
             /\ Write(k, "dead_letter") \/ outbox' = outbox
    <3>1. outbox'[k] \in {"dead_letter", "pending"}
      BY <1>w, <2>1, <2>4 DEF TerminalStates
    <3>2. "unpersisted" \in DispatchSteps \cup Verdicts
      BY DEF Verdicts
    <3> HIDE DEF k
    <3> QED
      BY <1>t, <1>1, <1>2, <1>3, <1>6, <1>7, <2>1, <2>4, <3>1, <3>2, DispatchStep
  <2> QED
    BY <1>11, <2>2, <2>3, <2>4 DEF Fail, Fails, Unpersisted
<1>12. CASE Announce(j)
  <2>1. /\ outbox' = outbox /\ accepted' = accepted /\ cut' = cut /\ failures' = failures
        /\ outbox[k] = "dead_letter" /\ signals[k] = 0 /\ accepted[k] <= failures + 1
        /\ Goto(j, "error")
    BY <1>1, <1>12 DEF Announce, EmailStage, RowIsSound
  <2>2. signals'[k] = 1
    BY <1>t, <1>1, <1>12, <2>1 DEF Announce
  <2>3. "error" \in DispatchSteps \cup Verdicts /\ outbox[k] \in TerminalStates
    BY <2>1 DEF Verdicts, TerminalStates
  <2> HIDE DEF k
  <2> QED
    BY <1>t, <1>1, <1>2, <1>3, <1>6, <1>7, <2>1, <2>2, <2>3, DispatchStep
<1> QED
  BY <1>8, <1>9, <1>10, <1>11, <1>12

-----------------------------------------------------------------------------
(***************************************************************************)
(* The theorems.                                                           *)
(***************************************************************************)

\* No job and no row at first.
LEMMA UrgentInit == Init => UrgentInv
<1> SUFFICES ASSUME Init PROVE UrgentInv
  OBVIOUS
<1>1. \A j \in Jobs : job[j] = FreeJob
  BY DEF Init
<1>2. TypeOK
  <2>1. job \in [Jobs -> JobRecords]
    BY FreeJobFields DEF Init
  <2> QED
    BY <2>1, UrgentBounds DEF Init, TypeOK, JobRecords, Steps
<1>3. \A j \in Jobs : JobIsSound(j) /\ EmailStage(j)
  BY <1>1, FreeJobFields DEF JobIsSound, EmailStage
<1>4. OneEmailEach
  BY <1>1, FreeJobFields DEF OneEmailEach, IsEmailOf
<1>5. \A k \in Keys : RowIsSound(k)
  BY DEF Init, RowIsSound
<1> QED
  BY <1>2, <1>3, <1>4, <1>5 DEF UrgentInv

LEMMA UrgentStutter == UrgentInv /\ UNCHANGED vars => UrgentInv'
<1> SUFFICES ASSUME UrgentInv, UNCHANGED vars PROVE UrgentInv'
  OBVIOUS
<1>1. TypeOK' /\ OneEmailEach'
  BY DEF UrgentInv, TypeOK, vars, OneEmailEach, IsEmailOf
<1>2. \A j \in Jobs : JobIsSound(j)' /\ EmailStage(j)'
  BY DEF UrgentInv, vars, JobIsSound, EmailStage, At, LastAttempt, Settles
<1>3. \A k \in Keys : RowIsSound(k)'
  BY DEF UrgentInv, vars, RowIsSound, Driven, Marking, At, IsEmailOf
<1> QED
  BY <1>1, <1>2, <1>3 DEF UrgentInv

LEMMA UrgentNext == UrgentInv /\ [Next]_vars => UrgentInv'
BY UrgentStutter, ProduceNext, RiverNext, DeliverNext, DispatchNext DEF Next, Work

LEMMA UrgentInvariant == Spec => []UrgentInv
BY UrgentInit, UrgentNext, PTL DEF Spec

\* Every variable of the model stays in its domain; the attempts of a job, which
\* snoozes give back, never pass River's limit.
THEOREM UrgentTypeCorrect == Spec => []TypeOK
BY UrgentInvariant, PTL DEF UrgentInv

\* A notification opens at most one email job of its key, in the transaction
\* that stores it: the dispatcher has no rival for a row.
THEOREM OneDispatcher == Spec => []OneEmailEach
BY UrgentInvariant, PTL DEF UrgentInv

\* A stored failure has its outbox row, and a pending row has the job that drives
\* it (Store.Deliver, UrgentDispatcher), unless a last attempt was cut short.
THEOREM EveryFailureIsDriven == Spec => []PendingIsDriven
<1>1. UrgentInv => PendingIsDriven
  BY DEF UrgentInv, PendingIsDriven, RowIsSound, TypeOK
<1> QED
  BY <1>1, UrgentInvariant, PTL

\* The row says delivered only of a message the relay took, and the dead letter
\* is announced once, after it is on the row.
THEOREM RowTellsTheTruth == Spec => []RowIsTruthful
<1>1. UrgentInv => RowIsTruthful
  BY DEF UrgentInv, RowIsTruthful, RowIsSound
<1> QED
  BY <1>1, UrgentInvariant, PTL

\* However often a failure is reported and however many attempts its mail takes,
\* each message after the first is the price of a failure.
THEOREM MailIsNotRepeated == Spec => []DuplicatesAreLosses
<1>1. UrgentInv => DuplicatesAreLosses
  BY DEF UrgentInv, DuplicatesAreLosses, RowIsSound
<1> QED
  BY <1>1, UrgentInvariant, PTL
-----------------------------------------------------------------------------
(***************************************************************************)
(* The contract.                                                           *)
(***************************************************************************)
OutcomeOf(s) ==
    IF s = "absent" THEN "none" ELSE IF s = "pending" THEN "open" ELSE s

Contract == INSTANCE MailContract WITH
    Messages  <- Keys,
    outcome   <- [k \in Keys |-> OutcomeOf(outbox[k])],
    mails     <- [k \in Keys |-> accepted[k]],
    announced <- [k \in Keys |-> IF signals[k] > 0 THEN {"dead_letter"} ELSE {}]

\* Row, relay and monitoring do not change.
LEMMA ContractStutters ==
  ASSUME UNCHANGED <<outbox, accepted, signals>>
  PROVE  UNCHANGED Contract!vars
BY DEF Contract!vars

\* The guarded update of a pending row settles its message, unannounced.
LEMMA WriteSettles ==
  ASSUME UrgentInv, NEW k \in Keys, NEW o \in TerminalStates, Write(k, o),
         outbox[k] = "pending", o = "delivered" => accepted[k] > 0,
         UNCHANGED <<accepted, signals>>
  PROVE  Contract!Next
<1>1. outbox' = [outbox EXCEPT ![k] = o] /\ outbox'[k] = o
  BY DEF Write, UrgentInv, TypeOK
<1>2. \A m \in Keys :
         OutcomeOf(outbox'[m]) = IF m = k THEN o ELSE OutcomeOf(outbox[m])
  BY <1>1 DEF OutcomeOf, TerminalStates
<1>3. [m \in Keys |-> OutcomeOf(outbox'[m])]
          = [[m \in Keys |-> OutcomeOf(outbox[m])] EXCEPT ![k] = o]
  BY ONLY <1>2
<1>4. Contract!Settle(k, o)
  BY <1>3 DEF Contract!Settle, OutcomeOf
<1> QED
  BY <1>4 DEF Contract!Next, Contract!Outcomes, TerminalStates

LEMMA ContractInit == Init => Contract!Init
BY DEF Init, Contract!Init, OutcomeOf

LEMMA ContractNext == UrgentInv /\ [Next]_vars => [Contract!Next]_(Contract!vars)
<1> SUFFICES ASSUME UrgentInv, [Next]_vars PROVE [Contract!Next]_(Contract!vars)
  OBVIOUS
<1>t. /\ outbox \in [Keys -> TerminalStates \cup {"absent", "pending"}]
      /\ accepted \in [Keys -> Nat] /\ signals \in [Keys -> Nat]
  BY DEF UrgentInv, TypeOK
<1>u. ASSUME UNCHANGED <<outbox, accepted, signals>> PROVE UNCHANGED Contract!vars
  BY <1>u, ContractStutters
<1>1. ASSUME NEW j \in Jobs, Deliver(j) PROVE [Contract!Next]_(Contract!vars)
  <2>1. UNCHANGED <<accepted, signals>>
    BY <1>1 DEF Deliver
  <2>2. CASE outbox' = outbox
    BY <1>u, <2>1, <2>2
  <2>3. CASE /\ outbox[job[j].of] = "absent" /\ job[j].of \in UrgentKeys
             /\ outbox' = [outbox EXCEPT ![job[j].of] = "pending"]
    <3>1. PICK k \in Keys : k = job[j].of
      BY <2>3, UrgentBounds
    <3>2. \A m \in Keys :
             OutcomeOf(outbox'[m]) = IF m = k THEN "open" ELSE OutcomeOf(outbox[m])
      BY <1>t, <2>3, <3>1 DEF OutcomeOf
    <3>3. [m \in Keys |-> OutcomeOf(outbox'[m])]
              = [[m \in Keys |-> OutcomeOf(outbox[m])] EXCEPT ![k] = "open"]
      BY ONLY <3>2
    <3>4. Contract!Open(k)
      BY <2>1, <2>3, <3>1, <3>3 DEF Contract!Open, OutcomeOf
    <3> QED
      BY <3>4 DEF Contract!Next
  <2> QED
    BY <1>1, <2>2, <2>3 DEF Deliver, Store
<1>2. ASSUME NEW j \in Jobs, Send(j) PROVE [Contract!Next]_(Contract!vars)
  <2>1. PICK k \in Keys : k = job[j].of /\ outbox[k] = "pending"
    BY <1>2, EmailAt DEF Send, DispatchSteps, EmailStage, IsEmailOf
  <2>2. UNCHANGED <<outbox, signals>>
    BY <1>2 DEF Send
  <2>3. CASE accepted' = accepted
    BY <1>u, <2>2, <2>3
  <2>4. CASE accepted' = [accepted EXCEPT ![k] = accepted[k] + 1]
    <3>1. \A m \in Keys :
             accepted'[m] = IF m = k THEN accepted[k] + 1 ELSE accepted[m]
      BY <1>t, <2>4
    <3>2. [m \in Keys |-> accepted'[m]]
              = [[m \in Keys |-> accepted[m]] EXCEPT ![k] = accepted[k] + 1]
      BY ONLY <3>1
    <3>3. Contract!Send(k)
      BY <2>1, <2>2, <3>2 DEF Contract!Send, OutcomeOf
    <3> QED
      BY <3>3 DEF Contract!Next
  <2> QED
    BY <1>2, <2>1, <2>3, <2>4 DEF Send
<1>3. ASSUME NEW j \in Jobs, MarkDelivered(j) PROVE [Contract!Next]_(Contract!vars)
  <2>1. PICK k \in Keys : k = job[j].of /\ outbox[k] = "pending" /\ accepted[k] > 0
    BY <1>3, EmailAt DEF MarkDelivered, DispatchSteps, EmailStage, IsEmailOf
  <2> QED
    BY <1>3, <1>u, <2>1, WriteSettles DEF MarkDelivered, TerminalStates
<1>4. ASSUME NEW j \in Jobs, Fail(j) PROVE [Contract!Next]_(Contract!vars)
  <2>1. PICK k \in Keys : k = job[j].of /\ outbox[k] = "pending"
    BY <1>4, EmailAt DEF Fail, DispatchSteps, EmailStage, IsEmailOf
  <2> QED
    BY <1>4, <1>u, <2>1, WriteSettles DEF Fail, TerminalStates
<1>5. ASSUME NEW j \in Jobs, Announce(j) PROVE [Contract!Next]_(Contract!vars)
  <2>1. PICK k \in Keys : k = job[j].of /\ outbox[k] = "dead_letter" /\ signals[k] = 0
    BY <1>5, EmailAt DEF Announce, DispatchSteps, EmailStage, IsEmailOf
  <2>2. /\ signals' = [signals EXCEPT ![k] = signals[k] + 1]
        /\ UNCHANGED <<outbox, accepted>>
    BY <1>5, <2>1 DEF Announce
  <2>3. \A m \in Keys :
           (IF signals'[m] > 0 THEN {"dead_letter"} ELSE {})
               = IF m = k THEN {"dead_letter"}
                          ELSE IF signals[m] > 0 THEN {"dead_letter"} ELSE {}
    BY <1>t, <2>1, <2>2
  <2>4. [m \in Keys |-> IF signals'[m] > 0 THEN {"dead_letter"} ELSE {}]
            = [[m \in Keys |-> IF signals[m] > 0 THEN {"dead_letter"} ELSE {}]
                   EXCEPT ![k] = {"dead_letter"}]
    BY ONLY <2>3
  <2>5. /\ OutcomeOf(outbox[k]) = "dead_letter" /\ ~(signals[k] > 0)
    BY <2>1 DEF OutcomeOf
  <2>6. Contract!Announce(k)
    BY <2>2, <2>4, <2>5 DEF Contract!Announce, Contract!Outcomes
  <2> QED
    BY <2>6 DEF Contract!Next
<1>6. CASE \/ UNCHANGED vars
           \/ \E k \in Keys : Produce(k)
           \/ \E j \in Jobs : \/ Fetch(j) \/ Crash(j) \/ Rescue(j) \/ Conclude(j)
                              \/ GetOutbox(j)
  BY <1>u, <1>6 DEF vars, Produce, Fetch, Crash, Rescue, Conclude, GetOutbox
<1> QED
  BY <1>1, <1>2, <1>3, <1>4, <1>5, <1>6 DEF Next, Work

\* UrgentDispatcher.Dispatch keeps the contract of a message: over any number of
\* reports, attempts, snoozes and dead workers, a failure is mailed only while
\* its row is open, the row settles once and for good, as delivered only after a
\* mail the relay took, and its dead letter is announced once, after the write.
THEOREM UrgentKeepsContract == Spec => Contract!Spec
BY ContractInit, ContractNext, UrgentInvariant, PTL DEF Spec, Contract!Spec
=============================================================================
