----------------------------- MODULE ConnectorSync -----------------------------
(***************************************************************************)
(* The marketplace connector of one account                                *)
(* (services/core/internal/connector) and the catalog synchronization it   *)
(* gates (services/core/internal/catalog): credential generations, the     *)
(* capabilities probed with them, sync requests, and the River job that    *)
(* drives a sync run page by page from its persisted cursor.               *)
(*                                                                         *)
(* Of the nine capabilities only the two that gate the catalog are kept;   *)
(* all nine are reset and probed alike.  Tokens are the number of their    *)
(* generation.  The ownership guards are left out: they decide by an       *)
(* organization that never changes.  Nothing production runs creates an    *)
(* initial import; every run is the incremental one.                       *)
(***************************************************************************)
EXTENDS Integers, Sequences, SequencesExt

CONSTANTS
    Calls,         \* concurrent requests to the connector
    MaxGen,        \* bound: credential generations the marketplace issues
    MaxRuns,       \* bound: sync runs
    MaxPages,      \* bound: pages of the seller's catalog
    MaxAttempts,   \* attempts River gives a job
    MaxFailures    \* bound: failed statements and calls, cut-off attempts

ASSUME SyncBounds ==
    /\ MaxGen \in Nat \ {0} /\ MaxRuns \in Nat /\ MaxPages \in Nat \ {0}
    /\ MaxAttempts \in Nat \ {0} /\ MaxFailures \in Nat

VARIABLES
    issued,     \* the marketplace: credential generations issued so far
    pages,      \* the marketplace: pages of the seller's catalog
    conn,       \* connector_connections: state and the tokens' generation
    caps,       \* connector_capabilities, with the generation that was probed
    call,       \* each request
    runs,       \* catalog_sync_runs in the order of started_at
    job,        \* the River job of each run, and its worker
    overlapped, \* history: two requests that change credentials overlapped
    failures

vars == <<issued, pages, conn, caps, call, runs, job, overlapped, failures>>

-----------------------------------------------------------------------------

\* In the order in which they are probed.
Probed == <<"catalog_read", "owned_offer_read">>
Capabilities == ToSet(Probed)

Generations == 0 .. MaxGen
Unknown == [status |-> "unknown", of |-> 0]
AllUnknown == [c \in Capabilities |-> Unknown]

IdleCall == [op |-> "none", at |-> "idle", gen |-> 0, probe |-> 1]
NoJob == [at |-> "none", attempts |-> 0, opened |-> {}, token |-> 0, total |-> 0]

Credential == {"connect", "refresh", "disconnect"}
WorkerSteps == {"load", "gate", "token", "fetch", "apply", "complete"}

TypeOK ==
    /\ issued \in Generations
    /\ pages \in 1 .. MaxPages
    /\ conn \in [state : {"none", "connected", "disconnected"}, gen : Generations]
    /\ caps \in [Capabilities -> [status : {"unknown", "supported", "degraded"},
                                  of : Generations]]
    /\ call \in [Calls -> [op : Credential \cup {"none", "sync"},
                           at : {"idle", "exchange", "invalidate", "persist", "probe",
                                 "reset", "latest", "enqueue"},
                           gen : Generations, probe : 1 .. Len(Probed)]]
    /\ runs \in Seq([status : {"running", "completed"}, next : 1 .. MaxPages + 1,
                     total : 0 .. MaxPages, applied : Seq(1 .. MaxPages)])
    /\ Len(runs) <= MaxRuns
    /\ job \in [1 .. MaxRuns ->
                  [at : WorkerSteps \cup {"none", "queued", "done", "discarded"},
                   attempts : 0 .. MaxAttempts, opened : SUBSET Generations,
                   token : Generations, total : 0 .. MaxPages]]
    /\ overlapped \in BOOLEAN
    /\ failures \in 0 .. MaxFailures

Init ==
    /\ issued = 0 /\ pages \in 1 .. MaxPages
    /\ conn = [state |-> "none", gen |-> 0]
    /\ caps = AllUnknown
    /\ call = [c \in Calls |-> IdleCall]
    /\ runs = <<>> /\ job = [r \in 1 .. MaxRuns |-> NoJob]
    /\ overlapped = FALSE /\ failures = 0

Fails == failures < MaxFailures /\ failures' = failures + 1

-----------------------------------------------------------------------------
(***************************************************************************)
(* Connect, Refresh, Disconnect.                                           *)
(***************************************************************************)

Changing == {c \in Calls : call[c].op \in Credential}

Begin(c, op, at) ==
    /\ call[c].at = "idle"
    /\ call' = [call EXCEPT ![c] = [IdleCall EXCEPT !.op = op, !.at = at]]

Connect(c) ==
    /\ Begin(c, "connect", "exchange")
    /\ overlapped' = (overlapped \/ Changing # {})
    /\ UNCHANGED <<issued, pages, conn, caps, runs, job, failures>>

\* Refresh loads the connection first and needs it to be connected.
Refresh(c) ==
    /\ conn.state = "connected"
    /\ Begin(c, "refresh", "exchange")
    /\ overlapped' = (overlapped \/ Changing # {})
    /\ UNCHANGED <<issued, pages, conn, caps, runs, job, failures>>

\* The marketplace issues tokens.  Seeding follows: it adds the rows that are
\* absent, as Unknown, which is how an absent one reads.
Exchange(c) ==
    /\ call[c].at = "exchange" /\ issued < MaxGen
    /\ issued' = issued + 1
    /\ call' = [call EXCEPT ![c].at = "invalidate", ![c].gen = issued + 1]
    /\ UNCHANGED <<pages, conn, caps, runs, job, overlapped, failures>>

\* Mutant: the capabilities are left to the probes to replace.
LeftToProbes == caps

\* One UPDATE returns every capability to Unknown.
Reset == AllUnknown

Invalidate(c) ==
    /\ call[c].at = "invalidate"
    /\ caps' = Reset
    /\ call' = [call EXCEPT ![c].at = "persist"]
    /\ UNCHANGED <<issued, pages, conn, runs, job, overlapped, failures>>

PersistTokens(c) ==
    /\ call[c].at = "persist"
    /\ conn' = [state |-> "connected", gen |-> call[c].gen]
    /\ call' = [call EXCEPT ![c].at = "probe"]
    /\ UNCHANGED <<issued, pages, caps, runs, job, overlapped, failures>>

AfterProbe(k) ==
    IF k.probe = Len(Probed) THEN IdleCall ELSE [k EXCEPT !.probe = k.probe + 1]

\* The probes' answers are written one by one, whatever the row's generation
\* has become.  The read probes end in supported or degraded here: the states
\* that do not open a gate are one.
PersistProbe(c) ==
    /\ call[c].at = "probe"
    /\ \E s \in {"supported", "degraded"} :
          caps' = [caps EXCEPT ![Probed[call[c].probe]] =
                       [status |-> s, of |-> call[c].gen]]
    /\ call' = [call EXCEPT ![c] = AfterProbe(@)]
    /\ UNCHANGED <<issued, pages, conn, runs, job, overlapped, failures>>

\* Disconnect purges the tokens, and resets in a statement of its own.
Disconnect(c) ==
    /\ Begin(c, "disconnect", "reset")
    /\ conn' = IF conn.state = "none" THEN conn ELSE [state |-> "disconnected", gen |-> 0]
    /\ overlapped' = (overlapped \/ Changing # {})
    /\ UNCHANGED <<issued, pages, caps, runs, job, failures>>

ResetCapabilities(c) ==
    /\ call[c].at = "reset"
    /\ caps' = AllUnknown
    /\ call' = [call EXCEPT ![c] = IdleCall]
    /\ UNCHANGED <<issued, pages, conn, runs, job, overlapped, failures>>

-----------------------------------------------------------------------------
(***************************************************************************)
(* SyncCatalog.                                                            *)
(***************************************************************************)

Supported(c) == caps[c].status = "supported"

SyncCatalog(c) ==
    /\ Supported("catalog_read")
    /\ Begin(c, "sync", "latest")
    /\ UNCHANGED <<issued, pages, conn, caps, runs, job, overlapped, failures>>

\* The fast path: the latest run is in flight.
SyncInFlight(c) ==
    /\ call[c].at = "latest"
    /\ call' = [call EXCEPT ![c] =
                    IF runs # <<>> /\ Last(runs).status = "running" THEN IdleCall
                    ELSE [@ EXCEPT !.at = "enqueue"]]
    /\ UNCHANGED <<issued, pages, conn, caps, runs, job, overlapped, failures>>

\* Mutant: the plain read above is the guard.
NeverInFlight == FALSE

\* The partial unique index on the runs that are not terminal.
InFlight == \E r \in DOMAIN runs : runs[r].status = "running"

\* One transaction inserts the run, unless the index has one, and its job.
Enqueue(c) ==
    /\ call[c].at = "enqueue"
    /\ call' = [call EXCEPT ![c] = IdleCall]
    /\ \/ InFlight /\ UNCHANGED <<runs, job>>
       \/ /\ ~InFlight /\ Len(runs) < MaxRuns
          /\ runs' = Append(runs, [status |-> "running", next |-> 1, total |-> 0,
                                   applied |-> <<>>])
          /\ job' = [job EXCEPT ![Len(runs) + 1] = [NoJob EXCEPT !.at = "queued"]]
    /\ UNCHANGED <<issued, pages, conn, caps, overlapped, failures>>

\* A statement or a call fails, or the process stops.
CallFails(c) ==
    /\ call[c].at # "idle" /\ Fails
    /\ call' = [call EXCEPT ![c] = IdleCall]
    /\ UNCHANGED <<issued, pages, conn, caps, runs, job, overlapped>>

-----------------------------------------------------------------------------
(***************************************************************************)
(* The job of run r: Syncer.Resume.                                        *)
(***************************************************************************)

At(r, step) == job[r].at = step
MovesTo(r, step) == job' = [job EXCEPT ![r].at = step]

Attempt(r) ==
    /\ At(r, "queued")
    /\ job' = [job EXCEPT ![r].at = "load", ![r].attempts = @ + 1]
    /\ UNCHANGED <<issued, pages, conn, caps, call, runs, overlapped, failures>>

\* Mutant: an attempt that ended in an error counts as worked.
WorkedAnyway(j) == [NoJob EXCEPT !.at = "done", !.attempts = j.attempts]

\* The attempt ends in an error, recorded on the run, whose status and cursor
\* stay: River retries until the attempts are exhausted.
Ended(j) ==
    [NoJob EXCEPT !.at = IF j.attempts < MaxAttempts THEN "queued" ELSE "discarded",
                  !.attempts = j.attempts]

LoadRun(r) ==
    /\ At(r, "load")
    /\ MovesTo(r, IF runs[r].status = "completed" THEN "done" ELSE "gate")
    /\ UNCHANGED <<issued, pages, conn, caps, call, runs, overlapped, failures>>

\* FetchVariantsPage: the capabilities, then the token, each read by itself.
Gate(r) ==
    /\ At(r, "gate")
    /\ job' = [job EXCEPT ![r] =
                   IF \A c \in Capabilities : Supported(c)
                   THEN [@ EXCEPT !.at = "token",
                                  !.opened = {caps[c].of : c \in Capabilities}]
                   ELSE Ended(@)]
    /\ UNCHANGED <<issued, pages, conn, caps, call, runs, overlapped, failures>>

LoadToken(r) ==
    /\ At(r, "token")
    /\ job' = [job EXCEPT ![r] = IF conn.state = "connected"
                                 THEN [@ EXCEPT !.at = "fetch", !.token = conn.gen]
                                 ELSE Ended(@)]
    /\ UNCHANGED <<issued, pages, conn, caps, call, runs, overlapped, failures>>

\* A page the catalog does not have contradicts its pager, and fails.
Fetch(r) ==
    /\ At(r, "fetch")
    /\ job' = [job EXCEPT ![r] = IF runs[r].next <= pages
                                 THEN [NoJob EXCEPT !.at = "apply", !.total = pages,
                                                    !.attempts = job[r].attempts]
                                 ELSE Ended(@)]
    /\ UNCHANGED <<issued, pages, conn, caps, call, runs, overlapped, failures>>

\* The page, the cursor behind it and the total it was told of are one
\* transaction.
Advanced(run, total) ==
    [run EXCEPT !.applied = Append(@, run.next), !.next = @ + 1, !.total = total]

\* Mutant: the loop stops a page short.
OnePageShort(page, total) == page + 1 >= total

AtEnd(page, total) == page >= total

ApplyPage(r) ==
    /\ At(r, "apply")
    /\ runs' = [runs EXCEPT ![r] = Advanced(@, job[r].total)]
    /\ job' = [job EXCEPT ![r].total = 0,
                          ![r].at = IF AtEnd(runs[r].next, job[r].total)
                                   THEN "complete" ELSE "load"]
    /\ UNCHANGED <<issued, pages, conn, caps, call, overlapped, failures>>

\* finish: the drift is counted, then the run is completed.
Complete(r) ==
    /\ At(r, "complete")
    /\ runs' = [runs EXCEPT ![r].status = "completed"]
    /\ job' = [job EXCEPT ![r] = [NoJob EXCEPT !.at = "done", !.attempts = job[r].attempts]]
    /\ UNCHANGED <<issued, pages, conn, caps, call, overlapped, failures>>

\* A statement or the marketplace fails, the job's time is up, or its worker
\* dies and River rescues it.
AttemptFails(r) ==
    /\ job[r].at \in WorkerSteps /\ Fails
    /\ job' = [job EXCEPT ![r] = Ended(@)]
    /\ UNCHANGED <<issued, pages, conn, caps, call, runs, overlapped>>

CatalogChanges ==
    /\ pages' \in 1 .. MaxPages \ {pages}
    /\ UNCHANGED <<issued, conn, caps, call, runs, job, overlapped, failures>>

-----------------------------------------------------------------------------

Work(r) ==
    \/ Attempt(r) \/ LoadRun(r) \/ Gate(r) \/ LoadToken(r) \/ Fetch(r)
    \/ ApplyPage(r) \/ Complete(r)

Next ==
    \/ \E c \in Calls :
          \/ Connect(c) \/ Refresh(c) \/ Exchange(c) \/ Invalidate(c)
          \/ PersistTokens(c) \/ PersistProbe(c)
          \/ Disconnect(c) \/ ResetCapabilities(c)
          \/ SyncCatalog(c) \/ SyncInFlight(c) \/ Enqueue(c) \/ CallFails(c)
    \/ \E r \in 1 .. MaxRuns : Work(r) \/ AttemptFails(r)
    \/ CatalogChanges

Spec == Init /\ [][Next]_vars

\* River fetches, works, retries and rescues the job of every run.
Fairness == \A r \in 1 .. MaxRuns : WF_vars(Work(r))
FairSpec == Spec /\ Fairness

-----------------------------------------------------------------------------
(***************************************************************************)
(* Properties.                                                             *)
(***************************************************************************)

\* A capability that the registry of a connected account calls Supported was
\* probed with the tokens in use, wherever a connect or refresh failed on the
\* way.  Requests that overlap break it (RegistryIsCurrentEver).
RegistryIsCurrent ==
    overlapped \/ conn.state # "connected"
        \/ \A c \in Capabilities : Supported(c) => caps[c].of = conn.gen

\* The pages of a run are applied in order, none skipped and none twice,
\* however often its job is retried, and up to a cursor that is never behind
\* or ahead of them; a completed run has applied exactly the pages up to the
\* total that its last page told it, however the catalog grew or shrank and
\* wherever attempts ended on the way.  And pages are only applied for the one
\* run in flight, so the marker that drift is counted by (last_seen_run_id) is no
\* other run's.
RunsAreWhole ==
    /\ \A r \in DOMAIN runs :
          /\ runs[r].applied = [i \in 1 .. runs[r].next - 1 |-> i]
          /\ runs[r].status = "completed" =>
                runs[r].total > 0 /\ runs[r].next = runs[r].total + 1
    /\ \A r \in DOMAIN runs : r < Len(runs) => runs[r].status = "completed"

\* A run in flight is never abandoned: an error, a closed gate or a lost worker
\* leaves its job to be tried again, unless River exhausted its attempts.
RunInFlightIsDriven ==
    \A r \in DOMAIN runs : runs[r].status = "running" =>
        job[r].at \in WorkerSteps \cup {"queued"} \/ job[r].attempts = MaxAttempts

-----------------------------------------------------------------------------
(***************************************************************************)
(* Statements of the source that the interleavings refute.                 *)
(***************************************************************************)

\* service.go: "no reader can combine a previous generation's Supported with
\* the new credentials".
RegistryIsCurrentEver ==
    conn.state = "connected" =>
        \A c \in Capabilities : Supported(c) => caps[c].of = conn.gen
ReadersSeeOneGeneration ==
    \A r \in 1 .. MaxRuns : At(r, "fetch") => job[r].opened = {job[r].token}

\* service.go: Disconnect "severs the connection", and resets every capability
\* "so nothing dependent can run afterwards".
DisconnectSevers ==
    [][conn.state = "disconnected" /\ conn' # conn =>
          \E c \in Calls : call[c].op = "connect" /\ call[c].at = "persist"]_vars
DisconnectedIsUnknown ==
    conn.state = "disconnected" /\ Changing = {} => \A c \in Capabilities : ~Supported(c)

\* sync.go: "an interrupted import (process crash, ...) resumes from exactly
\* where it stopped".
EveryRunCompletes ==
    \A r \in 1 .. MaxRuns :
        (r <= Len(runs)) ~> (r <= Len(runs) /\ runs[r].status = "completed")
=============================================================================
