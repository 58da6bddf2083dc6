# Verification of market-ops

market-ops is a pricing assistant for sellers of one marketplace (DK).  It
observes offers, turns changes into market events, events into recommendations,
recommendations into approval cards, and - only after a person activated the
card's structured control - an approved card into one price write.  This
directory holds TLA+ models of its core service, TLC configurations that check
them on small instances, and theorems checked by the TLA+ proof system.

Everything here is about the code at this commit: each definition that models
code has an entry in `PROJECT.json` ("map") with the lines it stands for.

Contents: [the system](#the-system), [the modules](#the-modules),
[the runs](#the-runs), [divergences found](#divergences-found),
[the proofs](#the-proofs), [what is not modelled](#what-is-not-modelled),
[the plan](#the-plan).


## The system

    extension ──capture──┐
    connector/catalog ───┼─► observation ─► event ─► recommendation producer
    route C (server) ────┘                                  │ Draft card
                                                            ▼
    LLM plane ──chat Draft──► approval plane (lineages of card versions)
    web ──confirm, edit, bulk──►        │ approved card + execute_approved job
                                        ▼
                              execution plane ──► marketplace
                                │    │    └─ recommend-only tracking
                                │    └─ reconciliation of unknown outcomes
                                ├─► outcome windows, audit records
                                └─► notifications ─► in-app, urgent mail, digest

The process boundaries are those of the repository's README: the Go core
service (`services/core`), the only writer of the database; the LLM plane, which
reaches the core through its gateway and may prepare Drafts; the web
application; the browser extension; the locale package; the contracts and the
code generated from them; PostgreSQL, which also holds the River job queue.  All
concurrency that matters is between database transactions: several replicas of
the core, each with HTTP handlers and River workers, over one database.

### Components

State, operations, what is hard about each, and what makes it correct.  The
package is under `services/core/internal` unless a path is given.

| component | state it keeps | operations | hard | correct when |
| --- | --- | --- | --- | --- |
| `approval` | none (pure) | edge table, predicates on states, binding, `Card.Confirm` | expiry boundary, versions of a binding | no move outside the table; a stale or late activation never approves |
| `recommendation` cards | `approval_cards` (versions of a lineage), state history | mint Draft, review, edit price, `ConfirmIndividual`, expire dependants | reads before the lineage lock; superseded versions | only the head of a lineage is approved, once, in time, with its audit and its durable intent |
| `recommendation` bulk | `selection_sets`, members | preview (seal), confirm member by member | partial failure, resume, races with other confirmations | each member reported once and truthfully; no member authorized twice |
| `recommendation` producer | `recommendations` | periodic pass over eligible events | overlapping passes, dedup read outside the transaction | one version per evidence version, increasing |
| `execution` | `action_executions`, `recommend_only_actions`, cards | `Execute`: replay, resume, gates, claim, write, result | crash at any point, concurrent callers, unknown outcomes, changing signals | at most one write per action, only after gates passed; every end evidenced; no card stranded |
| `reconcile` | the same rows | read pending, apply an authoritative read-back | read outside the transaction | a settled record is not changed |
| `audit` | append-only records | appended inside the transactions above | must commit with what it records | no settled card without its records |
| `outcome` | `outcome_windows`, results | open with settlement, close when due | two closers; attribution | one window per settled action, one result per window |
| `notify` in-app | `notifications` | insert once per dedup key | commits with its cause | no block or failure without its notification |
| `notify` digest | digest and delivery rows, River jobs | fan-out, attempt, recovery | SMTP's ambiguous window, lost workers, failed terminal writes | at most one mail per account and day; records and signals never lie; every day finishes |
| `notify` urgent | outbox rows, River jobs | enqueue, dispatch, dead-letter, re-drive | at-least-once mail, lost marks | a pending row has its job; row and signal are true; a message is repeated only for a loss |
| `jobs` | River's job rows | insert with uniqueness, retry, snooze, rescue | last attempt, lost worker | an obligation outlives its job |
| `event` | events, per-stream cursors, ledger of consumed movements | expire, drain, record, clear, advance | bursts, failed record in mid-pass, overlapping passes | a cursor never passes an unrecorded movement; an event is announced once; no stream starves |
| `observation` | observations, current offers | ingest, drift downgrade | duplicates and late captures of several routes, READ COMMITTED | the offer of record is attested; routes that disagree block it; only evidence lifts a block |
| `routec` | breaker, drift guard, limiter (memory); budget window (database) | `ObserveTarget` of concurrent sweeps | half-open probe, slots on every exit path, window boundary | never more requests than the budget; a half-open breaker has its probe; every call ends |
| `connector` | connection with its tokens, capability rows, sync runs | connect, refresh, disconnect, probe, request a sync | a request that stops half way; overlapping ones; concurrent syncs | a capability is claimed only by the current credentials; one sync is in flight |
| `catalog` | cursor and counters of a sync run, products and variants | `Resume`: page by page, complete, record an error | retries, lost workers, a gate that closes in mid-run | each page applied once and in order; a run in flight has a job |
| `identity` | versioned variant mappings | confirm, reopen | cards approved while a mapping reopens | no live control on a reopened mapping |
| `guardrail` | one row of limits per account, versioned | `Set` under optimistic concurrency | two Owners writing; rows from before versions | limits only tighten, whoever races |
| `policy`, `money`, `margin` | none (pure) | `Evaluate`, `AdmitEditedPrice`, contribution, checked arithmetic | stage order, rounding, overflow, floors below zero | no offer breaks a hard limit; the blocker reported is the one that blocks |
| `cost` | effective-dated profiles (append-only) | import, resolve, readiness | effective dates | a number is reproduced by the versions it was made from |
| `pairing` | single-use codes, credentials | issue, claim, revoke | two claims of a code | one credential per code |
| `watchlist`, `briefing`, `conversation` | a capped list, a daily snapshot, append-only turns | add, build, append | little: an advisory lock or one transaction | the cap holds; one snapshot per day |
| `auth`, `perm` | sessions; a constant table | | cryptography | - |
| `httpapi`, `keyset`, `normalize`, `config`, `log`, `obs`, `analytics`, `diagnostics` | none that others depend on | decode, authorize, encode, count | | - |
| `cmd/core` | none | decides which adapters run in production | | - |
| LLM plane, web, extension, locale, contracts | presentation; extension upload queue | | upload retries | - |

How the modelled ones interact:

- **approval → execution.** `ConfirmIndividual` commits the approved card, its
  audit record and the `execute_approved` job in one transaction.  The initial
  states of `ActionExecution` are the states that transaction leaves; the
  property `AuthorizedOnce` of `ApprovalLineage` is the promise they rest on.
- **execution → approval.** `AdvanceTx` moves cards under a guard on the state
  they are in.  Seen from `ApprovalLineage` it is any walk along the edges.
  `CardLife` states what either plane may do to a card, and both are proved to
  implement their side of it.
- **identity → both.** `ExpireDependentForVariant` invalidates live cards.
- **execution → outcome, audit, notify.** Rows of the same transaction.
- **notify → digest.** The digest reads the notifications of a closed UTC day.
- **every producer → in-app → urgent, digest.** A notification intent is a job of
  the transaction it reports; the job stores the notification and, of an urgent
  one, the outbox row and its mail job.
- **observation → event.** The drain reads the append-only observations after a
  cursor; it does not look at the offer of record.
- **connector → catalog.** `SyncCatalog` inserts the run and its River job in one
  transaction; the job reads the capabilities and the token before each page.
- **route C → observation.** A sweep ingests what it fetched, and downgrades the
  offer when the page drifted.
- **guardrail → policy → approval.** The limits of an account are settings of the
  pricing policy, which proposes a price for a market and admits an edited one.
  At this commit nothing in production joins them: the pricing endpoint takes its
  settings from the request, and the edit check has no adapter.
- **event → producer → approval.** An evidence version of an event becomes a
  recommendation version and, if it is approvable, a Draft card.

The `hazards` list of `PROJECT.json` names, line by line, what can go wrong and
which property looks at it.


## The modules

| module | what it is |
| --- | --- |
| `ApprovalMachine` | the card state machine: states, edge table, predicates; pure, extended by both planes |
| `ActionExecution` | the execution plane, with reconciliation, identity expiry and recommend-only matching |
| `WriteLedger` | what the execution plane promises about one action; abstract |
| `ApprovalLineage` | minting, review and confirmation of card versions, bulk approval, the producer |
| `CardLife` | what the approval and the execution plane promise each other about a card; abstract |
| `DigestDelivery` | the daily digest: delivery rows, River jobs, SMTP exchange, recovery |
| `MarketEvents` | the event producer: cursors, drain, movements, events, intents |
| `UrgentDelivery` | in-app notifications and the urgent mail: intents, outbox, River jobs |
| `MailContract` | what both mail channels promise of one message; abstract |
| `ObservationIngest` | ingest of one offer by several routes, the quality verdict, the offer of record |
| `RouteObserver` | route C's guarded pipeline: breaker, drift guard, limiter, budget |
| `ConnectorSync` | the connector's credentials and capabilities, and the catalog sync they gate |
| `Money`, `Margin` | rates, rounding and range of amounts; the contribution of a sale; pure |
| `PricePolicy` | the six stages of the pricing policy and the check of an edited price; pure |
| `Guardrails` | the guardrail row of an account, written by racing Owners, and what the policy offers under it |
| `MC...` | instances, input bounds and symmetry for TLC, one module per component |
| `ActionExecutionProofs`, `ApprovalLineageProofs`, `DigestDeliveryProofs`, `UrgentDeliveryProofs`, `RouteObserverProofs`, `ConnectorSyncProofs`, `GuardrailsProofs` | theorems and proofs about the module of that name |
| `MarketProofs` | theorems and proofs about `ObservationIngest` and `MarketEvents`, both extended: hence the names of the latter (`EventInit`, `EventNext`, `EventSpec`, `EventTypeOK`) |

A database transaction, or a read outside one, is one step.  Between two steps
of a caller any other caller may take any number, or the caller may stop: what
it committed stays, everything else is lost.  Identifiers, prices, messages and
signals are reduced to what a decision depends on.

### ActionExecution

`run[w]` is one invocation of `execution.Service.Execute`: its program counter
and the locals it carries across transactions - the state it read the card in
(`seen`), the verdict of the gates (`ok`), the result it is to record (`ext`).
`RiverWorkers` are the invocations that work the `execute_approved` job; the
other members of `Callers` are HTTP requests.  `attempts[c]` is what the card's
job has left; 0 is a job completed or discarded.

| action | code |
| --- | --- |
| `Execute` | the card is read |
| `LookupExecution`, `ReplayWrite`, `LookupRecommendOnly` | replay of an earlier record; `replayWrite` heals a card left in Executing |
| `Resolve` | the resolver's signals, the nine gates, the enablement; all used in later transactions |
| `BeginRevalidation`, `GateBoundary` | Approved → Revalidating, then Executing or Invalidated |
| `ParkGateBlocked` | a resume from Executing whose gates fail: a no-write marker |
| `RecordRecommendOnly`, `MatchRecommendOnly` | tracking of what the seller does without the write capability |
| `Claim`, `WritePrice`, `CommitWriteResult` | `ON CONFLICT DO NOTHING` claim, the external call, the result transaction |
| `Crash` | process death, cancelled context or failed transaction, at any step |
| `ReconcileRead`, `ReconcileCommit` | `ReconcilePending`, whose check is outside its transaction |
| `ExpireDependentList`, `InvalidateDependent` | an identity reopen: a listing, then one transaction per card |
| `SignalsChange` | the world: gates and capability may change at any time |

The nine gates are one boolean per card.  Their order decides only which reason
is reported.  `writes` and `answer` are the marketplace: they record that a
request left, whatever became of the answer.  A lost answer is
`pending_reconciliation`, as `Classify` has it.

### ApprovalLineage

A lineage is a sequence of card versions; its last element is what
`GetCurrentApprovalCard` returns.  A card carries the recommendation version it
was minted from, its action and parameter version (together the idempotency
key), its expiry and its state.  The lineage advisory lock serializes minting
and confirming, so these transactions are one step each; what the code reads
*before* it takes the lock - the card whose control is checked, the newest
recommendation of the producer's dedup - is a step of its own.  A confirmation
is judged by the instant its request arrived (`httpapi/approval.go`), which
is therefore a local of the request.

Three facts about production decide what is modelled.  No production path moves
a Draft to Ready for Review or Awaiting Confirmation, and the edit-price
re-check adapter is not wired: both operations exist in the service, with tests,
and are modelled as the service has them.  The input resolver of the producer is
dark (it returns `ErrInputsUnavailable`); that it would name a fresh action per
recommendation is an assumption of the model, which the code's comments
suggest and nothing enforces.

### DigestDelivery

A delivery is an (account, business day).  Each statement of
`deliverAccountDay` that touches the database or the relay is a step, and each
write may fail without landing or land and still report an error - in the model
one `Matches` and one `Updated` per guarded `UPDATE` of `queries/notify.sql`.
`job` is River's view of the job, `run` the attempt in the worker's memory;
`lost` is a job whose worker died and that River still takes to be running.
`mailed` is the relay's memory: it holds the message from the moment the relay
accepts it, whether the client learns so or not.

The fan-out recovers a `sending` row only when its claim is 15 minutes old.  The
model has no age: it may recover such a row at any time.  Zero resend is hence
shown to rest on River's uniqueness by arguments alone, and the mutant of
`ZeroResend` is the loss of that uniqueness.  The only production mailer is the
SMTP one, which implements the barrier; the path for a mailer that does not is
left out.


### MarketEvents

A stream is one competing offer of one target.  Its observations are prices at
captured instants, and they come in any order: `Observe` fills any free instant,
also one between two others or behind the cursor, as `Ingest` of the observation
engine does.  A movement is a pair of neighbours with different prices.
`run[p]` is a pass: the cursors it read, the movements it
still has to record, the streams blocked by a failed record and the keys it
materialized.  `Transitions` reads the cursors in one statement and the page
after them in another; `drained`, the high-water mark of the last drain, lives
in the observation source and is shared by all passes of a process, so `Advance`
uses the marks of whichever pass drained last.  `Ingest` is the one transaction
that claims the movement, writes the event, advances the cursor and enqueues the
intent.

`DetectCompetitorPrice` is the one detector production feeds; its ratio is
modelled (`MovementBasisPoints`), because the threshold and the order of two
movements decide which events exist.  A pass holds its movements as a set with
the order in which the code's sorted slice is worked off (`Precedes`): by the
drain query's order of the streams, then by captured instant; the next to record
is the one that precedes all others.  Three variables are history: `overlapped`
(two passes were under way together), `unread` (movements whose threshold could
not be read) and `late` (observations that came behind their stream's cursor, or
behind the mark of the pass under way, and were not drained since).  They name
the three ways we know in which the code skips a movement.  `NothingSkipped`
excludes them, and is about the rows that came in time: a late row is no
neighbour of theirs, because no pass ever sees it.

### UrgentDelivery

`job` holds River's view of a job and the step its worker is at.  `Produce` is
the producing transaction, `Deliver` is `Store.Deliver`, and `GetOutbox`, `Send`,
`MarkDelivered`, `Fail`, `Announce` are the statements of `Dispatch`.  Every
statement may fail without landing, or land and have its answer lost.
`accepted` is the relay's memory.  `cut` is history: a mail job whose last
attempt ended before its outcome was on the row.

### ObservationIngest

One offer.  An ingest is three steps, because its transaction runs at READ
COMMITTED and its statements see different states: `Load` (the existing offer),
`Analyse` (the latest row of every route) and the statement that claims the
dedup key, with the writes that follow it (`Accept` or `Replay`).  Rows of one
route that share an instant are one choice of `LatestRows`, as `DISTINCT ON`
makes it.  A parser is registered, registered with low confidence, or unknown to
the server.  `disordered` is history: an ingest that wrote on an old read, or out
of captured order.

### RouteObserver

`call[w]` is the step of `ObserveTarget` a sweep is at.  Breaker, drift guard
and limiter are memory of the process, which `Restart` forgets; the budget is a
row per window.  Any answer may come with bytes, also one that the fetcher takes
for a transport fault (a server error, an unexpected status, a read cut short);
they are charged before the breaker hears of the outcome, and when that write
fails the call ends and the breaker does not hear of it at all.  The cooldown
elapses and faults leave the rolling window at any time.  Production does not
run the observer at this commit (`main.go` wires only the retirement of
targets); the module models it as `bundle.go` composes it.

### ConnectorSync

`call[c]` is a request to the connector at its next statement, `caps` the
registry of capabilities, `job[r]` the River job of sync run `r` with its worker.
Tokens are the number of the generation the marketplace issued them in, and a
capability row remembers the generation it was probed with.

| action | code |
| --- | --- |
| `Connect`, `Refresh` | the request; a refresh needs a connected row |
| `Exchange`, `Invalidate`, `PersistTokens`, `PersistProbe` | token exchange; the reset of every capability; the tokens; the answers of the probes, row by row |
| `Disconnect`, `ResetCapabilities` | the purge of the tokens and, in a second statement, the reset |
| `SyncCatalog`, `SyncInFlight`, `Enqueue` | the capability gate, the plain read of the latest run, the transaction decided by the partial unique index |
| `Attempt`, `LoadRun`, `Gate`, `LoadToken`, `Fetch` | a worker picks up the job and reads, one by one, run, capabilities, token and page |
| `ApplyPage`, `Complete` | page and cursor in one transaction; `finish` |
| `AttemptFails`, `CallFails` | an error, an expired time limit, a dead worker or process |
| `CatalogChanges` | the seller's catalog grows and shrinks |

Two of the nine capabilities gate the catalog, and the others are reset and
probed in the same way.  `overlapped` is history: two requests that change
credentials were under way at once.

### PricePolicy, Money and Margin

`evaluate` reads no database and no clock but its input, so each of its stages
and helpers is an operator on the settings `s` and the market `m`; `Faulted` is
its error return, `Blockers` and `Proposed` the two parts of its result.  A
market carries the contribution oracle as a function whose domain is the prices
the engine has a number for: the proofs quantify over every such function, TLC
takes those of `Margin`, asked as the pricing endpoint asks it, with the price as
the net proceeds and as the base of every rate.  Amounts are in one unit.

`MaxMantissa` is the range of a mantissa: 2^63 - 1 in the code, 62 in the run,
where a cap then runs past it.

### Guardrails

`write[o]` is a call of `Set` by an Owner.  Its transaction runs at READ
COMMITTED, so that the baseline it reads may be replaced before it writes:

| action | code |
| --- | --- |
| `Validate` | begin, `baselineTx`, the expected version, `validateStricter` |
| `Upsert` | the guarded upsert, which waits for whoever holds the row and then decides by the row's version |
| `Commit` | the audit record and the commit, which makes the row visible |
| `Rollback` | a statement fails, or the process dies |

`trail` is history: the rows that were in force.  A row written before versions
were counted has version 0 and may be looser than the defaults; the first write
to it, like the first write of all, expects version 0.  The comment at
`httpapi/guardrail.go:80`, by which the version of a configured account is at
least 1, is not true of such a row.

`OffersObeyEveryLimit` composes the parts: it is what the guardrail row and the
policy promise together once the settings in force are what the policy is given.


## The runs

Every run is a `.cfg` over the component's MC module.  Deadlock is checked in
the execution runs (the world can always change) and in `guardrails` (a call can
always be made or abandoned); everywhere else the work of an instance may be
finished, so there it is not.  Symmetry is used only where a run checks no
liveness and no constant distinguishes the permuted values.

### What holds

| run | instance | distinct states | shows |
| --- | --- | --- | --- |
| `execution_one_card` | 1 card, the job and an HTTP caller, 3 postures, 1 attempt, 1 crash | 486 thousand | at most one write; a write is authorized; a no-write marker forecloses it; ends are evidenced; blocks are notified; the plane implements `WriteLedger` |
| `execution_liveness` | 1 card, the job and an HTTP caller, 2 postures, 3 attempts, 1 crash | 531 thousand | every confirmed card settles, unless the HTTP caller died holding its claim |
| `lineage_confirm` | 1 lineage, 2 requests, 2 versions, both sides of the expiry | 2.01 million | one authorization per card, of the head, in time; an ended card stays what it is; truthful bulk reports |
| `lineage_bulk` | 2 lineages, 1 bulk request, 2 selection versions, 1 failure | 2.39 million | one report per member of the bound version |
| `lineage_producer` | 2 overlapping passes, 3 card and 2 recommendation versions, 2 evidence versions, 1 failure | 1.31 million | only newer evidence mints, or a pass that another overtook; edits do not fork an action |
| `digest_delivery` | 1 account and day, 2 job slots, 3 attempts, 2 notifications, 4 failures | 14 thousand | at most one mail; neither row nor signal lies; the day reaches a terminal state |
| `market_events` | 2 streams of 3 observations and 1, in any order, 2 passes, pages of 2, 1 failure, one stream's events refused without limit | 604 thousand | no movement that came in time is skipped by a pass alone; every event is announced once; no stream starves behind the other |
| `urgent_delivery` | 1 urgent notification reported repeatedly, 4 job slots, 3 attempts, 2 losses | 90 thousand | a pending row has its job; row and signal are true; repeats are losses; every intent concludes |
| `observation_ingest` | 2 routes, 2 prices, 2 interleaved ingests, 2 observations, window of 2 in 4 instants | 1.46 million | the offer of record is attested; disagreement blocks; only fresh, uncontradicted evidence lifts a block |
| `route_observer` | 2 sweeps, 2 account slots, 1 host slot, 1 retry, 2 windows, 1 restart | 393 thousand | the ceilings hold; a half-open breaker has its probe; every call ends |
| `connector_sync` | 2 requests, 2 credential generations, 2 sync runs, 2 pages, 2 attempts, 1 failure | 1.04 million | no capability is claimed by old credentials, wherever a lone request stops; runs are whole, completed at the end of the catalog only, and one at a time; a run in flight has its job |
| `guardrails` | 2 Owners, 8 requests, a legacy row or none, 3 versions; 100 markets; 2 edited prices | 3 thousand | limits only tighten; no offer breaks any limit that was in force; the first blocker is the first stage that fails |

State counts are after symmetry reduction.

**Why these bounds.**  The hazards of the execution plane are races of two
callers over one action; a third would have to lose a race the second already
lost, because the claim is decided by one unique key.  The HTTP caller retries
without limit, so one attempt of the job beside it leaves every resume of
`Execute` after a crash a successor.  The liveness run has the job and that caller
too, for what a replay beside another call completes, and the two postures
between which a parked intent snoozes; three attempts leave the job a first, a
middle and a last one around the crash.  Two card versions are what it takes
to have a superseded one; three to fork an action by edits.  One tick of the
clock puts a request on either side of the expiry.  Two selection versions are
what it takes to bind a stale one.  In the digest three attempts distinguish the
first, a middle and the last; four failures suffice to lose the worker in the
ambiguous window, then the terminal write, the job's last attempt and the
recovery.  One delivery is enough because jobs touch no row but their own; the
second job slot is there for the duplicate that River's uniqueness forbids.

`MaxInstant` bounds the captured instants by the longest stream, `Sightings` the
prices seen at each, and a sweep expires nothing, the events of the second
instant, or all (`SweepInstants`; no event is of the first).  Three observations
make two movements of one stream, the fewest in which one can pass the other and
one can come in between, and a page of two splits them; 100, 120 and 150 make
two material movements, 100, 120 and 110 one on either side of the threshold.
The second stream needs one observation to be starved: its events have the dedup
key of the first, whose events the database may refuse in every pass, so that
its backlog never shrinks.  In the urgent mail three attempts with two losses
leave the last attempt to be the one that fails, and the four slots hold two
reports of the failure with the mail job of each.  Two observations of two
routes are what a disagreement takes; a window of two instants in four lets the
first expire before the second arrives. Two sweeps are what it takes to hold the
one host slot against each other and to report into a breaker that another sweep
probes; a limit of two requests is spent by one call and its retry, and a limit
of one body makes every second body overshoot.  In the connector two generations
are an old one and a new one, two requests the change and the sync that race it,
two runs the one in flight and the one that must not start, two pages a cursor
to lose.

Two Owners are what a race takes, and three versions make a limit that was
tightened twice; four fields of a request are tightened one at a time and
together, and three requests are ones `Set` must refuse.  The prices around 44
put the movement cap on either side of a whole unit, and the cost models put the
contribution of neighbouring prices below zero, between zero and the floor, and
above it; an empty, a one-price and a wide window, each stage's blocker, and the
errors (a mantissa out of range, no reference price, no commission) all occur.

A movement is compared in unbounded integers by the code (`math/big`), so there
is no overflow to model.  `execution_one_card` has one card; that two versions of
a card under one action write once is the theorem `SingleWrite`, for any number.

**What history excuses.**  Six properties would be false as the comments of the
code state them (see the divergences), and are stated so that the departure has to
be blamed on one cause, kept in a history variable; the run and the theorem show
that nothing else breaks them.  The passes, ingests and requests do overlap in
all of these runs.

- `NewerEvidenceOnly` looks at `behind`: another pass of the lineage minted a
  version between the dedup read and the write of the pass that minted this one.
- `NothingSkipped` excuses passes that overlapped, an unread threshold, and
  observations that came in late.
- `ConflictBlocks` excuses ingests that wrote on an old read or out of captured
  order (`disordered`).
- `RegistryIsCurrent` excuses requests that changed credentials together
  (`overlapped` of `ConnectorSync`).
- `EveryCardSettles` excuses a card whose claim an HTTP caller held when it
  died (`failures.orphaned`).
- `HalfOpenIsProbed` excuses a probe that ended without an observation (`lost`).
  Which of those ends there are, and that the breaker then denies every call, is
  what `ProbeIsDecided` shows below.

An excuse covers what is known to go wrong, not more than that: we do not claim
that every behaviour it admits does go wrong.

**Fairness.**  Of the event producer: a pass that has begun runs to its end or
its deadline and the periodic job begins another (WF per pass).  Of the urgent
mail: River fetches, runs and rescues jobs (WF per job), and nothing is assumed
of the relay.  Of route C: a call runs on (WF), and a sweep that waits for a slot
is served in turn (SF), because Go queues the senders of a channel in order.  Of
the execution plane: a call that has begun takes its next step
(WF per caller) unless it crashes, and River hands every open job to a worker
again and again (SF, because a worker may be busy whenever it looks).  Of the
digest: the fan-out runs hourly (WF of opening and of recovering a row), River
fetches queued jobs, runs their workers and rescues the jobs of dead ones (WF).
Nothing is assumed of the relay: it may refuse for ever, and the day then ends
in `dead_letter`.  Crashes and database errors are bounded by `MaxFailures`,
since no queue outlives an unbounded number of them.

The failures of the urgent mail include what its deadline does: a relay that hangs
until the job's context expires makes `MarkDeadLetter` fail on the same context,
and the model charges that write to `MaxFailures`.  `EveryIntentConcludes` hence
does not cover a relay that hangs for ever; `NeverDropped`, below, is about what is
left then.

`EveryCardSettles` assumes that the posture is on write from some point on; while
it is dark a parked intent snoozes for ever, as it should.

Each property of these runs has a mutant in `PROJECT.json`: a plausible bug of
one modelled definition under which the same run finds the property violated.


## Divergences found

Each row refutes one statement of a comment of the source.  The definitions are
kept in the modules, and no run of `PROJECT.json` lists them: adding one as
INVARIANT or PROPERTY to the `.cfg` in the last column, with the change named
there, makes TLC show the behaviour.

| definition | the statement | how the code departs from it | `.cfg` |
| --- | --- | --- | --- |
| `QuarantineIsInert` | evidence of an unregistered parser must never become or mutate the offer of record (`observation/service.go:444`) | a capture that says the offer is gone is handled before that guard and closes the offer | `ObservationIngest` |
| `TerminalRecordAdvancedCard` | a terminal record always advanced its card in the same transaction (`execution/service.go:306`) | a replay heals the card to Pending Reconciliation while the claim's winner is writing; the winner then settles the record, finds the card moved, and commits the record alone | `ExecutionOneCard` |
| `EveryCardSettles` without `failures.orphaned` | at-least-once delivery makes the effect exactly-once (`jobs/execute_approved.go:62`) | the job completes on the pending record of an HTTP caller that then dies, and the card stays in Executing | `ExecutionLiveness` |
| `ModesAreExclusive` | write and recommend-only records are mutually exclusive per action (`execution/service.go:748`) | two calls resolve the enablement on either side of a change; the recommend-only insert looks at neither the card nor the other table | `ExecutionOneCard` |
| `ReconcileRefusesSettled` | `ReconcilePending` refuses any action that is not pending (`reconcile/reconcile.go:126`) | its check precedes its transaction; a settlement in between is tolerated and the card follows the reconciler | `ExecutionOneCard` |
| `NewerEvidenceOnlyEver` | only strictly newer evidence mints a version (`recommendation/producer.go:206`) | two overlapping passes both read before either writes; the write does not compare again | `LineageProducer` |
| `OneAuthorizationPerMember` | re-confirming produces at most one authorization per member (`recommendation/bulk_confirm.go:12`) | a member resolves to the newest card of its recommendation, which may be a chat Draft opened since | `LineageConfirm` |
| `InvalidatedNeverExecutes` | a member reported invalidated never executes | its newest card is a Draft, an older one is approved and about to execute | the same |
| `CoversTheDay` | a closed day is complete (`notify/digest.go:298`) | `created_at` is the start of the inserting transaction, which may commit after the day was composed | `DigestDelivery` |
| `MembershipIsMailed` | a digest retry covers the same membership | the retry renders afresh, the recorded membership is the first attempt's | `DigestDelivery` |
| `NothingSkippedEver` | a material transition can never be skipped past a failed or retried predecessor (`event/obssource.go`) | a movement whose threshold could not be read is passed over without blocking its stream; overlapping passes advance by each other's marks; an observation captured before the cursor and ingested after it is never drained, nor are the movements it makes (`observation.sql:199`) | `MarketEvents` |
| `ConflictBlocksEver` | routes disagree, conflicted, block (`observation/service.go`) | two ingests of different routes read before either commits, and neither sees the disagreement; or a capture arrives late | `ObservationIngest` |
| `NeverDropped` | an urgent category is never silently dropped (`notify/urgent.go:308`) | a last attempt that dies, or whose read of the row or mark fails, leaves a pending row that no job and no sweep looks at again | `UrgentDelivery` |
| `ProbeIsDecided` | only the first probe is admitted, further calls wait for its verdict (`routec/breaker.go:124`) | a probe that finds the budget spent, is cancelled or cannot record its bytes never reports one; the breaker denies until the process restarts | `RouteObserver` |
| `RegistryIsCurrentEver`, `ReadersSeeOneGeneration` | no reader can combine a previous generation's Supported with the new credentials (`connector/service.go:162`) | of two overlapping connects the older persists its probes after the newer's tokens; and a worker reads the capabilities and the token in two statements | `ConnectorSync` |
| `DisconnectSevers`, `DisconnectedIsUnknown` | disconnect severs the connection, so nothing dependent can run afterwards (`connector/service.go:237`) | a refresh under way stores its tokens afterwards; late probes, or a failure between the two statements, leave capabilities Supported | `ConnectorSync` |
| `EveryRunCompletes` | an interrupted import resumes from exactly where it stopped (`catalog/sync.go:98`) | an attempt that ends between the last page's commit and the completion leaves the cursor behind the last page; every retry asks for a page that does not exist, and when the job is discarded the run stays in flight and blocks all later ones | `ConnectorSync` with `FairSpec`, without symmetry, one request, one generation, one run |
| `FirstBlockerIsFirstFailureEver` | floor feasibility is a property of the max-contribution feasible price, the top of the window, alone (`policy/evaluate.go:193`) | two rates that each round half-even in one step make the contribution fall as the price rises; a floor that only a lower feasible price meets is reported as met by none, and no price is proposed | `Guardrails` |
| `PausedExtractsNothing` | no new value is extracted until recovery (`routec/drift.go`) | a call past the check ingests although another paused extraction meanwhile | `RouteObserver` |

None of those of the execution plane makes it write one action's price twice or
without authorization: these properties hold in the same models, with the same
interleavings.  What `TerminalRecordAdvancedCard` costs is a settled action whose
card is Pending, with neither terminal audit nor outcome window; the reconciler
cannot close it, because it refuses a settled record.


## The proofs

The theorems hold for any number of cards, actions, callers, lineages, passes,
selection versions, deliveries, jobs, notifications, streams, event passes,
routes, ingests, sweeps, slots, requests, sync runs, pages, Owners and settings,
for every market and contribution model, and for every value of the bounds.

| theorem | statement | assumptions it uses |
| --- | --- | --- |
| `ActionExecutionProofs!Invariant` | `Spec => []IInv` | those of `ActionExecution` |
| `TypeCorrect`, `SingleWrite`, `AuthorizedWrite`, `MarkerIsFinal` | `TypeOK`, `AtMostOneWrite`, `WriteIsAuthorized`, `MarkerForeclosesWrite` always hold | from `Invariant` |
| `SettlesOnce` | every step satisfies `RecordSettlesOnce` (which no run lists) | from `Invariant` |
| `LedgerImplemented` | the plane implements `WriteLedger`: `ImplementsLedger` | from `Invariant` |
| `EvidenceHolds` | `OutcomeIsEvidenced` always holds | from `Invariant` |
| `ExecutionIsCardLife` | the plane implements the execution side of `CardLife` | from `Invariant` |
| `VoidedCardsStay` | every step satisfies `EndIsFinal` of `CardLife`, seen from the execution plane | from `ExecutionIsCardLife`'s steps |
| `ApprovalLineageProofs!LineageInvariant` | `Spec => []LineageInv` | `LineageBounds` |
| its `LineageTypeCorrect`, `ApprovedOnce`, `EditsDoNotFork` | `TypeOK`, `AuthorizedOnce`, `EditsAreLinear` always hold | from `LineageInvariant` |
| its `OnlyHeadsAreApproved`, `ReportsAreTrue`, `EveryMemberIsAnswered` | every step satisfies `ApprovesOnlyHead`, `ReportIsTrue`, `EveryMemberIsReported` | from `LineageInvariant` |
| its `LineageIsCardLife` | the plane implements `CardLife` | from `LineageInvariant` |
| its `EndedCardsStay` | every step satisfies `EndIsFinal` | from `LineageInvariant` |
| its `OnlyNewerEvidenceMints` | `NewerEvidenceOnly` always holds | from `LineageInvariant` |
| `DigestDeliveryProofs!Invariant` | `Spec => []IInv` | `DigestBounds` |
| its `TypeCorrect`, `NeverResent`, `Truthful`, `SignalsPersist` | `TypeOK`, `ZeroResend`, `RecordIsTruthful`, `SignalIsPersisted` always hold | from `Invariant` |
| its `DigestKeepsContract` | the digest implements `OnceSpec` of `MailContract` | from `Invariant` |
| `UrgentDeliveryProofs!UrgentTypeCorrect`, `OneDispatcher` | `TypeOK`, `OneEmailEach` (which no run lists) always hold | `UrgentBounds` |
| its `EveryFailureIsDriven`, `RowTellsTheTruth`, `MailIsNotRepeated` | `PendingIsDriven`, `RowIsTruthful`, `DuplicatesAreLosses` always hold | `UrgentBounds` |
| its `UrgentKeepsContract` | the outbox and its dispatcher implement `Spec` of `MailContract` | `UrgentBounds` |
| `MarketProofs!ObservationInvariant`, `ObservationTypeCorrect` | `Spec => []ObservationInv`, `TypeOK` always holds | `ObservationBounds` |
| its `OfferRestsOnEvidence`, `DisagreementBlocks` | `OfferIsEvidenced`, `ConflictBlocks` always hold | from `ObservationInvariant` |
| its `OnlyEvidenceLiftsABlock` | every step satisfies `BlockIsLiftedByEvidence` | from `ObservationInvariant` |
| its `EventInvariant`, `EventsStayTyped` | `EventSpec => []EventInv`, `EventTypeOK` always holds | `EventBounds` |
| its `NoMovementIsSkipped`, `EventsAreAnnouncedOnce` | `NothingSkipped`, `EveryEventIsAnnouncedOnce` always hold | from `EventInvariant` |
| `RouteObserverProofs!RouteTypeCorrect`, `SlotsAreExact` | `TypeOK`, `SlotsAreHeld` (which no run lists) always hold | `RouteBounds` |
| its `BudgetIsKept`, `ProbeIsKnown` | `BudgetHolds`, `HalfOpenIsProbed` always hold | `RouteBounds` |
| `ConnectorSyncProofs!TypeCorrect` | `TypeOK` always holds | `SyncBounds` |
| its `WholeRuns`, `DrivenRuns` | `RunsAreWhole`, `RunInFlightIsDriven` always hold | `SyncBounds` |
| its `CurrentRegistry` | `RegistryIsCurrent` always holds | `SyncBounds` |
| `GuardrailsProofs!Invariant` and its `TypeCorrect` | `Spec => []IInv`, `TypeOK` always holds | `GuardrailInputs` |
| its `TightenOnly`, `OffersObey`, `FirstFailureReported` | `LimitsOnlyTighten`, `OffersObeyEveryLimit`, `FirstBlockerIsFirstFailure` always hold | from `Invariant` |
| its `ProposalObeys`, `ReportsFirstFailure` | what the policy proposes and reports, for any settings, versioned or not | `GuardrailInputs` |

The type invariants of the execution plane, the approval plane, the digest and
the connector are proved and not listed in a run again.

The assumptions are on constants only: `CallersAssumption` (workers are
callers), `ActionOfAssumption` (each card is bound to an action),
`ModesAssumption`, `BoundsAssumption`, `LineageBounds`, `DigestBounds`,
`UrgentBounds` (urgent keys are keys), `ObservationBounds` (there is a route, and
no price is not a price), `EventBounds` (a page holds something, a stream has one
place in the drain's order, prices are naturals seen at instants within the
bound), `RouteBounds` (finitely many sweeps, at least one slot of each kind),
`SyncBounds`, and `GuardrailInputs` (settings and amounts are
integers, a legacy row has version 0).  No theorem has a premise about the
behaviour.

**Execution.**  `AtMostOneWrite` is not inductive: a state in which two callers
stand before the write, or one stands there over another card's record,
satisfies it and a step breaks it.  The invariant adds who may stand there.
`SenderOwnsClaim`: a caller before the write holds the record of its card's
action, alone, with nothing written yet.  `WrittenOwnsRow`: a written card owns a
record that is not a no-write marker.  Records are never deleted or re-bound
(`RowStable`), so the record that a writer needs cannot come into being twice,
and two written cards of one action would own the same record.
`ResultOwnsRow` and `ReconHasRow` say the same of cards that ended accepted or
rejected and of reconciliations between their read and their transaction;
`RowsAreBound` ties a record to a card of its action.  `StartedIsAudited` is for
`AuthorizedWrite`: whoever may still write works on a card at or past Executing,
which no step leads back from, and whose start was audited when it got there.

`LedgerImplemented` is a step simulation under that invariant.  The mapping reads
the ledger of an action off its record, and "sent" off the writes of its cards.
A claim, a marker, a result and a reconciliation are the four steps that change a
record, and each changes that of one action (`LedgerMoves`); a write needs
`SenderOwnsClaim` to be the ledger's `Send`; everything else stutters.
`OutcomeIsEvidenced` needs two facts about calls between transactions:
`HealHasRow`, a call that heals a card found the record of its action, and
`AdoptedIsSettled`, a loser of the claim that adopted a settled result read it from
a record that is settled still.  Without the second, such a call could open the
outcome window of an action that nothing settled.

**Approval plane.**  `AuthorizedOnce` says that the two pieces of evidence of an
approval are there together and once; what keeps it is `Approvals`, which ties them
to the state: a card with them is authorized still or was voided, and no operation
leads it from there back to Awaiting Confirmation (a recalculation mints another
card), so no second confirmation can find it approvable.  `EditsAreLinear` is about
several edits of one action.  Each mints the parameter version after that of the
card it was asked for, which may be a superseded one; the versions of an
action are contiguous from 1 (`RowsAreBound`), hence the key of every version up
to a card's is taken, and the edit of a superseded version mints nothing.
`HeadsExist` makes the head a member resolves to defined: versions are minted at
the end of a lineage, so the newest card of a recommendation is the greatest
index.  `RequestsAreSound` holds the card of a bulk request to the member it
resolved from across the read, the decision and the re-read after a refusal;
what `ReportIsTrue` says is then read off the transaction that decides.
`MembersAreReported` is the bookkeeping behind `EveryMemberIsReported`: a member of
the bound version is still to do, under way or reported, never two of them.
`OnlyNewerEvidenceMints` needs that the comparison of the dedup read still holds
at the write, or that the pass knows better (`PassIsNewer`): only another pass of
that lineage mints versions of its recommendation in between, and that one marks
every pass it overtakes.

**The two planes and a card.**  Each plane is modelled alone, with the other one
as its environment: `ApprovalLineage` lets an authorized card walk anywhere
along the diagram, `ActionExecution` starts from approved cards.  `CardLife` is
what makes these two views one: the approval plane alone mints and decides, the
execution plane alone moves a card from its approval on, and each moves one card
by one edge - but for an identity reopen, which takes an approved card over two.
`LineageIsCardLife` and `ExecutionIsCardLife` prove both modules against it, so
what the approval plane assumes of execution is what execution does.  In the
first a card is an element of its lineage's sequence, minted when the sequence
grows and never removed; the second needs `OnceApproved` beside its invariant,
since an expiry pass may still remember a state its card has left and acts on
what it finds.  `EndIsFinal` then holds in both: the edge from Invalidated back
to Draft is in the code's diagram, and no operation of the service takes it.

**Digest.**  `ZeroResend` needs to know that no worker is before or inside the
ambiguous window when the relay already holds the mail.  `StepFitsRow` relates a
worker's step to its row and to the relay; it survives the steps of other
workers because there are none: `OneDriver` says that at most one job drives a
delivery.  `RecordIsTruthful` is what makes `pending` and unmarked `sending` rows
safe to send for, `AbsentIsUntouched` starts the argument, and
`AttemptsAreCounted`, `DayIsBounded` and `ItemsAreCounted` keep the types.

**Urgent mail.**  Each conjunct of `RowIsSound` says of one key what the row, the
relay and the job know of each other.  It survives the steps of other jobs because
of `OneEmailEach`: the row and its mail job are inserted in the transaction that
first stores the notification, a report of the same failure finds the key taken,
and a dispatcher hence has no rival for its row.  `EmailStage` is what a dispatcher
may assume at each statement: the row is pending until it writes it, the relay has
the message before it marks the row delivered, the row is dead before that is
announced, and a job that ends for good leaves a settled row unless its last
attempt was cut short - which is where `PendingIsDriven` would be lost.
`DuplicatesAreLosses` counts: an accepted message is either followed by the mark,
or paid for by a failure, so of a pending row nobody is marking the relay has no
more messages than there were failures.

**The mail contract.**  `MailContract` knows a message's outcome, how many the relay
accepted and what monitoring was told, and nothing of jobs, attempts or
failures.  Its `Settle` says of every terminal write at once what the channels'
invariants say of states: an outcome is final, and `delivered` needs a mail.  The
digest implements the stricter `OnceSpec` - the second mail of a day is no step
of it, nor is giving up on a mailed one - because `RecordIsTruthful` makes a
pending row an unmailed one and `StepFitsRow` a worker in the window the first
there.  The urgent mail implements `Spec`: the dispatcher that marks or
dead-letters a row finds it pending (`EmailStage`), whatever attempts came
before.  That the write of a digest's outcome may land unannounced, and that an
urgent dead letter is announced in a step after it, are steps of the contract,
not exceptions to it.

**Observation.**  `OfferIsEvidenced` needs `Corroborated`: the row of another route
that an ingest found to agree is still in evidence when it writes, because
evidence is append-only, whatever else is committed in between.  `ConflictBlocks`
is the delicate one.  `ConflictsAreSeen`: an ingest that no other overtook has seen
every newest row that disagrees with its capture.  Rows leave the window as time
passes, and a route's newest row leaves it last (`Newest`, and `RoutesAreOrdered`
for captures of one instant): what remains of the newest rows was among the
newest before, so time removes disagreements and never makes one.  A write that
is in order makes its capture the newest row of its route, so a disagreement
among the newest rows is one of it with another route's, which was seen, and
`DeriveQuality` then reads conflicted before it can read anything current.
Proving it fixed `DeriveQuality` in the model: its rules are an ordered chain, and
a CASE with overlapping guards does not promise their order.

**Events.**  `NothingSkipped` speaks of passes that did not overlap, so the
argument is about a pass that is alone (`LonePass`).  Nobody moves a cursor
between the statement that reads the cursors and the one that reads the page
(`AnchorIsCursor`), the drain lists every movement of the page
(`DrainCoversPage`), and from then on each movement of the page was concluded,
is still to be recorded, or belongs to a stream that a failed record blocked
(`PageIsCovered`).  Those of a stream are recorded oldest first
(`HeadIsOldest`), so recording one advances its cursor past nothing that is
still to come, and the marks a pass advances to at its end are those of its own
drain.  Observations arrive meanwhile, at any free instant.  One that comes
behind the cursor, or behind the mark of a pass under way, is late, and no
neighbour of the rows that came in time: their movements up to there are the
ones that were there before (`ObserveKeepsAdjacent`, `ObserveKeepsLonePass`).
One that comes ahead of both is nothing a pass has consumed, and the drain that
meets it lists the movements it made. `EveryEventIsAnnouncedOnce` counts the
intents that opened events of a key against the number of the newest: the ledger
claims a movement once (`IntentsAreClaimed`), and `OpeningCounts` follows both
sides through the one transaction that writes them.  Were the movements of a
pass a sequence, as the code's slice is, these facts would rest on what sorting
and flattening return for every input, which takes induction over data; a set
with an order holds the same movements and records them in the same order.

**Route C.**  `BudgetHolds` is about requests sent, which no counter of the code
holds.  `WindowIsFunded` compares them with the reservations: what was sent in the
window and what is about to be is covered by what was reserved in it, plus what
was carried across the boundary by calls that had reserved before; and a window
to come is empty.  Between reservation and request a call waits for its slots, so the count
of `Unsent` calls is part of the inequality, and every step needs the effect of
one call's move on it.  The bytes are counted the same way: every call between
its reservation and the record of its body may overshoot the ceiling once
(`Unrecorded`), whether the body came with an answer or with a fault, and whether or
not that record is written.  `SlotsAreHeld` is the same kind of fact about the limiter:
its counters equal the number of calls that have yet to give a slot back.  Every
exit - denial, cancellation, an exhausted retry, a drifted page - is a step that
changes both or neither, and it is what keeps the counters in their types.
`FreshCalls` ties the attempt counter to where a call stands, since a retry keeps
the slots a first attempt has yet to take.  `HalfOpenIsProbed` is inductive beside them.

**Connector.**  `TypeOK` needs `JobsFit`: a worker is only at work on a run that
exists, a page is only applied within the catalog, and a queued job has
attempts left - without it a cursor or a counter would leave its range.
`RunsAreWhole` says of every run that its cursor is behind the pages it applied,
and of a completed one that those reach the end of the catalog it was told of.  A
page and the cursor behind it are one transaction, and the index lets a run begin
only when no other is in flight; that a run is completed at the end only needs
`Underway`: a worker about to complete its run stands where the total of its last
answer says that nothing is left.
`RunInFlightIsDriven` is too: an attempt that ends is queued again or was the
last.  `RegistryIsCurrent` is not, and its invariant says what the registry holds
while a request is under way.  `OneChange`: unless requests overlapped, one at
most is changing credentials.  `CallsAgree`: before it stores its tokens nothing
is Supported, and while it probes the connection has its tokens.  A request that
stops anywhere hence leaves either the old tokens with their probes, or nothing
Supported, or the new tokens with some of theirs.

Each proof that a step preserves a conjunct has one step per action that can
disturb it; lemmas first say which actions touch which variable.

**Guardrails.**  `LimitsOnlyTighten` is not inductive: a call that was checked
against an old baseline satisfies it, and its commit breaks it.  The invariant says
what a version is for.  `WriteInv`: what a call is about to write is no looser
than every row up to the version it expects - which needs that a call is only
checked when it expects the version of the row it is checked against, so the
comparison before the check is not made redundant by the guard of the upsert, as
the mutant of the run shows - and a call that holds the row found no other version
there.  `TrailInv`: versions only grow, so every row of the trail is one of
those.  For `OffersObey` the lemmas of the arithmetic say that rounding toward
zero keeps the window within the exact cap, and never smaller (`WindowIsFeasible`),
and `LooserToo` that a price that obeys limits obeys looser ones.
`ReportsFirstFailure` compares the engine's window and its one look at the top of
it with the stages' own conditions over all feasible prices (`FloorIsExact`).

**Only model-checked.**  Liveness under fairness is out of the prover's reach:
`EveryCardSettles`, `EveryDeliveryFinishes`, `EveryStreamIsDrained`,
`EveryIntentConcludes` and `EveryCallEnds` stay with TLC.  Every invariant and
every action property that a run lists is stated by a theorem.  The refinements of
`CardLife` and `MailContract` are proved and in no run.


## What is not modelled

`PROJECT.json` ("components") has a line for every part.  In short:

- *Of the modelled packages*: which gate blocked and in which order; rendering,
  observers and metrics; the attempts counter and reasons of a delivery row; the
  operator's redrive of a dead letter and the deletion of an account
  (`runbooks/`); the tenant's ownership of a selection lineage; the context
  binding of a preview; `Card.Recalculate` and `Card.Revalidate`, which no
  service calls; `GenerateForAccount`, which production does not call.
- *Of the event producer*: the detectors production does not feed.
- *Of observation*: several offers at once, which share nothing; the fields of a
  capture that no verdict reads; `SweepExpired`, which has no caller; the
  enrolment of targets.
- *Of route C*: the selection of targets, the kill switch a sweep reads once at
  its start, the parsers, and the retirement of targets.
- *Of the connector and the catalog*: the seven capabilities that gate nothing
  here; the ownership guards; the products and variants a page upserts and the
  counting of drift; the initial import, which nothing in production starts.
- *Of River*: its own scheduling, beyond attempts, snoozes, uniqueness and rescue.
- *Of pricing*: units other than the policy's and their rejection; the rounding
  rules no price is computed with; settlement reconciliation (`margin`); the
  defaults `NewConfig` fills in; `Simulate`, which labels a result.
- *Of the guardrails*: the tenant guard in front of `Set`; reading them.
- *State machines still to come*: identity, the closing of outcome windows,
  pairing (two claims of one code, a claim against a revocation).
- *Pure code still to come*: effective-dated costs.
- *Left out for good*: authentication (cryptography, a constant table), codecs
  and configuration, logging and metrics, generated code, the LLM plane and the
  web application (clients without state of the core), locale, contracts,
  deployment.  About 145 of the 198 thousand lines of the implementation are
  generated clients and gateways, and most of `internal/db` is generated from the
  queries that are modelled: the lines the map names are few beside them.


## The plan

Done, in the order of importance: the execution plane with its ledger; the
approval plane; the digest; the event producer; the urgent mail; the ingest of
observations; route C; connector and catalog sync; the pricing policy and the
guardrails; the proofs of all of these; the contracts between the two planes of a
card and of the two mail channels.

Next:

1. `Outcome`: closing a window once, by two closers.
2. `Identity`: confirm and reopen against the approval plane.  Its expiry pass
   lists Drafts and reviewed cards too, which no later step of it can invalidate,
   and it reads the mapping's old state before the guarded update.
3. `Pairing`: two claims of one code, a claim against a revocation.
4. Effective-dated costs: which version is in force, and readiness.
5. The edited card of an action that was already executed: `UNIQUE(action_id)`
   against the idempotency key per parameter version.  Two versions of a card
   under one action write once (`SingleWrite`), but the job of the second
   completes as a replay and leaves its card Approved: `ExecutionLiveness` with
   two cards shows it.

Passing runs for the new modules take precedence over further violation runs.
