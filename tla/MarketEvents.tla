----------------------------- MODULE MarketEvents -----------------------------
(***************************************************************************)
(* The market-event producer of services/core/internal/event: competitor   *)
(* observations are drained forward from a durable cursor per stream,      *)
(* paired into price movements, and each material movement is ingested     *)
(* with its event, its notification intent and its cursor in one           *)
(* transaction.                                                            *)
(*                                                                         *)
(* A stream is one competing offer of one observation target.  The         *)
(* account's own offer is no stream: the drain excludes it, and a pass     *)
(* over an account whose seller identity is unresolved yields nothing.     *)
(* Captured instants are positions, comparable across streams.  Ingest     *)
(* takes a capture whenever it comes: an observation fills any free        *)
(* instant, also one the stream's cursor has passed.                       *)
(***************************************************************************)
EXTENDS Integers, Sequences, FiniteSets

CONSTANTS
    Order,          \* the streams in the order of the drain query
    DedupKey(_),    \* the dedup identity of a stream's events: variant and offer
    Passes,         \* River jobs that may run a pass, of one process
    Prices,         \* raw price tokens
    MoveBp,         \* the materiality threshold in basis points
    PageLimit,      \* observations drained per stream and pass
    Refused,        \* streams whose events may be refused any number of times
    Sightings(_),   \* bound: the instants and prices a stream may be observed at
    MaxInstant,     \* bound: captured instants
    SweepInstants,  \* bound: the instants up to which a sweep may expire events
    MaxFailures     \* bound: database failures and cut-off passes

Streams == {Order[i] : i \in DOMAIN Order}
Keys == {DedupKey(s) : s \in Streams}

ASSUME EventBounds ==
    /\ Prices \subseteq Nat /\ MoveBp \in Int
    /\ PageLimit \in Nat \ {0} /\ MaxFailures \in Nat
    /\ MaxInstant \in Nat /\ SweepInstants \subseteq 0 .. MaxInstant
    /\ \A s \in Streams : Sightings(s) \subseteq (1 .. MaxInstant) \X Prices
    /\ Order \in Seq(Streams)
    /\ \A i, j \in DOMAIN Order : Order[i] = Order[j] => i = j

VARIABLES
    observed,   \* observations: the value a stream had at each captured instant
    cursor,     \* observation_consumer_cursors: the last consumed position
    event,      \* market_events: the newest event of each key
    ledger,     \* event_input_transitions
    intents,    \* the notification intents, by the movement that opened the event
    swept,      \* the instant up to which events have expired
    drained,    \* ObservationSource.drained, shared by the passes of a process
    run,        \* each pass
    unread,     \* history: movements whose threshold could not be read
    late,       \* history: observations that came behind a cursor or a mark
    overlapped, \* history: two passes were under way together
    failures

eventVars == <<observed, cursor, event, ledger, intents, swept, drained, run,
          unread, late, overlapped, failures>>

-----------------------------------------------------------------------------

Positions == 0 .. MaxInstant
Times == 1 .. MaxInstant
Absent == -1

\* The observations of a stream.
Held(s) == {i \in Times : observed[s][i] # Absent}

\* A pair of adjacent observations of a stream whose values differ.
Transitions == [stream : Streams, prev : Times, curr : Times]

LiveStates == {"open", "updated"}
NoEvent == [state |-> "none", at |-> 0, number |-> 0]
Live(k) == event[k].state \in LiveStates

IdleRun == [at |-> "idle", anchor |-> [s \in Streams |-> 0], todo |-> {},
            blocked |-> {}, materialized |-> {}]

EventTypeOK ==
    /\ observed \in [Streams -> [Times -> Prices \cup {Absent}]]
    /\ cursor \in [Streams -> Positions]
    /\ event \in [Keys -> [state : LiveStates \cup {"none", "resolved", "expired"},
                           at : Positions, number : Nat]]
    /\ ledger \subseteq Transitions
    /\ intents \in Seq(Transitions)
    /\ swept \in Positions
    /\ drained \in [Streams -> Positions]
    /\ run \in [Passes -> [at : {"idle", "cursors", "drain", "record", "advance"},
                           anchor : [Streams -> Positions], todo : SUBSET Transitions,
                           blocked : SUBSET Streams, materialized : SUBSET Keys]]
    /\ unread \subseteq Transitions
    /\ late \in [Streams -> SUBSET Times]
    /\ overlapped \in BOOLEAN
    /\ failures \in 0 .. MaxFailures

EventInit ==
    /\ observed = [s \in Streams |-> [i \in Times |-> Absent]]
    /\ cursor = [s \in Streams |-> 0]
    /\ event = [k \in Keys |-> NoEvent]
    /\ ledger = {} /\ intents = <<>> /\ swept = 0
    /\ drained = [s \in Streams |-> 0]
    /\ run = [p \in Passes |-> IdleRun]
    /\ unread = {} /\ late = [s \in Streams |-> {}]
    /\ overlapped = FALSE /\ failures = 0

Fails == failures < MaxFailures /\ failures' = failures + 1

Later(i, j) == IF i > j THEN i ELSE j

-----------------------------------------------------------------------------
(***************************************************************************)
(* Detection: DetectCompetitorPrice.                                       *)
(***************************************************************************)

Difference(prev, curr) == IF curr < prev THEN prev - curr ELSE curr - prev

\* movementBasisPoints, in unbounded integers; without a positive price before
\* the movement there is no ratio and the detector does not fire.
MovementBasisPoints(prev, curr) == (Difference(prev, curr) * 10000) \div prev

Material(tr) ==
    LET prev == observed[tr.stream][tr.prev]
        curr == observed[tr.stream][tr.curr]
    IN  prev > 0 /\ MoveBp > 0 /\ MovementBasisPoints(prev, curr) >= MoveBp

-----------------------------------------------------------------------------
(***************************************************************************)
(* A pass.                                                                 *)
(***************************************************************************)

\* No drain looks behind a cursor, and the pass whose list is drained moves it
\* to its mark.
Behind(s, i) ==
    i <= cursor[s] \/ \E p \in Passes : run[p].at = "record" /\ i <= drained[s]

Observe(s, i, v) ==
    /\ <<i, v>> \in Sightings(s) /\ i \notin Held(s)
    /\ observed' = [observed EXCEPT ![s][i] = v]
    /\ late' = IF Behind(s, i) THEN [late EXCEPT ![s] = @ \cup {i}] ELSE late
    /\ UNCHANGED <<cursor, event, ledger, intents, swept, drained, run, unread,
                   overlapped, failures>>

Expired(now) ==
    [k \in Keys |-> IF Live(k) /\ event[k].at <= now
                    THEN [event[k] EXCEPT !.state = "expired"] ELSE event[k]]

\* RunOnce begins with the expiry sweep; when it fails the pass goes on.  The
\* clock is the instant whose events are a TTL old.
Begin(p) ==
    /\ run[p].at = "idle"
    /\ run' = [run EXCEPT ![p] = [IdleRun EXCEPT !.at = "cursors"]]
    /\ overlapped' = (overlapped \/ \E q \in Passes : run[q].at # "idle")
    /\ \/ \E now \in SweepInstants :
              now >= swept /\ swept' = now /\ event' = Expired(now) /\ UNCHANGED failures
       \/ Fails /\ UNCHANGED <<event, swept>>
    /\ UNCHANGED <<observed, cursor, ledger, intents, drained, unread, late>>

\* Transitions: the cursors are read in one statement ...
ReadCursors(p) ==
    /\ run[p].at = "cursors"
    /\ run' = [run EXCEPT ![p].at = "drain", ![p].anchor = cursor]
    /\ UNCHANGED <<observed, cursor, event, ledger, intents, swept, drained,
                   unread, late, overlapped, failures>>

\* ... and the observations after them in another, which looks at the cursors
\* for itself.
Unconsumed(s) == {i \in Held(s) : i > cursor[s]}

\* Mutant: one page for all the streams, in the order of the query.
Preceding(s, i) ==
    {u \in Streams \X Times :
        /\ u[2] \in Unconsumed(u[1])
        /\ \/ u[1] = s /\ u[2] < i
           \/ \E m, n \in DOMAIN Order : m < n /\ u[1] = Order[m] /\ s = Order[n]}
SharedPage(s) == {i \in Unconsumed(s) : Cardinality(Preceding(s, i)) < PageLimit}

\* The page of a stream: its oldest, so many and no more.
Page(s) ==
    {i \in Unconsumed(s) : Cardinality({j \in Unconsumed(s) : j < i}) < PageLimit}

\* Each observation of a page is paired with the one before it, the first with
\* the anchor; the first of a stream never consumed has none.
Follows(s, anchor, prev, curr) ==
    LET earlier == {i \in Page(s) : i < curr}
    IN  IF earlier = {} THEN prev = anchor
        ELSE prev \in earlier /\ \A i \in earlier : i <= prev

Movements(s, anchor) ==
    {tr \in [stream : {s}, prev : Times, curr : Page(s)] :
        /\ Follows(s, anchor, tr.prev, tr.curr)
        /\ observed[s][tr.prev] # observed[s][tr.curr]}

\* The newest observation drained of a stream, 0 if there was none.
IsHighWater(s, mark) ==
    IF Page(s) = {} THEN mark = 0 ELSE mark \in Page(s) /\ \A i \in Page(s) : i <= mark

Drain(p) ==
    /\ run[p].at = "drain"
    /\ drained' \in {marks \in [Streams -> Positions] :
                        \A s \in Streams : IsHighWater(s, marks[s])}
    /\ run' = [run EXCEPT
                 ![p].at = "record",
                 ![p].todo = UNION {Movements(s, run[p].anchor[s]) : s \in Streams}]
    /\ late' = [s \in Streams |-> late[s] \ Page(s)]
    /\ UNCHANGED <<observed, cursor, event, ledger, intents, swept, unread,
                   overlapped, failures>>

\* The movements are concluded stream by stream, each stream's oldest first.
Precedes(t, u) ==
    \/ t.stream = u.stream /\ t.curr < u.curr
    \/ \E i, j \in DOMAIN Order : i < j /\ t.stream = Order[i] /\ u.stream = Order[j]

IsHead(p, tr) ==
    /\ run[p].at = "record" /\ tr \in run[p].todo
    /\ \A u \in run[p].todo \ {tr} : Precedes(tr, u)

\* A movement is concluded; with none left the cursors are advanced.
Proceed(p, tr, r) == run' = [run EXCEPT ![p] = [r EXCEPT !.todo = @ \ {tr}]]

\* The threshold in force could not be read.
ThresholdUnread(p, tr) ==
    /\ IsHead(p, tr) /\ Fails
    /\ unread' = unread \cup {tr}
    /\ Proceed(p, tr, run[p])
    /\ UNCHANGED <<observed, cursor, event, ledger, intents, swept, drained, late,
                   overlapped>>

\* Mutant: the lifecycle gets a state of its own for a clearance.
Cleared(k) == [event EXCEPT ![k].state = IF Live(k) THEN "cleared" ELSE @]

\* ResolveOpen: an immaterial movement clears the key's live event, unless
\* this pass recorded a material one for the key.
Resolved(k) == [event EXCEPT ![k].state = IF Live(k) THEN "resolved" ELSE @]

Clear(p, tr) ==
    LET k == DedupKey(tr.stream)
    IN  /\ IsHead(p, tr) /\ ~Material(tr)
        /\ \/ /\ event' = IF k \in run[p].materialized THEN event ELSE Resolved(k)
              /\ UNCHANGED failures
           \/ k \notin run[p].materialized /\ Fails /\ UNCHANGED event
        /\ Proceed(p, tr, run[p])
        /\ UNCHANGED <<observed, cursor, ledger, intents, swept, drained, unread,
                       late, overlapped>>

\* Mutant: the movements and the mark behind a failed one go ahead.
NeverBlocked(p, s) == FALSE

\* A movement of a stream whose earlier one failed to commit is left to the
\* next pass.
Blocked(p, s) == s \in run[p].blocked

Defer(p, tr) ==
    /\ IsHead(p, tr) /\ Material(tr) /\ Blocked(p, tr.stream)
    /\ Proceed(p, tr, run[p])
    /\ UNCHANGED <<observed, cursor, event, ledger, intents, swept, drained,
                   unread, late, overlapped, failures>>

\* RecordEvent: one upsert that opens an event or refreshes the live one,
\* unless the evidence is older than the event's.
Newer(k, at) == event[k].at <= at
Opens(tr) == ~Live(DedupKey(tr.stream))
Recorded(tr) ==
    LET k == DedupKey(tr.stream)
    IN  CASE Opens(tr) -> [event EXCEPT ![k] = [state |-> "open", at |-> tr.curr,
                                                number |-> @.number + 1]]
          [] Live(k) /\ Newer(k, tr.curr) ->
                [event EXCEPT ![k].state = "updated", ![k].at = tr.curr]
          [] OTHER -> event

\* The cursor moves forward only.
CursorAt(s, position) == [cursor EXCEPT ![s] = Later(@, position)]

\* Mutant: dedup is left to the lifecycle of the event.
NeverClaimed(tr) == FALSE

\* InsertInputTransition claims the movement, once.
Claimed(tr) == tr \in ledger

\* recordConsumed: the claim, the event, the cursor and the intent commit
\* together.
Ingest(tr) ==
    /\ ledger' = ledger \cup {tr}
    /\ cursor' = CursorAt(tr.stream, tr.curr)
    /\ IF Claimed(tr)
       THEN UNCHANGED <<event, intents>>
       ELSE /\ event' = Recorded(tr)
            /\ intents' = IF Opens(tr) THEN Append(intents, tr) ELSE intents

Record(p, tr) ==
    /\ IsHead(p, tr) /\ Material(tr) /\ ~Blocked(p, tr.stream)
    /\ Ingest(tr)
    /\ \/ /\ Proceed(p, tr, IF Claimed(tr) THEN run[p]
                            ELSE [run[p] EXCEPT !.materialized = @ \cup {DedupKey(tr.stream)}])
          /\ UNCHANGED failures
       \/ Fails /\ Proceed(p, tr, [run[p] EXCEPT !.blocked = @ \cup {tr.stream}])
    /\ UNCHANGED <<observed, swept, drained, unread, late, overlapped>>

\* The transaction fails and rolls back; evidence that cannot be derived makes
\* it fail in every pass.
RecordFails(p, tr) ==
    /\ IsHead(p, tr) /\ Material(tr) /\ ~Blocked(p, tr.stream)
    /\ Fails \/ (tr.stream \in Refused /\ UNCHANGED failures)
    /\ Proceed(p, tr, [run[p] EXCEPT !.blocked = @ \cup {tr.stream}])
    /\ UNCHANGED <<observed, cursor, event, ledger, intents, swept, drained,
                   unread, late, overlapped>>

\* Mutant: only a stream that had a movement is advanced.
AdvancedToNothing(advancing) == cursor

\* After the list, the cursor of every drained stream that is not blocked is
\* advanced over its immaterial tail: to the marks of the source's last drain,
\* whichever pass it was for.  The upserts are independent of each other.
Marked(p) == {s \in Streams : drained[s] > 0 /\ ~Blocked(p, s)}
AdvancedTo(advancing) ==
    [s \in Streams |-> IF s \in advancing THEN Later(cursor[s], drained[s]) ELSE cursor[s]]

Advance(p) ==
    /\ run[p].at = "record" /\ run[p].todo = {}
    /\ \/ cursor' = AdvancedTo(Marked(p)) /\ UNCHANGED failures
       \/ /\ Fails
          /\ \E s \in Marked(p) : cursor' = AdvancedTo(Marked(p) \ {s})
    /\ run' = [run EXCEPT ![p] = IdleRun]
    /\ UNCHANGED <<observed, event, ledger, intents, swept, drained, unread, late,
                   overlapped>>

\* The job is cut off by its deadline or a failing read of the source, or the
\* process stops; the next periodic job starts afresh.
CutOff(p) ==
    /\ run[p].at # "idle" /\ Fails
    /\ run' = [run EXCEPT ![p] = IdleRun]
    /\ UNCHANGED <<observed, cursor, event, ledger, intents, swept, drained,
                   unread, late, overlapped>>

-----------------------------------------------------------------------------

Step(p) ==
    \/ Begin(p) \/ ReadCursors(p) \/ Drain(p) \/ Advance(p)
    \/ \E tr \in run[p].todo : Clear(p, tr) \/ Defer(p, tr) \/ Record(p, tr)

EventNext ==
    \/ \E s \in Streams, i \in Times, v \in Prices : Observe(s, i, v)
    \/ \E p \in Passes : Step(p) \/ CutOff(p)
    \/ \E p \in Passes : \E tr \in run[p].todo : ThresholdUnread(p, tr) \/ RecordFails(p, tr)

EventSpec == EventInit /\ [][EventNext]_eventVars

\* A pass is scheduled every five minutes and its job runs to its end or to
\* its deadline.
Fairness == \A p \in Passes : WF_eventVars(Step(p))
FairSpec == EventSpec /\ Fairness

-----------------------------------------------------------------------------
(***************************************************************************)
(* Properties.                                                             *)
(***************************************************************************)

\* The pairs of a stream's observations with none of the rows between them.
Adjacent(s, rows) ==
    {tr \in [stream : {s}, prev : rows, curr : rows] :
        tr.prev < tr.curr /\ \A i \in rows : i <= tr.prev \/ tr.curr <= i}

\* The material movements of a stream that its cursor has passed.
Passed(s, rows) == {tr \in Adjacent(s, rows) : tr.curr <= cursor[s] /\ Material(tr)}

\* The observations that came in time to be drained, or were drained after all.
Timely(s) == Held(s) \ late[s]

\* A burst is never collapsed: whatever a record failed, a pass was cut off, a
\* page was full or came in out of order, a material movement behind its
\* stream's cursor was ingested.  Three things break it: passes that overlap
\* (drained, and the two statements of the drain), a threshold that could not
\* be read, and an observation that comes in behind its stream's cursor, or
\* behind the mark of the pass under way.
NothingSkipped ==
    overlapped \/ \A s \in Streams : Passed(s, Timely(s)) \subseteq ledger \cup unread

\* obssource.go: "Every committed transition is evaluated in captured order".
\* An observation captured before the cursor is never drained.
NothingSkippedEver == \A s \in Streams : Passed(s, Held(s)) \subseteq ledger

\* The intents for events of a key.
Announcements(k) == {i \in DOMAIN intents : DedupKey(intents[i].stream) = k}

\* Every event of a key was announced by one notification, and an ingested
\* movement opens at most one of them, also after resolve or expiry freed its
\* key and however many passes drain it.
EveryEventIsAnnouncedOnce ==
    /\ \A k \in Keys : event[k].number = Cardinality(Announcements(k))
    /\ \A i, j \in DOMAIN intents : intents[i] = intents[j] => i = j

\* No stream starves: once observations cease, every stream is consumed to its
\* end, whatever backlog the others have, though the events of one of them are
\* refused in every pass and its backlog never shrinks.  Only the refused one may
\* stay behind, and then its pass meets the refusal again and again.
Consumed(s) == \A i \in Held(s) : i <= cursor[s]

EveryStreamIsDrained ==
    \A s \in Streams :
        <>[]Consumed(s) \/ (s \in Refused /\ []<>(\E p \in Passes : s \in run[p].blocked))
=============================================================================
