------------------------------- MODULE Guardrails ------------------------------
(***************************************************************************)
(* The commercial guardrails of one account                                *)
(* (services/core/internal/guardrail): one row, written by Set under       *)
(* optimistic concurrency and only ever tightened, and what the pricing    *)
(* policy makes of the settings in force.                                  *)
(*                                                                         *)
(* Set runs at READ COMMITTED: it reads the baseline, checks the request   *)
(* against it, and the guarded upsert decides later against the row as it  *)
(* is then, which it locks until the commit.  The audit record commits     *)
(* with the row or not at all and is not a variable of its own.  Whose     *)
(* account it is does not change and is left out.                          *)
(***************************************************************************)
EXTENDS PricePolicy, SequencesExt

CONSTANTS
    Owners,        \* concurrent calls of Set
    Requests,      \* the settings they ask for
    Legacy,        \* rows from before versions were counted
    Markets,       \* what the policy is asked about
    Edits,         \* prices an operator edits a card to
    MaxVersions    \* bound: versions of the row

\* A strategy as it arrives: one of the closed set, or any other token.
Tokens == Strategies \cup {"unknown"}

Settings ==
    [floor : Int, cap : Int, cooldown : Int, strategy : Tokens, enabled : BOOLEAN]

Rows ==
    [floor : Int, cap : Int, cooldown : Int, strategy : Tokens, enabled : BOOLEAN,
     version : Int]

ASSUME GuardrailInputs ==
    /\ Requests \subseteq Settings
    /\ \A r \in Legacy : r \in Rows /\ r.version = 0
    /\ MaxVersions \in Nat
    /\ \A m \in Markets :
          /\ m.current \in Int /\ m.min \in Int /\ m.max \in Int
          /\ m.reference \in Int /\ m.undercut \in Int
          /\ \A t \in m.elapsed : t \in Int
          /\ \A p \in DOMAIN m.contribution : p \in Int /\ m.contribution[p] \in Int

VARIABLES
    row,       \* guardrail_settings
    write,     \* each call of Set
    trail      \* history: the rows that were in force, in order

vars == <<row, write, trail>>

-----------------------------------------------------------------------------

\* The account has no row: no baseline, and what a first write expects is 0.
NoRow ==
    [floor |-> 0, cap |-> 0, cooldown |-> 0, strategy |-> "hold", enabled |-> FALSE,
     version |-> -1]

HasBaseline == row # NoRow

NoSettings ==
    [floor |-> 0, cap |-> 0, cooldown |-> 0, strategy |-> "hold", enabled |-> FALSE]

Idle == [at |-> "idle", next |-> NoSettings, expected |-> 0]

TypeOK ==
    /\ row \in Rows
    /\ write \in [Owners -> [at : {"idle", "upsert", "audit"}, next : Settings, expected : Nat]]
    /\ trail \in Seq(Rows)

Init ==
    /\ row \in Legacy \cup {NoRow}
    /\ write = [o \in Owners |-> Idle]
    /\ trail = IF row = NoRow THEN <<>> ELSE <<row>>

-----------------------------------------------------------------------------

\* validateStricter: against the defaults, and the baseline if there is one.
Stricter(next, baseline, has) ==
    /\ next.cap <= IF has THEN Smaller(MovementCapMax, baseline.cap) ELSE MovementCapMax
    /\ next.cooldown >=
          IF has THEN Larger(DefaultCooldown, baseline.cooldown) ELSE DefaultCooldown
    /\ has => next.floor >= baseline.floor

\* Mutant: a stale version is left to the upsert to find.
ExpectsAny(v) == v \in Nat

\* The version the caller read is that of the baseline.
Expects(v) == v = IF HasBaseline THEN row.version ELSE 0

\* Begin, the baseline and the checks; a refused request ends without a change.
Validate(o) ==
    /\ write[o].at = "idle"
    /\ \E s \in Requests, v \in 0 .. MaxVersions :
          /\ s.strategy \in Strategies
          /\ Expects(v)
          /\ Stricter(s, row, HasBaseline)
          /\ write' = [write EXCEPT ![o] =
                          [at |-> "upsert", next |-> s, expected |-> v]]
    /\ UNCHANGED <<row, trail>>

\* The insert finds no row, or the guard of its update the version expected.
Unmoved(o) == HasBaseline => row.version = write[o].expected

\* The upsert waits for the transaction that holds the row; a version that has
\* moved on is a conflict.
Upsert(o) ==
    /\ write[o].at = "upsert"
    /\ \A other \in Owners : write[other].at # "audit"
    /\ write' = [write EXCEPT ![o] =
                    IF Unmoved(o) THEN [@ EXCEPT !.at = "audit"] ELSE Idle]
    /\ UNCHANGED <<row, trail>>

\* The row as the upsert leaves it: inserted as version 1, or one version on.
Written(s) ==
    [floor |-> s.floor, cap |-> s.cap, cooldown |-> s.cooldown, strategy |-> s.strategy,
     enabled |-> s.enabled, version |-> IF HasBaseline THEN row.version + 1 ELSE 1]

\* The audit record is appended and the transaction commits.
Commit(o) ==
    /\ write[o].at = "audit" /\ row.version < MaxVersions
    /\ row' = Written(write[o].next)
    /\ trail' = Append(trail, row')
    /\ write' = [write EXCEPT ![o] = Idle]

\* A statement fails, or the process dies.
Rollback(o) ==
    /\ write[o].at # "idle"
    /\ write' = [write EXCEPT ![o] = Idle]
    /\ UNCHANGED <<row, trail>>

Next == \E o \in Owners : Validate(o) \/ Upsert(o) \/ Commit(o) \/ Rollback(o)

Spec == Init /\ [][Next]_vars

-----------------------------------------------------------------------------

\* Guardrails may only be tightened (guardrail.go:101, stricter.go:26): whatever
\* calls of Set race, the settings in force never become looser than they were
\* at any earlier time, and none that Set wrote is looser than the defaults.
NoLooser(s, than) ==
    s.cap <= than.cap /\ s.cooldown >= than.cooldown /\ s.floor >= than.floor

LimitsOnlyTighten ==
    \A i, j \in DOMAIN trail :
        /\ i < j => NoLooser(trail[j], trail[i])
        /\ trail[j].version > 0 =>
              trail[j].cap <= MovementCapMax /\ trail[j].cooldown >= DefaultCooldown

\* The prices inside the boundary and within the exact share of the current
\* price that the cap allows.
Feasible(s, m) ==
    {p \in m.min .. m.max :
        Magnitude(p - m.current) * BasisPointScale <= s.cap * Magnitude(m.current)}

\* A price obeys settings s: it is feasible, its contribution is positive and not
\* below the floor, and a change comes only after the cooldown.
Obeys(price, s, m) ==
    /\ price \in Feasible(s, m)
    /\ m.contribution[price] > 0 /\ m.contribution[price] >= s.floor
    /\ price # m.current => \A t \in m.elapsed : t >= s.cooldown

Offered(m) == Proposed(row, m) \cup {e \in Edits : Admits(row, m, e)}

\* No strategy, objective or operator's edit gets a price past a hard limit
\* (evaluate.go:168, edit_recheck.go:54): evaluated under the settings in force,
\* the policy offers only prices that obey every limit that ever was in force,
\* for whatever contribution the engine reports.
OffersObeyEveryLimit ==
    HasBaseline =>
        \A m \in Markets : \A price \in Offered(m) :
            \A i \in DOMAIN trail : Obeys(price, trail[i], m)

\* The stages' own conditions, stated without the engine's window, target and
\* final price.  A cooldown blocks what would be proposed were there none.
Rested(m) ==
    [known |-> m.known, min |-> m.min, max |-> m.max, current |-> m.current,
     reference |-> m.reference, undercut |-> m.undercut, objective |-> m.objective,
     elapsed |-> {}, readiness |-> m.readiness, contribution |-> m.contribution]

FirstFailure(s, m) ==
    IF ~m.known THEN "boundary_unknown"
    ELSE IF m.min > m.max THEN "boundary_invalid"
    ELSE IF Feasible(s, m) = {} THEN "movement_cap_infeasible"
    ELSE IF \A p \in Feasible(s, m) : m.contribution[p] <= 0 THEN "contribution_crosses_zero"
    ELSE IF ~ \E p \in Feasible(s, m) : MeetsFloor(s, m, p) THEN "contribution_below_floor"
    ELSE IF /\ \E t \in m.elapsed : t < s.cooldown
            /\ Proposed([s EXCEPT !.enabled = TRUE], Rested(m)) # {m.current}
         THEN "cooldown_active"
    ELSE IF ~s.enabled THEN "strategy_disabled"
    ELSE "none"

NonDecreasing(s, m) ==
    \A p, q \in Feasible(s, m) : p <= q => m.contribution[p] <= m.contribution[q]

Priced(s, m) == m.current >= 0 /\ Feasible(s, m) \subseteq DOMAIN m.contribution

FirstBlocker(s, m) == IF Blockers(s, m) = <<>> THEN "none" ELSE Blockers(s, m)[1]

\* The first blocker reported names the first stage, in the mandated order,
\* that no feasible price passes, and nothing is proposed or blocked for
\* another reason (evaluate.go:181): the floor in particular is decided at the
\* top of the window alone, which is right where a higher price never
\* contributes less.
FirstBlockerIsFirstFailure ==
    HasBaseline =>
        \A m \in Markets :
            ~Faulted(row, m) /\ Priced(row, m) /\ NonDecreasing(row, m) =>
                FirstBlocker(row, m) = FirstFailure(row, m)

\* The same of every contribution model.  Two rates that round in one step make
\* the margin engine's contribution fall as the price rises, and a floor that
\* only the lower price meets is reported as met by none (evaluate.go:353).
FirstBlockerIsFirstFailureEver ==
    HasBaseline =>
        \A m \in Markets :
            ~Faulted(row, m) /\ Priced(row, m) => FirstBlocker(row, m) = FirstFailure(row, m)
=============================================================================
