--------------------------- MODULE GuardrailsProofs ---------------------------
(***************************************************************************)
(* Proofs about Guardrails and PricePolicy, for any number of concurrent   *)
(* calls, any requests, rows of any looseness from before versions were    *)
(* counted, and any market with any contribution oracle.                   *)
(***************************************************************************)
EXTENDS Guardrails, SequenceTheorems, TLAPS

\* The row is the last one that was in force, and versions only grow.
TrailInv ==
    /\ HasBaseline => row.version >= 0
    /\ trail = <<>> <=> ~HasBaseline
    /\ HasBaseline => row = trail[Len(trail)]
    /\ \A i \in DOMAIN trail : trail[i].version >= 0 /\ trail[i].version <= row.version

\* What a call writes was checked against every row up to the version it
\* expects, that version is not of the future, and the call that holds the row
\* found it unmoved.
WriteInv ==
    /\ \A o \in Owners : write[o].at # "idle" =>
          /\ write[o].next.cap <= MovementCapMax
          /\ write[o].next.cooldown >= DefaultCooldown
          /\ HasBaseline => write[o].expected <= row.version
          /\ ~HasBaseline => write[o].expected = 0
          /\ \A i \in DOMAIN trail :
                trail[i].version <= write[o].expected => NoLooser(write[o].next, trail[i])
    /\ \A o \in Owners : write[o].at = "audit" =>
          /\ HasBaseline => row.version = write[o].expected
          /\ \A other \in Owners : write[other].at = "audit" => other = o

IInv == TypeOK /\ TrailInv /\ WriteInv /\ LimitsOnlyTighten

-----------------------------------------------------------------------------

LEMMA NoRowTypes == NoRow \in Rows /\ NoSettings \in Settings
BY DEF NoRow, NoSettings, Rows, Settings, Tokens, Strategies

LEMMA Inputs ==
  /\ Requests \subseteq Settings
  /\ \A r \in Legacy : r \in Rows /\ r.version = 0
  /\ MaxVersions \in Nat
BY GuardrailInputs

\* A row in the table has a version, the absent one has none.
LEMMA InForce ==
  ASSUME NEW r \in Rows, r.version >= 0
  PROVE  r # NoRow
BY DEF NoRow

\* What Set writes for settings: a row with those limits and the next version.
LEMMA WrittenRow ==
  ASSUME NEW s \in Settings, TypeOK, TrailInv
  PROVE  /\ Written(s) \in Rows
         /\ Written(s).version = IF HasBaseline THEN row.version + 1 ELSE 1
         /\ Written(s).version > 0 /\ Written(s).version > row.version
         /\ Written(s).cap = s.cap /\ Written(s).cooldown = s.cooldown
         /\ Written(s).floor = s.floor
<1>1. row \in Rows
  BY DEF TypeOK
<1>2. row.version \in Int
  BY <1>1 DEF Rows
<1>3. ~HasBaseline => row.version = -1
  BY DEF HasBaseline, NoRow
<1> QED
  BY <1>2, <1>3 DEF Written, Rows, Settings, TrailInv

LEMMA InitInv == Init => IInv
<1> SUFFICES ASSUME Init PROVE IInv
  OBVIOUS
<1>1. row \in Rows /\ (row # NoRow => row.version = 0)
  BY NoRowTypes, Inputs DEF Init
<1>2. CASE row = NoRow
  <2>1. trail = <<>> /\ DOMAIN trail = {}
    BY <1>2 DEF Init
  <2>2. TypeOK
    BY <1>1, <2>1, NoRowTypes DEF Init, TypeOK, Idle
  <2> QED
    BY <1>2, <2>1, <2>2 DEF IInv, TrailInv, WriteInv, LimitsOnlyTighten, HasBaseline, Init, Idle
<1>3. CASE row # NoRow
  <2>1. trail = <<row>> /\ DOMAIN trail = {1} /\ Len(trail) = 1 /\ trail[1] = row
    BY <1>3 DEF Init
  <2>2. TypeOK
    <3>1. trail \in Seq(Rows)
      BY <1>1, <2>1
    <3> QED
      BY <1>1, <3>1, NoRowTypes DEF Init, TypeOK, Idle
  <2>3. TrailInv
    BY <1>1, <1>3, <2>1 DEF TrailInv, HasBaseline
  <2>4. WriteInv
    BY DEF WriteInv, Init, Idle
  <2>5. LimitsOnlyTighten
    BY <1>1, <1>3, <2>1 DEF LimitsOnlyTighten
  <2> QED
    BY <2>2, <2>3, <2>4, <2>5 DEF IInv
<1> QED
  BY <1>2, <1>3

-----------------------------------------------------------------------------
(***************************************************************************)
(* The steps that leave the row alone.                                     *)
(***************************************************************************)

LEMMA SettingsRows == \A s \in Settings : s.cap \in Int /\ s.cooldown \in Int /\ s.floor \in Int
BY DEF Settings

\* The rows of the trail and the row in force are rows.
LEMMA TrailTypes ==
  ASSUME TypeOK
  PROVE  /\ Len(trail) \in Nat /\ DOMAIN trail = 1 .. Len(trail)
         /\ \A i \in DOMAIN trail : trail[i] \in Rows
         /\ row \in Rows
BY LenProperties, ElementOfSeq DEF TypeOK

\* Limits that the baseline has no looser than an earlier row, and the request
\* none looser than the baseline.
LEMMA StricterThanAll ==
  ASSUME IInv, NEW s \in Settings, Stricter(s, row, HasBaseline), NEW i \in DOMAIN trail
  PROVE  NoLooser(s, trail[i])
<1> DEFINE last == Len(trail)
<1>1. /\ Len(trail) \in Nat /\ DOMAIN trail = 1 .. Len(trail)
      /\ trail[i] \in Rows /\ row \in Rows
  BY TrailTypes DEF IInv
<1>2. HasBaseline /\ row = trail[last] /\ last \in DOMAIN trail
  BY <1>1 DEF IInv, TrailInv
<1>3. NoLooser(s, row)
  BY <1>1, <1>2, SettingsRows DEF Stricter, NoLooser, Smaller, Larger, Rows, MovementCapMax, DefaultCooldown
<1>4. i = last \/ NoLooser(row, trail[i])
  BY <1>1, <1>2 DEF IInv, LimitsOnlyTighten
<1> QED
  BY <1>1, <1>2, <1>3, <1>4, SettingsRows DEF NoLooser, Rows

LEMMA ValidateInv ==
  ASSUME IInv, NEW o \in Owners, Validate(o)
  PROVE  IInv'
<1>1. PICK s \in Requests, v \in 0 .. MaxVersions :
        /\ Expects(v) /\ Stricter(s, row, HasBaseline)
        /\ write' = [write EXCEPT ![o] = [at |-> "upsert", next |-> s, expected |-> v]]
  BY DEF Validate
<1>2. s \in Settings /\ v \in Nat /\ UNCHANGED <<row, trail>>
  BY Inputs DEF Validate
<1>3. TypeOK'
  BY <1>1, <1>2 DEF IInv, TypeOK
<1>4. /\ row \in Rows /\ row.version \in Int
      /\ write \in [Owners -> [at : {"idle", "upsert", "audit"}, next : Settings, expected : Nat]]
  BY TrailTypes DEF IInv, TypeOK, Rows
<1>5. TrailInv' /\ LimitsOnlyTighten'
  BY <1>2 DEF IInv, TrailInv, LimitsOnlyTighten, HasBaseline
<1>6. write'[o] = [at |-> "upsert", next |-> s, expected |-> v]
  BY <1>1, <1>4
<1>7. \A p \in Owners : p # o => write'[p] = write[p]
  BY <1>1, <1>4
<1>8. s.cap <= MovementCapMax /\ s.cooldown >= DefaultCooldown
  BY <1>1, <1>2, <1>4, SettingsRows
     DEF Stricter, Smaller, Larger, MovementCapMax, DefaultCooldown, Rows
<1>9. /\ HasBaseline => v <= row.version
      /\ ~HasBaseline => v = 0
  BY <1>1, <1>4 DEF Expects
<1>10. \A i \in DOMAIN trail : NoLooser(s, trail[i])
  BY <1>1, <1>2, StricterThanAll
<1>11. WriteInv'
  BY <1>2, <1>6, <1>7, <1>8, <1>9, <1>10 DEF IInv, WriteInv, HasBaseline
<1> QED
  BY <1>3, <1>5, <1>11 DEF IInv

\* A call that ends without a commit leaves the others as they were.
LEMMA EndsInv ==
  ASSUME IInv, NEW o \in Owners,
         write' = [write EXCEPT ![o] = Idle], UNCHANGED <<row, trail>>
  PROVE  IInv'
<1>1. write \in [Owners -> [at : {"idle", "upsert", "audit"}, next : Settings, expected : Nat]]
  BY DEF IInv, TypeOK
<1>2. write'[o].at = "idle" /\ \A p \in Owners : p # o => write'[p] = write[p]
  BY <1>1 DEF Idle
<1>3. TypeOK'
  BY NoRowTypes DEF IInv, TypeOK, Idle
<1>4. TrailInv' /\ LimitsOnlyTighten'
  BY DEF IInv, TrailInv, LimitsOnlyTighten, HasBaseline
<1>5. WriteInv'
  BY <1>2 DEF IInv, WriteInv, HasBaseline
<1> QED
  BY <1>3, <1>4, <1>5 DEF IInv

LEMMA UpsertInv ==
  ASSUME IInv, NEW o \in Owners, Upsert(o)
  PROVE  IInv'
<1>1. CASE ~Unmoved(o)
  BY <1>1, EndsInv DEF Upsert
<1>2. CASE Unmoved(o)
  <2>1. /\ write[o].at = "upsert"
        /\ \A other \in Owners : write[other].at # "audit"
        /\ write' = [write EXCEPT ![o] = [@ EXCEPT !.at = "audit"]]
        /\ UNCHANGED <<row, trail>>
    BY <1>2 DEF Upsert
  <2>2. write \in [Owners -> [at : {"idle", "upsert", "audit"}, next : Settings, expected : Nat]]
    BY DEF IInv, TypeOK
  <2>3. /\ write'[o].at = "audit" /\ write'[o].next = write[o].next
        /\ write'[o].expected = write[o].expected
        /\ \A p \in Owners : p # o => write'[p] = write[p]
    BY <2>1, <2>2
  <2>4. TypeOK'
    BY <2>1, <2>2 DEF IInv, TypeOK
  <2>5. TrailInv' /\ LimitsOnlyTighten'
    BY <2>1 DEF IInv, TrailInv, LimitsOnlyTighten, HasBaseline
  <2>6. WriteInv'
    BY <1>2, <2>1, <2>3 DEF IInv, WriteInv, HasBaseline, Unmoved
  <2> QED
    BY <2>4, <2>5, <2>6 DEF IInv
<1> QED
  BY <1>1, <1>2

-----------------------------------------------------------------------------
(***************************************************************************)
(* The commit: the row written is checked against all that were in force.  *)
(***************************************************************************)

LEMMA CommitInv ==
  ASSUME IInv, NEW o \in Owners, Commit(o)
  PROVE  IInv'
<1> DEFINE new == Written(write[o].next)
           n == Len(trail)
<1>1. /\ write[o].at = "audit" /\ row' = new /\ trail' = Append(trail, new)
      /\ write' = [write EXCEPT ![o] = Idle]
  BY DEF Commit
<1>2. /\ write \in [Owners -> [at : {"idle", "upsert", "audit"}, next : Settings, expected : Nat]]
      /\ write[o].next \in Settings
      /\ row \in Rows /\ row.version \in Int /\ trail \in Seq(Rows)
  BY DEF IInv, TypeOK, Rows
<1>3. /\ new \in Rows /\ new.version \in Int /\ new.version > 0 /\ new.version > row.version
      /\ new.version = IF HasBaseline THEN row.version + 1 ELSE 1
      /\ new.cap = write[o].next.cap /\ new.cooldown = write[o].next.cooldown
      /\ new.floor = write[o].next.floor
  BY <1>2, WrittenRow DEF IInv, Rows
<1>4. /\ n \in Nat /\ DOMAIN trail = 1 .. n
      /\ trail' \in Seq(Rows) /\ Len(trail') = n + 1 /\ DOMAIN trail' = 1 .. n + 1
      /\ trail'[n + 1] = new /\ \A i \in 1 .. n : trail'[i] = trail[i]
  BY <1>1, <1>2, <1>3, AppendProperties, LenProperties
<1>5. \A i \in 1 .. n : trail[i] \in Rows /\ trail[i].version \in Int
  <2>1. \A i \in 1 .. n : trail[i] \in Rows
    BY <1>2, <1>4, ElementOfSeq
  <2> QED
    BY <2>1 DEF Rows
<1>6. HasBaseline'
  BY <1>1, <1>3, InForce DEF HasBaseline
<1>7. write'[o].at = "idle" /\ \A p \in Owners : p # o => write'[p] = write[p]
  BY <1>1, <1>2 DEF Idle
<1>8. TypeOK'
  BY <1>1, <1>3, <1>4, NoRowTypes DEF IInv, TypeOK, Idle
<1>9. TrailInv'
  <2>1. trail' # <<>> /\ row' = trail'[Len(trail')] /\ row'.version > 0
    BY <1>1, <1>3, <1>4
  <2>2. \A i \in DOMAIN trail' : trail'[i].version >= 0 /\ trail'[i].version <= row'.version
    BY <1>1, <1>2, <1>3, <1>4, <1>5 DEF IInv, TrailInv
  <2> QED
    BY <1>3, <1>6, <2>1, <2>2 DEF TrailInv
<1>10. WriteInv'
  <2>1. ASSUME NEW p \in Owners, p # o, write[p].at # "idle"
        PROVE  /\ write[p].at = "upsert"
               /\ write[p].next.cap <= MovementCapMax /\ write[p].next.cooldown >= DefaultCooldown
               /\ write[p].expected <= row'.version
               /\ \A i \in DOMAIN trail' :
                     trail'[i].version <= write[p].expected => NoLooser(write[p].next, trail'[i])
    <3>1. write[p].at \in {"upsert", "audit"} /\ write[p].expected \in Nat
      BY <1>2, <2>1
    <3>2. write[p].expected < new.version
      BY <1>2, <1>3, <2>1, <3>1 DEF IInv, WriteInv
    <3>3. write[p].at = "upsert"
      BY <1>1, <2>1, <3>1 DEF IInv, WriteInv
    <3>4. \A i \in 1 .. n : trail[i].version <= write[p].expected => NoLooser(write[p].next, trail[i])
      BY <1>4, <2>1 DEF IInv, WriteInv
    <3>5. \A i \in 1 .. n + 1 : trail'[i].version <= write[p].expected => i \in 1 .. n
      BY <1>3, <1>4, <3>1, <3>2
    <3> QED
      BY <1>1, <1>3, <1>4, <2>1, <3>1, <3>2, <3>3, <3>4, <3>5 DEF IInv, WriteInv
  <2> QED
    BY <1>6, <1>7, <2>1 DEF WriteInv
<1>11. LimitsOnlyTighten'
  <2>1. \A i \in 1 .. n : NoLooser(new, trail[i])
    <3>1. HasBaseline => \A i \in 1 .. n : trail[i].version <= write[o].expected
      BY <1>1, <1>4 DEF IInv, TrailInv, WriteInv
    <3>2. ~HasBaseline => n = 0
      BY <1>2, <1>4 DEF IInv, TrailInv
    <3>3. \A i \in 1 .. n : NoLooser(write[o].next, trail[i])
      BY <1>1, <1>4, <3>1, <3>2 DEF IInv, WriteInv
    <3> QED
      BY <1>3, <3>3 DEF NoLooser
  <2>2. new.cap <= MovementCapMax /\ new.cooldown >= DefaultCooldown
    BY <1>1, <1>3 DEF IInv, WriteInv
  <2>3. ASSUME NEW i \in 1 .. n + 1, NEW j \in 1 .. n + 1
        PROVE  /\ i < j => NoLooser(trail'[j], trail'[i])
               /\ trail'[j].version > 0 =>
                     trail'[j].cap <= MovementCapMax /\ trail'[j].cooldown >= DefaultCooldown
    <3>1. CASE j = n + 1
      BY <1>4, <2>1, <2>2, <3>1
    <3>2. CASE j # n + 1
      <4>1. j \in 1 .. n /\ (i < j => i \in 1 .. n)
        BY <1>4, <3>2
      <4> QED
        BY <1>4, <4>1 DEF IInv, LimitsOnlyTighten
    <3> QED
      BY <3>1, <3>2
  <2> QED
    BY <1>4, <2>3 DEF LimitsOnlyTighten
<1> QED
  BY <1>8, <1>9, <1>10, <1>11 DEF IInv

-----------------------------------------------------------------------------

\* The inductive invariant of the guardrails: what the row, its history and the
\* calls of Set in flight have to do with each other.
THEOREM Invariant == Spec => []IInv
<1>1. Init => IInv
  BY InitInv
<1>2. IInv /\ [Next]_vars => IInv'
  <2> SUFFICES ASSUME IInv, [Next]_vars PROVE IInv'
    OBVIOUS
  <2>1. CASE UNCHANGED vars
    BY <2>1 DEF vars, IInv, TypeOK, TrailInv, WriteInv, LimitsOnlyTighten, HasBaseline
  <2>2. ASSUME NEW o \in Owners, Rollback(o) PROVE IInv'
    BY <2>2, EndsInv DEF Rollback
  <2> QED
    BY <2>1, <2>2, ValidateInv, UpsertInv, CommitInv DEF Next
<1> QED
  BY <1>1, <1>2, PTL DEF Spec

\* Every variable keeps its type, for any requests and any number of calls.
THEOREM TypeCorrect == Spec => []TypeOK
BY Invariant, PTL DEF IInv

\* Guardrails are only ever tightened, whichever calls of Set race.
THEOREM TightenOnly == Spec => []LimitsOnlyTighten
BY Invariant, PTL DEF IInv

-----------------------------------------------------------------------------
(***************************************************************************)
(* What the policy proposes under settings s.                              *)
(***************************************************************************)

\* Applying a rate and rounding down never exceeds the exact share.
LEMMA RoundsDown ==
  ASSUME NEW amount \in Int, NEW bp \in Int
  PROVE  /\ RateDown(amount, bp) \in Int
         /\ Magnitude(RateDown(amount, bp)) * BasisPointScale <= Magnitude(amount * bp)
<1> DEFINE x == amount * bp
           q == Magnitude(x) \div BasisPointScale
<1>1. x \in Int
  OBVIOUS
<1>2. Magnitude(x) \in Nat
  BY <1>1 DEF Magnitude
<1> HIDE DEF x
<1>3. q \in Nat /\ q * 10000 <= Magnitude(x)
  BY <1>2 DEF BasisPointScale
<1> HIDE DEF q
<1>4. RateDown(amount, bp) = IF x < 0 THEN -q ELSE q
  BY DEF RateDown, Signed, x, q
<1>5. Magnitude(IF x < 0 THEN -q ELSE q) = q
  BY <1>1, <1>3 DEF Magnitude
<1> QED
  BY <1>1, <1>3, <1>4, <1>5 DEF BasisPointScale, x

\* A price between the current price less and plus the cap's delta has moved by
\* no more than the exact share that the cap allows.
LEMMA CapIsRespected ==
  ASSUME NEW current \in Int, NEW cap \in Nat, NEW price \in Int,
         current - RateDown(current, cap) <= price, price <= current + RateDown(current, cap)
  PROVE  Magnitude(price - current) * BasisPointScale <= cap * Magnitude(current)
<1> DEFINE d == RateDown(current, cap)
<1>1. d \in Int /\ Magnitude(d) * 10000 <= Magnitude(current * cap)
  BY RoundsDown DEF BasisPointScale
<1>2. current - d <= price /\ price <= current + d
  OBVIOUS
<1> HIDE DEF d
<1>3. Magnitude(price - current) <= Magnitude(d) /\ Magnitude(price - current) \in Nat
  BY <1>1, <1>2 DEF Magnitude
<1>4. Magnitude(current * cap) = cap * Magnitude(current)
  <2>1. CASE current >= 0
    <3>1. current * cap >= 0 /\ current * cap = cap * current
      BY <2>1
    <3> QED
      BY <2>1, <3>1 DEF Magnitude
  <2>2. CASE current < 0
    <3>1. current * cap <= 0 /\ -(current * cap) = cap * (-current)
      BY <2>2
    <3> QED
      BY <2>2, <3>1 DEF Magnitude
  <2> QED
    BY <2>1, <2>2
<1>5. Magnitude(d) \in Int /\ Magnitude(current * cap) \in Int
  BY <1>1 DEF Magnitude
<1> QED
  BY <1>1, <1>3, <1>4, <1>5 DEF BasisPointScale

LEMMA Inputs2 ==
  ASSUME NEW m \in Markets
  PROVE  /\ m.current \in Int /\ m.min \in Int /\ m.max \in Int
         /\ m.reference \in Int /\ m.undercut \in Int
         /\ \A t \in m.elapsed : t \in Int
         /\ \A p \in DOMAIN m.contribution : p \in Int /\ m.contribution[p] \in Int
BY GuardrailInputs

\* The target and the final price are inside the window, if there is one.
LEMMA InWindow ==
  ASSUME NEW s \in Rows, NEW m \in Markets, FeasLow(s, m) <= FeasHigh(s, m)
  PROVE  /\ Final(s, m) \in Int
         /\ FeasLow(s, m) <= Final(s, m) /\ Final(s, m) <= FeasHigh(s, m)
         /\ FeasLow(s, m) \in Int /\ FeasHigh(s, m) \in Int
<1>1. s.cap \in Int
  BY DEF Rows
<1>2. CapDelta(s, m) \in Int
  BY <1>1, RoundsDown, Inputs2 DEF CapDelta
<1>3. FeasLow(s, m) \in Int /\ FeasHigh(s, m) \in Int
  BY <1>2, Inputs2 DEF FeasLow, FeasHigh, Larger, Smaller
<1>4. StrategyDesired(s, m) \in Int
  <2>1. RateDown(m.reference, m.undercut) \in Int
    BY RoundsDown, Inputs2
  <2> QED
    BY <2>1, Inputs2 DEF StrategyDesired
<1>5. /\ Target(s, m) \in Int
      /\ FeasLow(s, m) <= Target(s, m) /\ Target(s, m) <= FeasHigh(s, m)
  BY <1>3, <1>4 DEF Target, Smaller
<1> QED
  BY <1>3, <1>5 DEF Final

\* Whatever the strategy, the objective and the contribution oracle are, a
\* proposed price obeys the settings it was evaluated under.
THEOREM ProposalObeys ==
  ASSUME NEW s \in Rows, NEW m \in Markets, NEW price \in Proposed(s, m)
  PROVE  /\ Obeys(price, s, m)
         /\ price \in DOMAIN m.contribution
<1>1. ~Faulted(s, m) /\ Blockers(s, m) = <<>> /\ price = Final(s, m)
  BY DEF Proposed
<1>2. Boundary(m) = <<>> /\ MovementCap(s, m) = <<>>
  BY <1>1 DEF Blockers
<1>3. HardFloor(s, m) \o Cooldown(s, m) = <<>>
  BY <1>1, <1>2 DEF Blockers
<1> DEFINE Codes == {"contribution_crosses_zero", "contribution_below_floor", "cooldown_active"}
<1>4. HardFloor(s, m) \in Seq(Codes) /\ Cooldown(s, m) \in Seq(Codes)
  <2>1. <<>> \in Seq(Codes) /\ \A c \in Codes : <<c>> \in Seq(Codes)
    OBVIOUS
  <2>2. HardFloor(s, m) = <<>> \/ \E c \in Codes : HardFloor(s, m) = <<c>>
    BY DEF HardFloor
  <2>3. Cooldown(s, m) = <<>> \/ \E c \in Codes : Cooldown(s, m) = <<c>>
    BY DEF Cooldown
  <2> QED
    BY <2>1, <2>2, <2>3
<1>5. HardFloor(s, m) = <<>> /\ Cooldown(s, m) = <<>>
  BY <1>3, <1>4, ConcatEmptySeq
<1>6. Valid(s, m) /\ ~Unpriced(s, m)
  BY <1>1, <1>2 DEF Faulted
<1>7. s.cap \in Nat /\ s.cap \in Int /\ s.floor \in Int /\ s.cooldown \in Int
  BY <1>6 DEF Valid, Rows, MovementCapMax
<1>8. CapDelta(s, m) \in Int
  BY <1>7, RoundsDown, Inputs2 DEF CapDelta
<1>9. FeasLow(s, m) \in Int /\ FeasHigh(s, m) \in Int /\ FeasLow(s, m) <= FeasHigh(s, m)
  <2>1. FeasLow(s, m) \in Int /\ FeasHigh(s, m) \in Int
    BY <1>8, Inputs2 DEF FeasLow, FeasHigh, Larger, Smaller
  <2>2. <<"movement_cap_infeasible">> # <<>>
    OBVIOUS
  <2>3. ~ FeasLow(s, m) > FeasHigh(s, m)
    BY <1>2, <2>2 DEF MovementCap
  <2> QED
    BY <2>1, <2>3
<1>10. price \in Int /\ FeasLow(s, m) <= price /\ price <= FeasHigh(s, m)
  BY <1>1, <1>9, InWindow
<1>11. price \in Feasible(s, m)
  <2>1. /\ m.min <= price /\ price <= m.max
        /\ m.current - CapDelta(s, m) <= price /\ price <= m.current + CapDelta(s, m)
    BY <1>8, <1>9, <1>10, Inputs2 DEF FeasLow, FeasHigh, Larger, Smaller
  <2>2. Magnitude(price - m.current) * BasisPointScale <= s.cap * Magnitude(m.current)
    BY <1>7, <1>10, <2>1, CapIsRespected, Inputs2 DEF CapDelta
  <2> QED
    BY <1>10, <2>1, <2>2, Inputs2 DEF Feasible
<1>12. MeetsFloor(s, m, price)
  BY <1>1, <1>5 DEF HardFloor
<1>13. price \in DOMAIN m.contribution
  BY <1>1, <1>6, <1>12 DEF Unpriced, Final
<1>14. price # m.current => \A t \in m.elapsed : t >= s.cooldown
  <2>1. Intent(s, m) = price
    BY <1>1, <1>5 DEF Intent
  <2>2. <<"cooldown_active">> # <<>>
    OBVIOUS
  <2>3. price # m.current => ~ \E t \in m.elapsed : t < s.cooldown
    BY <1>5, <2>1, <2>2 DEF Cooldown
  <2> QED
    BY <1>7, <2>3, Inputs2
<1> QED
  BY <1>11, <1>12, <1>13, <1>14 DEF Obeys, MeetsFloor

-----------------------------------------------------------------------------

LEMMA ShareGrows ==
  ASSUME NEW a \in Int, NEW b \in Int, a <= b, NEW c \in Nat
  PROVE  a * c <= b * c
OBVIOUS

\* A price that obeys settings obeys any that are looser.
LEMMA LooserToo ==
  ASSUME NEW s \in Rows, NEW than \in Rows, NoLooser(s, than), NEW m \in Markets,
         NEW price \in DOMAIN m.contribution, Obeys(price, s, m)
  PROVE  Obeys(price, than, m)
<1>1. /\ s.cap \in Int /\ than.cap \in Int /\ s.cap <= than.cap
      /\ s.cooldown \in Int /\ than.cooldown \in Int /\ s.cooldown >= than.cooldown
      /\ s.floor \in Int /\ than.floor \in Int /\ s.floor >= than.floor
  BY DEF NoLooser, Rows
<1>2. Magnitude(m.current) \in Nat
  BY Inputs2 DEF Magnitude
<1>3. s.cap * Magnitude(m.current) <= than.cap * Magnitude(m.current)
  BY <1>1, <1>2, ShareGrows
<1>4. s.cap * Magnitude(m.current) \in Int /\ than.cap * Magnitude(m.current) \in Int
  BY <1>1, <1>2
<1>5. price \in Int /\ m.contribution[price] \in Int /\ Magnitude(price - m.current) * BasisPointScale \in Int
  BY Inputs2 DEF Magnitude, BasisPointScale
<1>6. price \in Feasible(than, m)
  BY <1>3, <1>4, <1>5 DEF Obeys, Feasible
<1> QED
  BY <1>1, <1>5, <1>6, Inputs2 DEF Obeys

\* Under whatever settings are in force, and for every contribution model, what
\* the policy proposes or admits obeys every limit that ever was in force.
THEOREM OffersObey == Spec => []OffersObeyEveryLimit
<1>1. IInv => OffersObeyEveryLimit
  <2> SUFFICES ASSUME IInv, HasBaseline, NEW m \in Markets, NEW price \in Offered(m),
                      NEW i \in DOMAIN trail
               PROVE  Obeys(price, trail[i], m)
    BY DEF OffersObeyEveryLimit
  <2>1. price \in Proposed(row, m)
    BY DEF Offered, Admits
  <2>2. /\ Len(trail) \in Nat /\ DOMAIN trail = 1 .. Len(trail)
        /\ trail[i] \in Rows /\ row \in Rows
    BY TrailTypes DEF IInv
  <2>3. row = trail[Len(trail)] /\ Len(trail) \in DOMAIN trail
    BY <2>2 DEF IInv, TrailInv
  <2>4. Obeys(price, row, m) /\ price \in DOMAIN m.contribution
    BY <2>1, <2>2, ProposalObeys
  <2>5. CASE i = Len(trail)
    BY <2>3, <2>4, <2>5
  <2>6. CASE i # Len(trail)
    <3>1. NoLooser(row, trail[i])
      BY <2>2, <2>3, <2>6 DEF IInv, LimitsOnlyTighten
    <3> QED
      BY <2>2, <2>4, <3>1, LooserToo
  <2> QED
    BY <2>5, <2>6
<1> QED
  BY <1>1, Invariant, PTL

-----------------------------------------------------------------------------
(***************************************************************************)
(* Which stage is reported first.                                          *)
(***************************************************************************)

\* Rounding down loses less than one unit: no more whole units fit the share.
LEMMA RoundsDownTightly ==
  ASSUME NEW amount \in Nat, NEW bp \in Nat, NEW d \in Nat,
         d * BasisPointScale <= bp * amount
  PROVE  d <= RateDown(amount, bp)
<1> DEFINE x == amount * bp
<1>1. x \in Nat /\ x = bp * amount
  OBVIOUS
<1>2. d * 10000 <= x
  BY <1>1 DEF BasisPointScale
<1>3. RateDown(amount, bp) = x \div 10000
  <2>1. ~ x < 0
    BY <1>1
  <2> QED
    BY <2>1 DEF RateDown, Signed, Magnitude, BasisPointScale
<1> HIDE DEF x
<1>4. d <= x \div 10000
  BY <1>1, <1>2
<1> QED
  BY <1>3, <1>4

\* The engine's window is the set of feasible prices.
LEMMA WindowIsFeasible ==
  ASSUME NEW s \in Rows, NEW m \in Markets, s.cap \in Nat, m.current >= 0
  PROVE  /\ FeasLow(s, m) \in Int /\ FeasHigh(s, m) \in Int
         /\ Feasible(s, m) = FeasLow(s, m) .. FeasHigh(s, m)
<1> DEFINE d == CapDelta(s, m)
<1>1. s.cap \in Int /\ m.current \in Int /\ m.current \in Nat /\ m.min \in Int /\ m.max \in Int
  BY Inputs2
<1>2. d \in Int
  BY <1>1, RoundsDown DEF CapDelta
<1>3. FeasLow(s, m) = Larger(m.min, m.current - d) /\ FeasHigh(s, m) = Smaller(m.max, m.current + d)
  BY DEF FeasLow, FeasHigh
<1>4. FeasLow(s, m) \in Int /\ FeasHigh(s, m) \in Int
  BY <1>1, <1>2, <1>3 DEF Larger, Smaller
<1>5. ASSUME NEW p \in Int, FeasLow(s, m) <= p, p <= FeasHigh(s, m)
      PROVE  p \in Feasible(s, m)
  <2>1. m.min <= p /\ p <= m.max /\ m.current - d <= p /\ p <= m.current + d
    BY <1>1, <1>2, <1>3, <1>5 DEF Larger, Smaller
  <2>2. Magnitude(p - m.current) * BasisPointScale <= s.cap * Magnitude(m.current)
    BY <1>1, <2>1, CapIsRespected DEF CapDelta
  <2> QED
    BY <1>1, <2>1, <2>2 DEF Feasible
<1>6. ASSUME NEW p \in Feasible(s, m)
      PROVE  FeasLow(s, m) <= p /\ p <= FeasHigh(s, m) /\ p \in Int
  <2>1. /\ p \in Int /\ m.min <= p /\ p <= m.max
        /\ Magnitude(p - m.current) * BasisPointScale <= s.cap * m.current
        /\ Magnitude(p - m.current) \in Nat
    BY <1>1, <1>6 DEF Feasible, Magnitude
  <2>2. Magnitude(p - m.current) <= d
    BY <1>1, <2>1, RoundsDownTightly DEF CapDelta
  <2>3. m.current - d <= p /\ p <= m.current + d
    BY <1>1, <1>2, <2>1, <2>2 DEF Magnitude
  <2> QED
    BY <1>1, <1>2, <1>3, <2>1, <2>3 DEF Larger, Smaller
<1>7. \A p : p \in Feasible(s, m) <=> p \in FeasLow(s, m) .. FeasHigh(s, m)
  BY <1>4, <1>5, <1>6
<1> QED
  BY <1>4, <1>7

\* Where a higher price never contributes less, the floor stage passes exactly
\* when some feasible price meets the floor.
LEMMA FloorIsExact ==
  ASSUME NEW s \in Rows, NEW m \in Markets, s.cap \in Nat,
         Priced(s, m), NonDecreasing(s, m), FeasLow(s, m) <= FeasHigh(s, m)
  PROVE  /\ HardFloor(s, m) = <<>> <=> \E p \in Feasible(s, m) : MeetsFloor(s, m, p)
         /\ m.contribution[FeasHigh(s, m)] <= 0 <=>
               \A p \in Feasible(s, m) : m.contribution[p] <= 0
<1> DEFINE top == FeasHigh(s, m)
<1>1. Feasible(s, m) = FeasLow(s, m) .. top /\ FeasLow(s, m) \in Int /\ top \in Int
  BY WindowIsFeasible DEF Priced
<1>2. top \in Feasible(s, m) /\ Final(s, m) \in Feasible(s, m)
  BY <1>1, InWindow
<1>3. \A p \in Feasible(s, m) : m.contribution[p] \in Int
  BY Inputs2 DEF Priced
<1>4. \A p \in Feasible(s, m) : m.contribution[p] <= m.contribution[top]
  BY <1>1, <1>2 DEF NonDecreasing
<1>5. s.floor \in Int
  BY DEF Rows
<1>6. ASSUME NEW p \in Feasible(s, m), MeetsFloor(s, m, p)
      PROVE  MeetsFloor(s, m, top)
  BY <1>2, <1>3, <1>4, <1>5, <1>6 DEF MeetsFloor
<1>7. MeetsFloor(s, m, Final(s, m)) <=> \E p \in Feasible(s, m) : MeetsFloor(s, m, p)
  BY <1>2, <1>6 DEF Final
<1>8. HardFloor(s, m) = <<>> <=> MeetsFloor(s, m, Final(s, m))
  <2>1. <<"contribution_crosses_zero">> # <<>> /\ <<"contribution_below_floor">> # <<>>
    OBVIOUS
  <2> QED
    BY <2>1 DEF HardFloor
<1> QED
  BY <1>2, <1>3, <1>4, <1>7, <1>8

\* What the window, the target and the floor make of a market depends neither
\* on the last action nor on whether the strategy is enabled.
LEMMA RestedAlike ==
  ASSUME NEW s \in Rows, NEW m \in Markets
  PROVE  LET e == [s EXCEPT !.enabled = TRUE]
             r == Rested(m)
         IN  /\ Final(e, r) = Final(s, m)
             /\ MovementCap(e, r) = MovementCap(s, m) /\ Boundary(r) = Boundary(m)
             /\ HardFloor(e, r) = HardFloor(s, m)
             /\ Cooldown(e, r) = <<>> /\ Enabled(e) = <<>>
             /\ Faulted(e, r) <=> Faulted(s, m)
<1> DEFINE e == [s EXCEPT !.enabled = TRUE]
           r == Rested(m)
<1>1. /\ e.cap = s.cap /\ e.floor = s.floor /\ e.cooldown = s.cooldown
      /\ e.strategy = s.strategy /\ e.enabled = TRUE
  BY DEF Rows
<1>2. /\ r.known = m.known /\ r.min = m.min /\ r.max = m.max /\ r.current = m.current
      /\ r.reference = m.reference /\ r.undercut = m.undercut /\ r.objective = m.objective
      /\ r.elapsed = {} /\ r.contribution = m.contribution
  BY DEF Rested
<1> HIDE DEF e, r
<1>3. CapDelta(e, r) = CapDelta(s, m)
  BY <1>1, <1>2 DEF CapDelta
<1>4. FeasLow(e, r) = FeasLow(s, m) /\ FeasHigh(e, r) = FeasHigh(s, m)
  BY <1>2, <1>3 DEF FeasLow, FeasHigh
<1>5. StrategyDesired(e, r) = StrategyDesired(s, m)
  BY <1>1, <1>2 DEF StrategyDesired
<1>6. Target(e, r) = Target(s, m)
  BY <1>2, <1>4, <1>5 DEF Target
<1>7. \A p : MeetsFloor(e, r, p) <=> MeetsFloor(s, m, p)
  BY <1>1, <1>2 DEF MeetsFloor
<1>8. Final(e, r) = Final(s, m)
  BY <1>4, <1>6, <1>7 DEF Final
<1>9. HardFloor(e, r) = HardFloor(s, m)
  BY <1>2, <1>4, <1>7, <1>8 DEF HardFloor
<1>10. MovementCap(e, r) = MovementCap(s, m) /\ Boundary(r) = Boundary(m)
  BY <1>2, <1>4 DEF MovementCap, Boundary
<1>11. Valid(e, r) <=> Valid(s, m)
  BY <1>1, <1>2 DEF Valid
<1>12. Overflows(e, r) <=> Overflows(s, m)
  BY <1>2, <1>3 DEF Overflows
<1>13. Unpriced(e, r) <=> Unpriced(s, m)
  BY <1>2, <1>4, <1>6, <1>7 DEF Unpriced
<1>14. Faulted(e, r) <=> Faulted(s, m)
  BY <1>10, <1>11, <1>12, <1>13 DEF Faulted
<1>15. Cooldown(e, r) = <<>> /\ Enabled(e) = <<>>
  BY <1>1, <1>2 DEF Cooldown, Enabled
<1> QED
  BY <1>8, <1>9, <1>10, <1>14, <1>15 DEF e, r

\* The first blocker reported is the first stage that fails, under any settings
\* and for every contribution model that never falls as the price rises.
THEOREM ReportsFirstFailure ==
  ASSUME NEW s \in Rows, NEW m \in Markets,
         ~Faulted(s, m), Priced(s, m), NonDecreasing(s, m)
  PROVE  FirstBlocker(s, m) = FirstFailure(s, m)
<1> DEFINE e == [s EXCEPT !.enabled = TRUE]
           r == Rested(m)
<1>1. s.cap \in Nat
  <2>1. Valid(s, m)
    BY DEF Faulted
  <2> QED
    BY <2>1 DEF Valid, Rows, MovementCapMax
<1>2. \A a : <<a>> # <<>> /\ <<a>>[1] = a
  OBVIOUS
<1>10. \A a, b : /\ <<a>> \o <<>> # <<>> /\ (<<a>> \o <<>>)[1] = a
                 /\ <<a>> \o <<b>> # <<>> /\ (<<a>> \o <<b>>)[1] = a
  OBVIOUS
<1>11. <<>> \o <<>> = <<>> /\ \A a : <<>> \o <<a>> = <<a>>
  OBVIOUS
<1>12. Cooldown(s, m) \in {<<>>, <<"cooldown_active">>}
  BY DEF Cooldown
<1>3. CASE ~m.known
  BY <1>2, <1>3 DEF FirstBlocker, FirstFailure, Blockers, Boundary
<1>4. CASE m.known /\ m.min > m.max
  BY <1>2, <1>4 DEF FirstBlocker, FirstFailure, Blockers, Boundary
<1>5. CASE m.known /\ ~ m.min > m.max
  <2>1. Boundary(m) = <<>>
    BY <1>5 DEF Boundary
  <2>2. /\ FeasLow(s, m) \in Int /\ FeasHigh(s, m) \in Int
        /\ Feasible(s, m) = FeasLow(s, m) .. FeasHigh(s, m)
    BY <1>1, WindowIsFeasible DEF Priced
  <2>3. CASE FeasLow(s, m) > FeasHigh(s, m)
    <3>1. Feasible(s, m) = {}
      BY <2>2, <2>3
    <3>2. FirstFailure(s, m) = "movement_cap_infeasible"
      BY <1>5, <3>1 DEF FirstFailure
    <3>3. MovementCap(s, m) = <<"movement_cap_infeasible">>
      BY <2>3 DEF MovementCap
    <3> QED
      BY <1>2, <2>1, <3>2, <3>3 DEF FirstBlocker, Blockers
  <2>4. CASE ~ FeasLow(s, m) > FeasHigh(s, m)
    <3>1. MovementCap(s, m) = <<>> /\ Feasible(s, m) # {} /\ FeasLow(s, m) <= FeasHigh(s, m)
      <4>1. FeasLow(s, m) <= FeasHigh(s, m)
        BY <2>2, <2>4
      <4>2. FeasLow(s, m) \in Feasible(s, m)
        BY <2>2, <4>1
      <4> QED
        BY <2>4, <4>1, <4>2 DEF MovementCap
    <3>2. /\ HardFloor(s, m) = <<>> <=> \E p \in Feasible(s, m) : MeetsFloor(s, m, p)
          /\ m.contribution[FeasHigh(s, m)] <= 0 <=>
                \A p \in Feasible(s, m) : m.contribution[p] <= 0
      BY <1>1, <3>1, FloorIsExact
    <3>3. Blockers(s, m) = IF HardFloor(s, m) \o Cooldown(s, m) # <<>>
                           THEN HardFloor(s, m) \o Cooldown(s, m) ELSE Enabled(s)
      BY <2>1, <3>1 DEF Blockers
    <3>4. CASE HardFloor(s, m) # <<>>
      <4> DEFINE stage == IF m.contribution[FeasHigh(s, m)] <= 0
                          THEN "contribution_crosses_zero" ELSE "contribution_below_floor"
      <4>1. ~ \E p \in Feasible(s, m) : MeetsFloor(s, m, p)
        BY <3>2, <3>4
      <4>2. FirstFailure(s, m) = stage
        BY <1>5, <3>1, <3>2, <4>1 DEF FirstFailure
      <4>3. HardFloor(s, m) = <<stage>>
        BY <3>4 DEF HardFloor
      <4> HIDE DEF stage
      <4>4. /\ HardFloor(s, m) \o Cooldown(s, m) # <<>>
            /\ (HardFloor(s, m) \o Cooldown(s, m))[1] = stage
        BY <1>10, <1>12, <4>3
      <4>5. Blockers(s, m) # <<>> /\ Blockers(s, m)[1] = stage
        BY <3>3, <4>4
      <4> QED
        BY <4>2, <4>5 DEF FirstBlocker
    <3>5. CASE HardFloor(s, m) = <<>>
      <4>1. \E p \in Feasible(s, m) : MeetsFloor(s, m, p)
        BY <3>2, <3>5
      <4>2. ~ \A p \in Feasible(s, m) : m.contribution[p] <= 0
        <5>1. PICK p \in Feasible(s, m) : MeetsFloor(s, m, p)
          BY <4>1
        <5>2. p \in DOMAIN m.contribution
          BY <5>1 DEF Priced
        <5>3. m.contribution[p] \in Int
          BY <5>2, GuardrailInputs
        <5> QED
          BY <5>1, <5>3 DEF MeetsFloor
      <4>3. Proposed(e, r) = {Final(s, m)}
        <5>1. /\ Boundary(r) = <<>> /\ MovementCap(e, r) = <<>> /\ HardFloor(e, r) = <<>>
              /\ Cooldown(e, r) = <<>> /\ Enabled(e) = <<>>
              /\ ~Faulted(e, r) /\ Final(e, r) = Final(s, m)
          BY <2>1, <3>1, <3>5, RestedAlike
        <5> HIDE DEF e, r
        <5>2. Blockers(e, r) = <<>>
          BY <1>11, <5>1 DEF Blockers
        <5> QED
          BY <5>1, <5>2 DEF Proposed
      <4>4. Proposed(e, r) # {m.current} <=> Final(s, m) # m.current
        BY <4>3
      <4>5. Intent(s, m) = Final(s, m)
        BY <3>5 DEF Intent
      <4>6. HardFloor(s, m) \o Cooldown(s, m) = Cooldown(s, m)
        BY <1>11, <1>12, <3>5
      <4>7. CASE (\E t \in m.elapsed : t < s.cooldown) /\ Final(s, m) # m.current
        <5>1. Cooldown(s, m) = <<"cooldown_active">>
          BY <4>5, <4>7 DEF Cooldown
        <5>2. Blockers(s, m) = <<"cooldown_active">>
          BY <1>2, <3>3, <4>6, <5>1
        <5>3. FirstFailure(s, m) = "cooldown_active"
          BY <1>5, <3>1, <4>1, <4>2, <4>4, <4>7 DEF FirstFailure
        <5> QED
          BY <1>2, <5>2, <5>3 DEF FirstBlocker
      <4>8. CASE ~ ((\E t \in m.elapsed : t < s.cooldown) /\ Final(s, m) # m.current)
        <5>1. Cooldown(s, m) = <<>>
          BY <4>5, <4>8 DEF Cooldown
        <5>2. Blockers(s, m) = Enabled(s)
          BY <3>3, <4>6, <5>1
        <5>3. FirstFailure(s, m) = IF ~s.enabled THEN "strategy_disabled" ELSE "none"
          BY <1>5, <3>1, <4>1, <4>2, <4>4, <4>8 DEF FirstFailure
        <5> QED
          BY <1>2, <5>2, <5>3 DEF FirstBlocker, Enabled
      <4> QED
        BY <4>7, <4>8
    <3> QED
      BY <3>4, <3>5
  <2> QED
    BY <2>3, <2>4
<1> QED
  BY <1>3, <1>4, <1>5

\* In every state, under the settings in force, the first blocker reported is
\* the first stage that fails.
THEOREM FirstFailureReported == Spec => []FirstBlockerIsFirstFailure
<1>1. IInv => FirstBlockerIsFirstFailure
  <2> SUFFICES ASSUME IInv, HasBaseline, NEW m \in Markets,
                      ~Faulted(row, m), Priced(row, m), NonDecreasing(row, m)
               PROVE  FirstBlocker(row, m) = FirstFailure(row, m)
    BY DEF FirstBlockerIsFirstFailure
  <2>1. row \in Rows
    BY DEF IInv, TypeOK
  <2> QED
    BY <2>1, ReportsFirstFailure
<1> QED
  BY <1>1, Invariant, PTL
=============================================================================
