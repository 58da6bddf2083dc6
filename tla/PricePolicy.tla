------------------------------ MODULE PricePolicy ------------------------------
(***************************************************************************)
(* The pricing policy (services/core/internal/policy): six stages in a     *)
(* fixed order, of which the first four are hard, and the check that       *)
(* admits an operator's edited price (recommendation/edit_recheck.go).     *)
(*                                                                         *)
(* Settings s: floor, cap (basis points), cooldown (seconds), strategy and *)
(* enabled.  A market m is the rest of an evaluation's input: the boundary *)
(* (known, min, max), the reference price and the undercut depth, the      *)
(* objective, the current price, the seconds elapsed since the last action *)
(* (none if there was none), the readiness, and the contribution oracle, a *)
(* function whose domain is the prices for which the engine has a number.  *)
(*                                                                         *)
(* Amounts are in one unit, so the rejections of a foreign unit are left   *)
(* out.  Simulate labels the same result and is left out.                  *)
(***************************************************************************)
EXTENDS Money, Sequences

MovementCapMax == 500
DefaultCooldown == 3600

Strategies == {"hold", "match", "undercut"}
Objectives == {"maximize_contribution", "track_strategy"}

-----------------------------------------------------------------------------

\* validate: what Evaluate demands of any configuration.
Valid(s, m) ==
    /\ s.cap \in 0 .. MovementCapMax
    /\ s.cooldown >= DefaultCooldown
    /\ s.strategy \in Strategies /\ m.objective \in Objectives
    /\ s.strategy # "hold" => m.reference # 0
    /\ s.strategy = "undercut" => m.undercut \in 0 .. BasisPointScale

\* The feasible window: the boundary and the movement cap together.
CapDelta(s, m) == RateDown(m.current, s.cap)
FeasLow(s, m) == Larger(m.min, m.current - CapDelta(s, m))
FeasHigh(s, m) == Smaller(m.max, m.current + CapDelta(s, m))

Overflows(s, m) ==
    ~ (Fits(m.current - CapDelta(s, m)) /\ Fits(m.current + CapDelta(s, m)))

StrategyDesired(s, m) ==
    IF s.strategy = "hold" THEN m.current
    ELSE IF s.strategy = "match" THEN m.reference
    ELSE m.reference - RateDown(m.reference, m.undercut)

\* The price the objective prefers, inside the window.
Target(s, m) ==
    IF m.objective = "maximize_contribution" THEN FeasHigh(s, m)
    ELSE IF StrategyDesired(s, m) < FeasLow(s, m) THEN FeasLow(s, m)
    ELSE Smaller(FeasHigh(s, m), StrategyDesired(s, m))

\* Mutant: a floor below zero is taken to allow a loss.
MeetsOnlyFloor(s, m, price) == m.contribution[price] >= s.floor

\* classifyFloor: the floor, and zero whatever the floor is.
MeetsFloor(s, m, price) ==
    m.contribution[price] >= s.floor /\ m.contribution[price] > 0

\* Mutant: the floor only judges the target.
Unforced(s, m) == Target(s, m)

\* resolveFloor: the target stands, or the floor forces the price up.
Final(s, m) ==
    IF MeetsFloor(s, m, Target(s, m)) THEN Target(s, m) ELSE FeasHigh(s, m)

\* The oracle has no number for a price it is asked about.
Unpriced(s, m) ==
    \/ Target(s, m) \notin DOMAIN m.contribution
    \/ FeasHigh(s, m) \notin DOMAIN m.contribution /\ ~MeetsFloor(s, m, Target(s, m))

-----------------------------------------------------------------------------
(***************************************************************************)
(* The stages, each with the blockers it reports.                          *)
(***************************************************************************)

Boundary(m) ==
    IF ~m.known THEN <<"boundary_unknown">>
    ELSE IF m.min > m.max THEN <<"boundary_invalid">>
    ELSE <<>>

MovementCap(s, m) ==
    IF FeasLow(s, m) > FeasHigh(s, m) THEN <<"movement_cap_infeasible">> ELSE <<>>

HardFloor(s, m) ==
    IF MeetsFloor(s, m, Final(s, m)) THEN <<>>
    ELSE IF m.contribution[FeasHigh(s, m)] <= 0 THEN <<"contribution_crosses_zero">>
    ELSE <<"contribution_below_floor">>

\* Cooldown blocks a change of price: the one that would be put forward, or the
\* target when the floor lets none be.
Intent(s, m) == IF HardFloor(s, m) = <<>> THEN Final(s, m) ELSE Target(s, m)

Cooldown(s, m) ==
    IF (\E t \in m.elapsed : t < s.cooldown) /\ Intent(s, m) # m.current
    THEN <<"cooldown_active">> ELSE <<>>

Enabled(s) == IF s.enabled THEN <<>> ELSE <<"strategy_disabled">>

\* Evaluate returns an error.
Faulted(s, m) ==
    \/ ~Valid(s, m)
    \/ /\ Boundary(m) = <<>>
       /\ \/ Overflows(s, m)
          \/ MovementCap(s, m) = <<>> /\ Unpriced(s, m)

\* The stages that end the evaluation by themselves come first; the floor and
\* the cooldown report together; the strategy is asked when nothing hard blocks.
Blockers(s, m) ==
    IF Boundary(m) # <<>> THEN Boundary(m)
    ELSE IF MovementCap(s, m) # <<>> THEN MovementCap(s, m)
    ELSE IF HardFloor(s, m) \o Cooldown(s, m) # <<>> THEN HardFloor(s, m) \o Cooldown(s, m)
    ELSE Enabled(s)

\* The proposed price, if there is one.
Proposed(s, m) ==
    IF Faulted(s, m) \/ Blockers(s, m) # <<>> THEN {} ELSE {Final(s, m)}

\* AdmitEditedPrice: exactly what the policy proposes, with complete costs.
Admits(s, m, edited) ==
    /\ edited # 0
    /\ m.readiness = "complete"
    /\ edited \in Proposed(s, m)
=============================================================================
