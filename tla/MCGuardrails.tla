----------------------------- MODULE MCGuardrails -----------------------------
(***************************************************************************)
(* An instance of Guardrails for TLC.  The contribution oracle is the      *)
(* margin engine's, over cost models with no rate, one and two, and one    *)
(* without the commission that is required.                                *)
(***************************************************************************)
EXTENDS Guardrails, TLC

CONSTANTS o1, o2

EngineOf == INSTANCE Margin

Interchangeable == Permutations(Owners)

\* Tighter on one limit or another, as loose as allowed, and refused ones.
Asked ==
    {[floor |-> f, cap |-> c, cooldown |-> d, strategy |-> s, enabled |-> e] :
        <<f, c, d, s, e>> \in
            {<<-2, 500, 3600, "match", TRUE>>, <<3, 500, 3600, "undercut", TRUE>>,
             <<-2, 250, 7200, "hold", TRUE>>, <<3, 250, 7200, "match", FALSE>>,
             <<3, 500, 7200, "hold", TRUE>>,
             <<3, 600, 3600, "match", TRUE>>, <<3, 500, 60, "match", TRUE>>,
             <<3, 250, 7200, "unknown", TRUE>>}}

\* A row written before the limits were enforced.
Unversioned ==
    {[floor |-> 0, cap |-> 1000, cooldown |-> 60, strategy |-> "match", enabled |-> TRUE,
      version |-> 0]}

-----------------------------------------------------------------------------

Cost(c, k, a) == [component |-> c, kind |-> k, amount |-> a]

\* At 45 two tenths round to 4 each, at 46 to 5 each: 46 contributes less.
TwoRates ==
    <<Cost("cogs", "absolute", 34), Cost("commission", "rate", 1000),
      Cost("promotion", "rate", 1000)>>

Models ==
    {TwoRates, <<Cost("cogs", "absolute", 38), Cost("commission", "rate", 1000)>>,
     <<Cost("cogs", "absolute", 41), Cost("commission", "absolute", 3)>>}

NoCommission == <<Cost("cogs", "absolute", 41)>>

\* Prices around the current one; the policy asks about no other.
Asking(costs) ==
    [p \in {q \in 35 .. 65 : EngineOf!Computable(costs, q)} |-> EngineOf!Contribution(costs, p)]

Ask(b, c, r, j, e, k, complete) ==
    [known |-> b[1], min |-> b[2], max |-> b[3], current |-> c, reference |-> r[1],
     undercut |-> r[2], objective |-> j, elapsed |-> e,
     readiness |-> IF complete THEN "complete" ELSE "partial", contribution |-> Asking(k)]

Wide == <<TRUE, 41, 62>>
One == <<TRUE, 45, 45>>
Above == <<TRUE, 55, 58>>
Low == <<45, 200>>

WhatIfs ==
    {Ask(p[1], p[2], r, j, e, k, TRUE) :
        p \in {<<Wide, 44>>, <<One, 44>>, <<Above, 60>>}, r \in {Low, <<48, 1000>>},
        j \in Objectives, e \in {{}, {3600}}, k \in Models}

\* No boundary to speak of, none within the cap, a cap past the greatest
\* mantissa, no reference price, no commission, and costs that are not complete.
Lacking ==
    {Ask(x[1], x[2], x[3], j, e, x[4], x[5]) :
        x \in {<<<<FALSE, 0, 0>>, 44, Low, TwoRates, TRUE>>,
               <<<<TRUE, 47, 46>>, 44, Low, TwoRates, TRUE>>,
               <<Above, 44, Low, TwoRates, TRUE>>, <<Wide, 60, Low, TwoRates, TRUE>>,
               <<Wide, 44, <<0, 0>>, TwoRates, TRUE>>, <<Wide, 44, Low, NoCommission, TRUE>>,
               <<Wide, 44, Low, TwoRates, FALSE>>},
        j \in Objectives, e \in {{}, {3600}}}

Inputs == WhatIfs \cup Lacking
=============================================================================
