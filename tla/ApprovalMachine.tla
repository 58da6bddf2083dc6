--------------------------- MODULE ApprovalMachine ---------------------------
(***************************************************************************)
(* The approval-card state machine of services/core/internal/approval:     *)
(* the closed set of states, the edge table, and the predicates the other  *)
(* packages ask of a state.  Pure; every module that moves a card extends  *)
(* this one.                                                               *)
(***************************************************************************)

\* State: the nodes of the diagram, in the order of AllStates.
States ==
    {"draft", "ready_for_review", "blocked", "awaiting_confirmation",
     "approved", "expired", "invalidated", "revalidating", "executing",
     "accepted", "rejected", "pending_reconciliation", "failed"}

\* The edge table.  A pair that is not listed is an undefined move.
Transitions ==
    {<<"draft", "ready_for_review">>,
     <<"draft", "blocked">>,
     <<"ready_for_review", "awaiting_confirmation">>,
     <<"awaiting_confirmation", "approved">>,
     <<"awaiting_confirmation", "expired">>,
     <<"awaiting_confirmation", "invalidated">>,
     <<"approved", "revalidating">>,
     <<"revalidating", "executing">>,
     <<"revalidating", "invalidated">>,
     <<"executing", "accepted">>,
     <<"executing", "rejected">>,
     <<"executing", "pending_reconciliation">>,
     <<"executing", "failed">>,
     <<"pending_reconciliation", "accepted">>,
     <<"pending_reconciliation", "failed">>,
     <<"invalidated", "draft">>}

CanTransition(from, to) == <<from, to>> \in Transitions

\* State.Terminal: a known state without an outgoing edge.
Terminal(s) == s \in States /\ \A t \in States : ~CanTransition(s, t)

\* StateHasAuthorized: the structured control of the card was activated and
\* the authorization was not voided afterwards.
StateHasAuthorized(s) ==
    s \in {"approved", "revalidating", "executing", "accepted", "rejected",
           "pending_reconciliation", "failed"}

\* StateHasPendingExecution: authorized and still upstream of any external
\* result.
StateHasPendingExecution(s) == s \in {"approved", "revalidating", "executing"}

\* A card whose control is gone or whose result is known.
Ended(s) == Terminal(s) \/ s = "invalidated"
=============================================================================
