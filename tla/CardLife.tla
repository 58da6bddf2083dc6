------------------------------- MODULE CardLife -------------------------------
(***************************************************************************)
(* What the two planes promise each other about a card, without requests,  *)
(* passes, callers or crashes: the approval plane alone mints it, reviews  *)
(* it and decides about it; from its approval on, the execution plane      *)
(* alone takes it along the diagram, unless an identity reopen voids it.   *)
(* One card moves at a time, one edge at a time - a reopen takes an        *)
(* approved card over two.  ApprovalLineage implements Spec, and           *)
(* ActionExecution ExecutionSpec.                                          *)
(***************************************************************************)
EXTENDS ApprovalMachine

CONSTANT Cards

VARIABLE state      \* approval_cards.state; "none": there is no such card

vars == <<state>>

Init == state = [c \in Cards |-> "none"]

Moves(c, to) == state' = [state EXCEPT ![c] = to]

\* A card version is inserted, in Draft.
Mint(c) == state[c] = "none" /\ Moves(c, "draft")

\* A Draft passes validation or is blocked, and a ready card is opened.
Review(c) ==
    /\ state[c] \in {"draft", "ready_for_review"}
    /\ \E to \in States : CanTransition(state[c], to) /\ Moves(c, to)

\* The control of an opened card is activated, lapses or is withdrawn.
Decide(c) ==
    /\ state[c] = "awaiting_confirmation"
    /\ \E to \in States : CanTransition(state[c], to) /\ Moves(c, to)

\* An authorized card is revalidated, executed and settled.
Execute(c) ==
    /\ StateHasAuthorized(state[c])
    /\ \E to \in States : CanTransition(state[c], to) /\ Moves(c, to)

\* Approved to Revalidating to Invalidated, in one transaction.
Void(c) == state[c] = "approved" /\ Moves(c, "invalidated")

Approval == \E c \in Cards : Mint(c) \/ Review(c) \/ Decide(c)
Execution == \E c \in Cards : Execute(c) \/ Void(c)

Next == Approval \/ Execution

Spec == Init /\ [][Next]_vars

\* The execution plane, from cards that were approved.
ExecutionSpec == state = [c \in Cards |-> "approved"] /\ [][Execution]_vars

-----------------------------------------------------------------------------

\* Nothing executes from a stale card: a card that was blocked, expired,
\* invalidated or settled stays what it is, although the diagram has an edge
\* from Invalidated back to Draft, and authority is gained only by an opened
\* control.
EndIsFinal ==
    [][\A c \in Cards :
          /\ Ended(state[c]) => state'[c] = state[c]
          /\ StateHasAuthorized(state'[c]) /\ ~StateHasAuthorized(state[c]) =>
                state[c] = "awaiting_confirmation" /\ state'[c] = "approved"]_vars
=============================================================================
