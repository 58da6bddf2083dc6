----------------------------- MODULE WriteLedger -----------------------------
(***************************************************************************)
(* What the execution plane promises the seller about one action, without  *)
(* callers, cards, crashes or jobs: the action is claimed or parked once;  *)
(* only a claimed action is ever sent to the marketplace, and once; and it *)
(* settles once.  ActionExecution implements it.                           *)
(***************************************************************************)
CONSTANT Actions

VARIABLES
    ledger,     \* what is recorded about the action
    sent        \* has a price write left for the marketplace?

vars == <<ledger, sent>>

LedgerStates == {"none", "parked", "closed", "claimed",
                 "accepted", "rejected", "failed"}

Init ==
    /\ ledger = [a \in Actions |-> "none"]
    /\ sent = [a \in Actions |-> FALSE]

\* The idempotency key is claimed, before any write.
Claim(a) ==
    /\ ledger[a] = "none"
    /\ ledger' = [ledger EXCEPT ![a] = "claimed"]
    /\ UNCHANGED sent

\* The action is parked without a write.
Park(a) ==
    /\ ledger[a] = "none"
    /\ ledger' = [ledger EXCEPT ![a] = "parked"]
    /\ UNCHANGED sent

\* The one write.  It may leave after the record was settled by an
\* authoritative read-back, never without a claim.
Send(a) ==
    /\ ledger[a] \in {"claimed", "accepted", "failed"}
    /\ ~sent[a]
    /\ sent' = [sent EXCEPT ![a] = TRUE]
    /\ UNCHANGED ledger

\* A claimed action gets its result - a rejection only from the marketplace;
\* a parked one can only be closed as failed.
Settle(a, result) ==
    /\ \/ ledger[a] = "claimed" /\ result \in {"accepted", "failed"}
       \/ ledger[a] = "claimed" /\ result = "rejected" /\ sent[a]
       \/ ledger[a] = "parked" /\ result = "closed"
    /\ ledger' = [ledger EXCEPT ![a] = result]
    /\ UNCHANGED sent

Next == \E a \in Actions :
    \/ Claim(a) \/ Park(a) \/ Send(a)
    \/ \E r \in LedgerStates : Settle(a, r)

Spec == Init /\ [][Next]_vars
=============================================================================
