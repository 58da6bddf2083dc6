----------------------------- MODULE MailContract -----------------------------
(***************************************************************************)
(* What the mail channels of services/core/internal/notify promise of one  *)
(* message, without jobs, attempts, claims or database failures: a message *)
(* that is owed is settled once and for good, a delivered one was mailed,  *)
(* nothing is mailed after it settled, and monitoring hears of it once,    *)
(* when it has.  An urgent mail may be repeated until it settles, and so   *)
(* UrgentDelivery implements Spec; the daily digest may not, and is given  *)
(* up only if it was not mailed: DigestDelivery implements OnceSpec.       *)
(***************************************************************************)
EXTENDS Naturals

CONSTANT Messages

VARIABLES
    outcome,    \* "none" before the message is owed, then "open", then settled
    mails,      \* how many the relay accepted
    announced   \* the outcomes monitoring was told

vars == <<outcome, mails, announced>>

Outcomes == {"delivered", "skipped", "unconfirmed", "dead_letter"}

Init ==
    /\ outcome = [m \in Messages |-> "none"]
    /\ mails = [m \in Messages |-> 0]
    /\ announced = [m \in Messages |-> {}]

\* The row is opened.
Open(m) ==
    /\ outcome[m] = "none"
    /\ outcome' = [outcome EXCEPT ![m] = "open"]
    /\ UNCHANGED <<mails, announced>>

\* The relay accepts the message, whether or not its verdict arrives.
Send(m) ==
    /\ outcome[m] = "open"
    /\ mails' = [mails EXCEPT ![m] = @ + 1]
    /\ UNCHANGED <<outcome, announced>>

\* The terminal write; a failed one that landed is never announced.
Settle(m, o) ==
    /\ outcome[m] = "open"
    /\ o = "delivered" => mails[m] > 0
    /\ outcome' = [outcome EXCEPT ![m] = o]
    /\ announced' \in {announced, [announced EXCEPT ![m] = {o}]}
    /\ UNCHANGED mails

\* The urgent dispatcher announces a dead letter after the write.
Announce(m) ==
    /\ outcome[m] \in Outcomes /\ announced[m] = {}
    /\ announced' = [announced EXCEPT ![m] = {outcome[m]}]
    /\ UNCHANGED <<outcome, mails>>

Next == \E m \in Messages :
    \/ Open(m) \/ Send(m) \/ Announce(m)
    \/ \E o \in Outcomes : Settle(m, o)

Spec == Init /\ [][Next]_vars

\* Zero resend, and no digest is skipped or dead-lettered that was mailed.
SendOnce(m) == mails[m] = 0 /\ Send(m)
GiveUpUnsent(m, o) == (o \in {"skipped", "dead_letter"} => mails[m] = 0) /\ Settle(m, o)

OnceNext == \E m \in Messages :
    \/ Open(m) \/ SendOnce(m)
    \/ \E o \in Outcomes : GiveUpUnsent(m, o)

OnceSpec == Init /\ [][OnceNext]_vars
=============================================================================
