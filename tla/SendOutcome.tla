---------------------------- MODULE SendOutcome ----------------------------
(***************************************************************************)
(* What a queued send promises its caller, whatever lane carries it: the   *)
(* provider mails a message at most once, the message gets one outcome and *)
(* keeps it, and the outcome ACCEPTED is only recorded for a message that  *)
(* was mailed.  FAILED and INDETERMINATE say nothing about the mail.       *)
(***************************************************************************)
EXTENDS Naturals

CONSTANT Msgs   \* the outbound messages

VARIABLES
    outcome,    \* email_messages.state, with ABSENT and DELETED for no row
    mails       \* how many emails the provider sent for each message

vars == <<outcome, mails>>

Outcomes == {"ABSENT", "PENDING", "ACCEPTED", "FAILED", "INDETERMINATE", "DELETED"}

TypeOK ==
    /\ outcome \in [Msgs -> Outcomes]
    /\ mails \in [Msgs -> Nat]

Init ==
    /\ outcome = [m \in Msgs |-> "ABSENT"]
    /\ mails = [m \in Msgs |-> 0]

Accept(m) ==
    /\ outcome[m] = "ABSENT"
    /\ outcome' = [outcome EXCEPT ![m] = "PENDING"]
    /\ UNCHANGED mails

\* The provider mails some messages of one request, none of them again.
Mail(S) ==
    /\ \A m \in S : outcome[m] # "ABSENT" /\ mails[m] = 0
    /\ mails' = [m \in Msgs |-> IF m \in S THEN 1 ELSE mails[m]]
    /\ UNCHANGED outcome

Settle(S, o) ==
    /\ \A m \in S : outcome[m] = "PENDING"
    /\ o = "ACCEPTED" => \A m \in S : mails[m] = 1
    /\ outcome' = [m \in Msgs |-> IF m \in S THEN o ELSE outcome[m]]
    /\ UNCHANGED mails

Delete(S) ==
    /\ outcome' = [m \in Msgs |-> IF m \in S THEN "DELETED" ELSE outcome[m]]
    /\ UNCHANGED mails

Next ==
    \/ \E m \in Msgs : Accept(m)
    \/ \E S \in SUBSET Msgs :
          \/ Mail(S)
          \/ \E o \in {"ACCEPTED", "FAILED", "INDETERMINATE"} : Settle(S, o)
          \/ Delete(S)

Spec == Init /\ [][Next]_vars
=============================================================================
