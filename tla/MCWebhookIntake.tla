-------------------------- MODULE MCWebhookIntake --------------------------
(* Constants for WebhookIntake.                                            *)
EXTENDS WebhookIntake, TLC

CONSTANTS a, b, h1, h2

TwoReplies == {a, b}
TwoHandlers == {h1, h2}

\* The first reply answers the oldest sent email, the second one the first.
Chain == (a :> {1}) @@ (b :> {1, a})
ChainParent == (a :> 1) @@ (b :> a)

\* One failure or one deletion, apart from the refusals of the handler itself.
Bound ==
    failures + Cardinality(gone) + Cardinality({s \in Sent : sent[s] = "gone"}) <= 1
=============================================================================
