------------------------- MODULE MCConversationState -------------------------
(* Small instances of conversation and delivery states. *)
EXTENDS ConversationState, TLC

CONSTANTS c1, c2, m1, m2, w1, w2

TwoConvs == {c1, c2}
TwoMessages == {m1, m2}
TwoWorkers == {w1, w2}

Symmetry ==
    Permutations(Convs) \union Permutations(Msgs) \union Permutations(Workers)

\* Two delivery events, of one email.
Bound == \E m \in Msgs : \A n \in Msgs : Len(emitted[n]) <= IF n = m THEN 2 ELSE 0
=============================================================================
