------------------------ MODULE MCConversationEvents ------------------------
(* A small instance of the event feed. *)
EXTENDS ConversationEvents, TLC

CONSTANTS c1, c2, w1, w2

TwoConversations == {c1, c2}
TwoWorkers == {w1, w2}

\* Two replicas, one of which may crash, on one conversation of two events and
\* the one of its deletion.
TwoReplicas ==
    /\ conv[c2] = "absent"
    /\ sequence[c1] <= IF conv[c1] = "deleted" THEN 3 ELSE 2

\* One replica, without failures, on two conversations that may be merged.
TwoConversationsMerged ==
    /\ crashes = 0 /\ lapsed = {} /\ delayed = {}
    /\ todo[w2] = {} /\ job[w2] = Resting
    /\ \A e \in Events : holder[e] # {w2} /\ <<w2, e>> \notin wire
    /\ sequence[c1] + sequence[c2] <= 6
    /\ sequence[c2] <= 2 \/ \E c \in Convs : conv[c] = "merged"

Bound == TwoReplicas \/ TwoConversationsMerged
=============================================================================
