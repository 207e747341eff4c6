--------------------------- MODULE MCSendRequests ---------------------------
(* Small instances of the send endpoints. *)
EXTENDS SendRequests, TLC

CONSTANTS m1, m2, m3, k1, k2, k3, r1, r2, t1

ThreeMessages == {m1, m2, m3}
ThreeKeys == {k1, k2, k3}
TwoRequests == {r1, r2}
OneTopic == {t1}

Symmetry ==
    Permutations(Msgs) \union Permutations(Requests) \union Permutations(Keys)

QueuedOpening == [kind |-> "opening", on |-> t1, lane |-> "outbox"]

Admitted == {r \in Requests : request[r].pc # "idle"}
Stored == {m \in Msgs : state[m] # "ABSENT"}
UsedKeys == {keyOf[m] : m \in Stored} \union {request[r].key : r \in Admitted}
UsedBodies == {bodyOf[m] : m \in Stored} \union {request[r].body : r \in Admitted}

\* One synchronous message.  The third message and key are for openings that
\* race through the outbox lane to reopen a conversation.
Bound ==
    /\ Cardinality({m \in Stored : bodyOf[m].lane = "sync"}) <= 1
    /\ \/ Cardinality(Stored) <= 2 /\ Cardinality(UsedKeys) <= 2
       \/ UsedBodies = {QueuedOpening} /\ \A m \in Stored : state[m] # "DELETED"
=============================================================================
