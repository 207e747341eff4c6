--------------------------- MODULE MCOutboxDrain ---------------------------
(* Values of OutboxDrain's constants for TLC.                              *)
EXTENDS OutboxDrain, TLC

CONSTANTS m1, c1, a1

OneConv == m1 :> c1

Requesters == Workers \ Scheduled
\* The two lanes are exercised apart from requests: a message with attachments
\* is queued only while nothing of a request is left.
Bound ==
    \/ \A a \in Parcels : parcel[a] = "absent"
    \/ /\ \A w \in Requesters : job[w].pc = "idle"
       /\ \A r \in wire : r.worker \notin Requesters
       /\ \A b \in Batches : holder[b] \intersect Requesters = {}
=============================================================================
