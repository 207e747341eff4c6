-------------------------- MODULE MCAttachmentStore --------------------------
(* Small instances of the attachment store. *)
EXTENDS AttachmentStore, TLC

CONSTANTS u1, u2, i1, m1, m2, w1, w2, r1

None == {}
TwoUploads == {u1, u2}
OneInbound == {i1}
OneMessage == {m1}
TwoMessages == {m1, m2}
TwoWorkers == {w1, w2}
OneReaper == {r1}

\* Two uploads that two sends may claim, or one message received with an
\* attachment: the two kinds meet only in the reaper.
Bound ==
    \/ \A i \in Inbound : row[i] = "none"
    \/ message[m2] = "none" /\ \A u \in Uploads : upload[u] = "idle"
=============================================================================
