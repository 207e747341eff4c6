------------------------- MODULE MCAttachmentOutbox -------------------------
(* Small instances of the attachment lane. *)
EXTENDS AttachmentOutbox, TLC

CONSTANTS m1, w1, w2

OneMessage == {m1}
OneWorker == {w1}
TwoWorkers == {w1, w2}
=============================================================================
