---------------------------- MODULE AttachmentStore ----------------------------
(***************************************************************************)
(* Attachments and their objects in the bucket (lib/attachments,           *)
(* routes/attachments/v2 and the delete trigger of the attachments         *)
(* migration).  A client uploads an object and a later send claims it for  *)
(* its message; an inbound message records pending attachments whose bytes *)
(* the ingest runtime copies into the bucket; every deleted row leaves a   *)
(* tombstone, and the reaper deletes the tombstone's object.  The bucket   *)
(* and the database share no transaction: each step below is one statement *)
(* or one request, and any other step may come between two of them.        *)
(*                                                                         *)
(* A row and its object have one identity, since storage keys are unique   *)
(* and never reused.  A conversation is represented by one message.  A     *)
(* request to the bucket has taken effect, or never will, when its caller  *)
(* gets an answer or gives up.                                             *)
(***************************************************************************)
EXTENDS Naturals

CONSTANTS
    Uploads,     \* attachments that clients upload
    Inbound,     \* attachments of inbound messages
    Messages,
    NoMessage,   \* message_id = NULL
    Workers,     \* replicas with a running ingest runtime
    Reapers,     \* replicas with a running reaper runtime
    Nobody,      \* lease_token = NULL
    MaxAttempts, \* MAX_ATTEMPTS of the ingest runtime
    MaxCrashes   \* bound on the number of crashes

ASSUME AttachmentBounds == MaxAttempts \in Nat \ {0} /\ MaxCrashes \in Nat
ASSUME AttachmentNames ==
    /\ Uploads \intersect Inbound = {}
    /\ Workers \intersect Reapers = {}
    /\ NoMessage \notin Messages
    /\ Nobody \notin Workers \union Reapers

Attachments == Uploads \union Inbound
Runtimes == Workers \union Reapers

VARIABLES
    row,       \* email_attachments.state, or that there is no row (yet)
    owner,     \* email_attachments.message_id
    message,   \* the message's row: none, exists, deleted
    asked,     \* the uploads a message was sent with
    upload,    \* the upload request of an attachment
    old,       \* uploads past UNREFERENCED_UPLOAD_TTL_MS
    lease,     \* lease and retry columns of email_attachments
    attempts,  \* attempt_count, up to MaxAttempts
    tomb,      \* attachments with a row in stored_object_tombstones
    tombLease, \* lease and retry columns of stored_object_tombstones
    object,    \* attachments with an object in the bucket
    todo,      \* what a runtime has claimed and not yet begun
    job,       \* what a runtime is working on
    crashes

sendVars == <<owner, message, asked>>
clientVars == <<upload, old>>
runtimeVars == <<todo, job>>
vars == <<row, sendVars, clientVars, lease, attempts, tomb, tombLease, object,
          runtimeVars, crashes>>

\* lapsed: lease_until <= now; delayed: next_attempt_at > now.
Free == [holder |-> Nobody, lapsed |-> FALSE, delayed |-> FALSE]

Leases == [holder : Runtimes \union {Nobody}, lapsed : BOOLEAN,
           delayed : BOOLEAN]

Resting == [stage |-> "resting"]

Jobs == {Resting} \union
        [stage : {"written", "lost", "failed", "tooLarge", "deleted"},
         attachment : Attachments]

TypeOK ==
    /\ row \in [Attachments ->
                  {"none", "pending", "stored", "failed", "deleted"}]
    /\ owner \in [Attachments -> Messages \union {NoMessage}]
    /\ message \in [Messages -> {"none", "exists", "deleted"}]
    /\ asked \in [Messages -> SUBSET Uploads]
    /\ upload \in [Uploads -> {"idle", "written", "unrecorded", "answered",
                               "abandoned"}]
    /\ old \subseteq Uploads
    /\ lease \in [Attachments -> Leases]
    /\ attempts \in [Attachments -> 0 .. MaxAttempts]
    /\ tomb \subseteq Attachments
    /\ tombLease \in [Attachments -> Leases]
    /\ object \subseteq Attachments
    /\ todo \in [Runtimes -> SUBSET Attachments]
    /\ job \in [Runtimes -> Jobs]
    /\ crashes \in 0 .. MaxCrashes

Init ==
    /\ row = [a \in Attachments |-> "none"]
    /\ owner = [a \in Attachments |-> NoMessage]
    /\ message = [m \in Messages |-> "none"]
    /\ asked = [m \in Messages |-> {}]
    /\ upload = [u \in Uploads |-> "idle"]
    /\ old = {}
    /\ lease = [a \in Attachments |-> Free]
    /\ attempts = [a \in Attachments |-> 0]
    /\ tomb = {}
    /\ tombLease = [a \in Attachments |-> Free]
    /\ object = {}
    /\ todo = [r \in Runtimes |-> {}]
    /\ job = [r \in Runtimes |-> Resting]
    /\ crashes = 0

\* Both ways to write a tombstone skip a key that already has one: the delete
\* trigger (ON CONFLICT DO NOTHING) and deleteStoredObject (skipDuplicates).
\* A new tombstone is due at once and leased to nobody, which is what
\* tombLease holds for an attachment without a tombstone.
Bury(A) == tomb' = tomb \union A

-----------------------------------------------------------------------------
(* POST /api/attachments/v2: the object first, the row second.             *)

PutUpload(u) ==
    /\ upload[u] = "idle"
    /\ upload' = [upload EXCEPT ![u] = "written"]
    /\ object' = object \union {u}
    /\ UNCHANGED <<row, sendVars, old, lease, attempts, tomb, tombLease,
                   runtimeVars, crashes>>

\* put throws, outside the try block: the request ends with the object
\* written or not.
PutUploadFails(u) ==
    /\ upload[u] = "idle"
    /\ upload' = [upload EXCEPT ![u] = "abandoned"]
    /\ object' \in {object, object \union {u}}
    /\ UNCHANGED <<row, sendVars, old, lease, attempts, tomb, tombLease,
                   runtimeVars, crashes>>

CreateRow(u) ==
    /\ upload[u] = "written"
    /\ upload' = [upload EXCEPT ![u] = "answered"]
    /\ row' = [row EXCEPT ![u] = "stored"]
    /\ UNCHANGED <<sendVars, old, lease, attempts, tomb, tombLease, object,
                   runtimeVars, crashes>>

CreateRowFails(u) ==
    /\ upload[u] = "written"
    /\ upload' = [upload EXCEPT ![u] = "unrecorded"]
    /\ UNCHANGED <<row, sendVars, old, lease, attempts, tomb, tombLease,
                   object, runtimeVars, crashes>>

\* Mutant: the failed insert leaves the object behind.
KeepUpload(u) ==
    /\ upload[u] = "unrecorded"
    /\ upload' = [upload EXCEPT ![u] = "answered"]
    /\ UNCHANGED <<row, sendVars, old, lease, attempts, tomb, tombLease,
                   object, runtimeVars, crashes>>

\* deleteStoredObject, before the error is rethrown.
DiscardUpload(u) ==
    /\ upload[u] = "unrecorded"
    /\ upload' = [upload EXCEPT ![u] = "answered"]
    /\ Bury({u})
    /\ UNCHANGED <<row, sendVars, old, lease, attempts, tombLease, object,
                   runtimeVars, crashes>>

\* The process dies between the object and its row.
UploadCrashes(u) ==
    /\ upload[u] \in {"written", "unrecorded"}
    /\ crashes < MaxCrashes
    /\ crashes' = crashes + 1
    /\ upload' = [upload EXCEPT ![u] = "abandoned"]
    /\ UNCHANGED <<row, sendVars, old, lease, attempts, tomb, tombLease,
                   object, runtimeVars>>

GrowsOld(u) ==
    /\ row[u] = "stored"
    /\ u \notin old
    /\ old' = old \union {u}
    /\ UNCHANGED <<row, sendVars, upload, lease, attempts, tomb, tombLease,
                   object, runtimeVars, crashes>>

-----------------------------------------------------------------------------
(* Transactions on messages.                                               *)

Unclaimed == {u \in Uploads : row[u] = "stored" /\ owner[u] = NoMessage}

\* claimAttachmentsForMessage in the transaction that creates the message: an
\* error rolls both back.
SendWith(m, refs) ==
    /\ message[m] = "none"
    /\ refs # {} /\ refs \subseteq Unclaimed
    /\ message' = [message EXCEPT ![m] = "exists"]
    /\ asked' = [asked EXCEPT ![m] = refs]
    /\ owner' = [a \in Attachments |-> IF a \in refs THEN m ELSE owner[a]]
    /\ UNCHANGED <<row, clientVars, lease, attempts, tomb, tombLease, object,
                   runtimeVars, crashes>>

\* projectInboundAttachments, with the projection of the inbound message.
Receive(m, A) ==
    /\ message[m] = "none"
    /\ A # {} /\ \A a \in A : row[a] = "none"
    /\ message' = [message EXCEPT ![m] = "exists"]
    /\ row' = [a \in Attachments |-> IF a \in A THEN "pending" ELSE row[a]]
    /\ owner' = [a \in Attachments |-> IF a \in A THEN m ELSE owner[a]]
    /\ UNCHANGED <<asked, clientVars, lease, attempts, tomb, tombLease, object,
                   runtimeVars, crashes>>

\* A deleted row takes its lease along.
DeleteRows(A) ==
    /\ row' = [a \in Attachments |-> IF a \in A THEN "deleted" ELSE row[a]]
    /\ lease' = [a \in Attachments |-> IF a \in A THEN Free ELSE lease[a]]

OwnedBy(m) == {a \in Attachments : owner[a] = m}

\* DELETE conversation: its messages and their attachments go by cascade, and
\* the trigger fires for each attachment.
Delete(m) ==
    /\ message[m] = "exists"
    /\ message' = [message EXCEPT ![m] = "deleted"]
    /\ DeleteRows(OwnedBy(m))
    /\ Bury(OwnedBy(m))
    /\ UNCHANGED <<owner, asked, clientVars, attempts, tombLease, object,
                   runtimeVars, crashes>>

-----------------------------------------------------------------------------
(* Leases, as both runtimes use them.                                      *)

Due(l) == ~l.delayed /\ (l.holder = Nobody \/ l.lapsed)

LeasedTo(r) == [holder |-> r, lapsed |-> FALSE, delayed |-> FALSE]

Idle(r) == todo[r] = {} /\ job[r] = Resting

Begin(r, a, stage) ==
    /\ job[r] = Resting
    /\ a \in todo[r]
    /\ todo' = [todo EXCEPT ![r] = @ \ {a}]
    /\ job' = [job EXCEPT ![r] = [stage |-> stage, attachment |-> a]]

In(r, stages) == job[r].stage \in stages

Continue(r, stage) ==
    job' = [job EXCEPT ![r].stage = stage]

\* Mutant: the runtime stays on the attachment it is done with.
FinishHalf(r) == job' = [job EXCEPT ![r].stage = "resting"]

Finish(r) == job' = [job EXCEPT ![r] = Resting]

Task(r) == job[r].attachment

\* Mutant: the update names the row but not the lease token.
OwnsRowAnyway(w) == row[Task(w)] = "pending" \/ row[Task(w)] = "stored"

\* WHERE lease_token = the token of this claim, for the row.
OwnsRow(w) == lease[Task(w)].holder = w

\* The same for the tombstone.
OwnsTomb(r) == tombLease[Task(r)].holder = r

-----------------------------------------------------------------------------
(* The ingest runtime.                                                     *)

\* Mutant: an attachment whose worker died is never picked up again.
PendingIfReleased ==
    {a \in Inbound : /\ row[a] = "pending"
                     /\ ~lease[a].delayed
                     /\ lease[a].holder = Nobody}

Pending == {a \in Inbound : row[a] = "pending" /\ Due(lease[a])}

Least(a, b) == IF a < b THEN a ELSE b

\* claimPendingAttachments: LIMIT and SKIP LOCKED may pass over some.
ClaimPending(w) ==
    /\ Idle(w)
    /\ \E A \in SUBSET Pending :
          /\ A # {}
          /\ todo' = [todo EXCEPT ![w] = A]
          /\ lease' = [a \in Attachments |->
                          IF a \in A THEN LeasedTo(w) ELSE lease[a]]
          /\ attempts' = [a \in Attachments |->
                          IF a \in A THEN Least(attempts[a] + 1, MaxAttempts)
                                     ELSE attempts[a]]
    /\ UNCHANGED <<row, sendVars, clientVars, tomb, tombLease, object, job,
                   crashes>>

\* The download ends and the put takes effect and is answered.
StoreObject(w, a) ==
    /\ Begin(w, a, "written")
    /\ object' = object \union {a}
    /\ UNCHANGED <<row, sendVars, clientVars, lease, attempts, tomb, tombLease,
                   crashes>>

\* The download or the put throws, the put perhaps after it took effect.
StoreFails(w, a) ==
    /\ Begin(w, a, "failed")
    /\ object' \in {object, object \union {a}}
    /\ UNCHANGED <<row, sendVars, clientVars, lease, attempts, tomb, tombLease,
                   crashes>>

TooLarge(w, a) ==
    /\ Begin(w, a, "tooLarge")
    /\ UNCHANGED <<row, sendVars, clientVars, lease, attempts, tomb, tombLease,
                   object, crashes>>

Record(w) ==
    /\ In(w, {"written"})
    /\ OwnsRow(w)
    /\ row' = [row EXCEPT ![Task(w)] = "stored"]
    /\ lease' = [lease EXCEPT ![Task(w)] = Free]
    /\ Finish(w)
    /\ UNCHANGED <<sendVars, clientVars, attempts, tomb, tombLease, object,
                   todo, crashes>>

\* updated.count = 0.
RecordLost(w) ==
    /\ In(w, {"written"})
    /\ ~OwnsRow(w)
    /\ Continue(w, "lost")
    /\ UNCHANGED <<row, sendVars, clientVars, lease, attempts, tomb, tombLease,
                   object, todo, crashes>>

RecordFails(w) ==
    /\ In(w, {"written", "lost"})
    /\ Continue(w, "failed")
    /\ UNCHANGED <<row, sendVars, clientVars, lease, attempts, tomb, tombLease,
                   object, todo, crashes>>

\* deleteStoredObject of the key, which the row keeps.  The error thrown next
\* reaches failAttachment, which no longer finds its lease.
DiscardCopy(w) ==
    /\ In(w, {"lost"})
    /\ Bury({Task(w)})
    /\ Finish(w)
    /\ UNCHANGED <<row, sendVars, clientVars, lease, attempts, tombLease,
                   object, todo, crashes>>

Terminal(w) == job[w].stage = "tooLarge" \/ attempts[Task(w)] = MaxAttempts

\* failAttachment: both updates are conditional on the lease.
Fail(w) ==
    /\ In(w, {"failed", "tooLarge"})
    /\ IF OwnsRow(w)
         THEN /\ row' = IF Terminal(w)
                          THEN [row EXCEPT ![Task(w)] = "failed"] ELSE row
              /\ lease' = [lease EXCEPT ![Task(w)] =
                             [Free EXCEPT !.delayed = ~Terminal(w)]]
         ELSE UNCHANGED <<row, lease>>
    /\ Finish(w)
    /\ UNCHANGED <<sendVars, clientVars, attempts, tomb, tombLease, object,
                   todo, crashes>>

-----------------------------------------------------------------------------
(* The reaper runtime.                                                     *)

\* Mutant: the expiry forgets messageId: null.
ExpiredOrClaimed == {u \in old : row[u] = "stored"}

Expired == {u \in old : row[u] = "stored" /\ owner[u] = NoMessage}

\* expireUnreferencedUploads, at the start of a drain.
Expire(r) ==
    /\ Idle(r)
    /\ Expired # {}
    /\ DeleteRows(Expired)
    /\ Bury(Expired)
    /\ UNCHANGED <<sendVars, clientVars, attempts, tombLease, object,
                   runtimeVars, crashes>>

\* Mutant: a tombstone whose reaper died is never picked up again.
TombsIfReleased ==
    {a \in tomb : ~tombLease[a].delayed /\ tombLease[a].holder = Nobody}

Tombs == {a \in tomb : Due(tombLease[a])}

\* claimTombstones.
ClaimTombs(r) ==
    /\ Idle(r)
    /\ \E A \in SUBSET Tombs :
          /\ A # {}
          /\ todo' = [todo EXCEPT ![r] = A]
          /\ tombLease' = [a \in Attachments |->
                              IF a \in A THEN LeasedTo(r) ELSE tombLease[a]]
    /\ UNCHANGED <<row, sendVars, clientVars, lease, attempts, tomb, object,
                   job, crashes>>

\* Deleting an object that is not there is a success, or an error the reaper
\* takes for one.
DeleteObject(r, a) ==
    /\ Begin(r, a, "deleted")
    /\ object' = object \ {a}
    /\ UNCHANGED <<row, sendVars, clientVars, lease, attempts, tomb, tombLease,
                   crashes>>

DeleteObjectFails(r, a) ==
    /\ Begin(r, a, "failed")
    /\ object' \in {object, object \ {a}}
    /\ UNCHANGED <<row, sendVars, clientVars, lease, attempts, tomb, tombLease,
                   crashes>>

Forget(r) ==
    /\ In(r, {"deleted"})
    /\ tomb' = IF OwnsTomb(r) THEN tomb \ {Task(r)} ELSE tomb
    /\ tombLease' = IF OwnsTomb(r)
                      THEN [tombLease EXCEPT ![Task(r)] = Free] ELSE tombLease
    /\ Finish(r)
    /\ UNCHANGED <<row, sendVars, clientVars, lease, attempts, object, todo,
                   crashes>>

\* A database error lands in the catch of a failed delete.
ForgetFails(r) ==
    /\ In(r, {"deleted"})
    /\ Continue(r, "failed")
    /\ UNCHANGED <<row, sendVars, clientVars, lease, attempts, tomb, tombLease,
                   object, todo, crashes>>

\* retryTombstone.
RetryTomb(r) ==
    /\ In(r, {"failed"})
    /\ tombLease' = IF OwnsTomb(r)
                      THEN [tombLease EXCEPT ![Task(r)] =
                              [Free EXCEPT !.delayed = TRUE]]
                      ELSE tombLease
    /\ Finish(r)
    /\ UNCHANGED <<row, sendVars, clientVars, lease, attempts, tomb, object,
                   todo, crashes>>

-----------------------------------------------------------------------------
(* Crashes and the clock.                                                  *)

\* A runtime dies, or an update in its error path throws and ends the drain:
\* what it had claimed stays leased.  A copy in progress may get written.
RuntimeCrashes(r) ==
    /\ ~Idle(r)
    /\ crashes < MaxCrashes
    /\ crashes' = crashes + 1
    /\ todo' = [todo EXCEPT ![r] = {}]
    /\ Finish(r)
    /\ \/ UNCHANGED object
       \/ /\ r \in Workers
          /\ \E a \in todo[r] : object' = object \union {a}
       \/ /\ r \in Reapers
          /\ \E a \in todo[r] : object' = object \ {a}
    /\ UNCHANGED <<row, sendVars, clientVars, lease, attempts, tomb, tombLease>>

Held(l) == l.holder # Nobody /\ ~l.lapsed

LeaseLapses(a) ==
    \/ /\ Held(lease[a])
       /\ lease' = [lease EXCEPT ![a].lapsed = TRUE]
       /\ UNCHANGED <<row, sendVars, clientVars, attempts, tomb, tombLease,
                      object, runtimeVars, crashes>>
    \/ /\ Held(tombLease[a])
       /\ tombLease' = [tombLease EXCEPT ![a].lapsed = TRUE]
       /\ UNCHANGED <<row, sendVars, clientVars, lease, attempts, tomb, object,
                      runtimeVars, crashes>>

RetryComesDue(a) ==
    \/ /\ lease[a].delayed
       /\ lease' = [lease EXCEPT ![a].delayed = FALSE]
       /\ UNCHANGED <<row, sendVars, clientVars, attempts, tomb, tombLease,
                      object, runtimeVars, crashes>>
    \/ /\ tombLease[a].delayed
       /\ tombLease' = [tombLease EXCEPT ![a].delayed = FALSE]
       /\ UNCHANGED <<row, sendVars, clientVars, lease, attempts, tomb, object,
                      runtimeVars, crashes>>

UploadRequest(u) ==
    \/ PutUpload(u) \/ PutUploadFails(u)
    \/ CreateRow(u) \/ CreateRowFails(u) \/ DiscardUpload(u)

Ingest(w) ==
    \/ ClaimPending(w)
    \/ \E a \in Inbound : StoreObject(w, a) \/ StoreFails(w, a) \/ TooLarge(w, a)
    \/ Record(w) \/ RecordLost(w) \/ RecordFails(w)
    \/ DiscardCopy(w)
    \/ Fail(w)

Reap(r) ==
    \/ Expire(r)
    \/ ClaimTombs(r)
    \/ \E a \in Attachments : DeleteObject(r, a) \/ DeleteObjectFails(r, a)
    \/ Forget(r) \/ ForgetFails(r)
    \/ RetryTomb(r)

Next ==
    \/ \E u \in Uploads : UploadRequest(u) \/ UploadCrashes(u) \/ GrowsOld(u)
    \/ \E m \in Messages, refs \in SUBSET Uploads : SendWith(m, refs)
    \/ \E m \in Messages, A \in SUBSET Inbound : Receive(m, A)
    \/ \E m \in Messages : Delete(m)
    \/ \E w \in Workers : Ingest(w)
    \/ \E r \in Reapers : Reap(r)
    \/ \E r \in Runtimes : RuntimeCrashes(r)
    \/ \E a \in Attachments : LeaseLapses(a) \/ RetryComesDue(a)

Spec == Init /\ [][Next]_vars

\* Both timers keep draining, the clock advances, and an upload request runs to
\* its end.  The bucket carries out a request that is made again and again, and
\* a runtime is not outrun by the clock every time.
Fairness ==
    /\ \A u \in Uploads :
          WF_vars(CreateRow(u) \/ CreateRowFails(u) \/ DiscardUpload(u))
    /\ \A w \in Workers :
          /\ WF_vars(Ingest(w))
          /\ SF_vars(Record(w))
          /\ SF_vars(\E a \in Inbound :
                        lease[a].holder = w /\ StoreObject(w, a))
    /\ \A r \in Reapers :
          /\ WF_vars(Reap(r))
          /\ SF_vars(\E a \in Attachments :
                        tombLease[a].holder = r /\ DeleteObject(r, a))
          /\ SF_vars(Forget(r) /\ OwnsTomb(r))
    /\ \A a \in Attachments : WF_vars(LeaseLapses(a)) /\ WF_vars(RetryComesDue(a))

FairSpec == Spec /\ Fairness

-----------------------------------------------------------------------------
(* Properties.                                                             *)

\* A message that exists has every upload it was sent with: bound to it,
\* stored, and with its object in the bucket, whatever other sends, expiries
\* and reapers do.
MessageComplete ==
    \A m \in Messages : message[m] = "exists" =>
        \A u \in asked[m] : owner[u] = m /\ row[u] = "stored" /\ u \in object

\* docs/api-consumer-guide.md: an inbound attachment becomes stored once the
\* copy completes.  A stored attachment has its object.
StoredHasObject == \A a \in Attachments : row[a] = "stored" => a \in object

\* A stored attachment is never reopened or failed by a slower worker.
StoredStays ==
    [][\A a \in Attachments :
          row[a] = "stored" => row'[a] \in {"stored", "deleted"}]_vars

\* An uploaded object has a row, a tombstone or a request that will write one,
\* unless the request was cut off between the object and its row.
UploadAccounted ==
    \A u \in Uploads \intersect object :
        \/ row[u] = "stored" \/ u \in tomb
        \/ upload[u] \in {"written", "unrecorded", "abandoned"}

\* Once an upload's row is gone its object goes too, and for good.
UploadsReaped == \A u \in Uploads : row[u] = "deleted" ~> [](u \notin object)

\* Every inbound attachment is stored, failed or deleted in the end.
PendingSettles == \A a \in Inbound : row[a] = "pending" ~> row[a] # "pending"
=============================================================================
