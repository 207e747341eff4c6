------------------------ MODULE AttachmentStoreProofs ------------------------
(***************************************************************************)
(* Proofs about attachments and their objects, for any uploads, messages,  *)
(* workers and reapers.                                                    *)
(***************************************************************************)
EXTENDS AttachmentStore, TLAPS

-----------------------------------------------------------------------------
(* The inductive invariant.                                                *)

\* No row of the upload is there, nor will be: nothing needs its object.
Dead(u) == row[u] = "deleted" \/ (row[u] = "none" /\ upload[u] = "answered")

\* An upload has a row only after its request made one, a message only with a
\* row, and an object at least from then on.
UploadInv ==
    \A u \in Uploads :
        /\ row[u] \in {"none", "stored", "deleted"}
        /\ row[u] # "none" => upload[u] = "answered"
        /\ row[u] = "none" => owner[u] = NoMessage
        /\ upload[u] = "written" \/ row[u] = "stored" => u \in object

\* Tombstones and reapers are after dead uploads only.
ReaperInv ==
    \A u \in Uploads :
        /\ u \in tomb => Dead(u)
        /\ \A r \in Reapers :
              /\ u \in todo[r] => Dead(u)
              /\ job[r] # Resting /\ job[r].attachment = u =>
                    Dead(u) /\ (job[r].stage = "deleted" => u \notin object)

\* The ingest runtimes never touch an upload.
WorkerInv ==
    \A w \in Workers :
        todo[w] \subseteq Inbound /\ (job[w] # Resting => job[w].attachment \in Inbound)

\* Only a pending row is leased.
LeaseInv == \A a \in Attachments : lease[a].holder # Nobody => row[a] = "pending"

AskedInv == \A m \in Messages : message[m] = "none" => asked[m] = {}

IInv ==
    /\ TypeOK
    /\ UploadInv
    /\ ReaperInv
    /\ WorkerInv
    /\ LeaseInv
    /\ AskedInv
    /\ MessageComplete
    /\ UploadAccounted

\* What the action property StoredStays says of a step.
StoredKept ==
    \A a \in Attachments : row[a] = "stored" => row'[a] \in {"stored", "deleted"}

-----------------------------------------------------------------------------
(* Names and records.                                                      *)

LEMMA Names ==
    /\ NoMessage \notin Messages /\ Nobody \notin Runtimes
    /\ Attachments = Uploads \union Inbound /\ Uploads \intersect Inbound = {}
    /\ Runtimes = Workers \union Reapers /\ Workers \intersect Reapers = {}
BY AttachmentNames DEF Attachments, Runtimes

\* A runtime in a stage other than resting is at an attachment.
LEMMA AtWork ==
    ASSUME TypeOK, NEW r \in Runtimes, job[r].stage # "resting"
    PROVE  /\ job[r] # Resting /\ Task(r) \in Attachments
           /\ \A s : [job[r] EXCEPT !.stage = s] = [stage |-> s, attachment |-> Task(r)]
<1>1. job[r] \in Jobs /\ job[r] # Resting
  BY DEF TypeOK, Resting
<1> QED
  BY <1>1 DEF Jobs, Task

LEMMA LeaseTypes ==
    /\ Free \in Leases /\ Free.holder = Nobody
    /\ \A b \in BOOLEAN : /\ [Free EXCEPT !.delayed = b] \in Leases
           /\ [Free EXCEPT !.delayed = b].holder = Nobody
    /\ \A r \in Runtimes : LeasedTo(r) \in Leases
    /\ \A l \in Leases, b \in BOOLEAN :
          /\ [l EXCEPT !.lapsed = b] \in Leases /\ [l EXCEPT !.lapsed = b].holder = l.holder
          /\ [l EXCEPT !.delayed = b] \in Leases /\ [l EXCEPT !.delayed = b].holder = l.holder
BY DEF Free, Leases, LeasedTo, Runtimes

LEMMA Resumed ==
    ASSUME TypeOK, NEW r \in Runtimes, NEW s \in {"lost", "failed"},
           job[r].stage # "resting", Continue(r, s)
    PROVE  /\ job' \in [Runtimes -> Jobs]
           /\ job[r] # Resting /\ job'[r] # Resting
           /\ job'[r].attachment = job[r].attachment /\ job'[r].stage = s
           /\ \A q \in Runtimes : q # r => job'[q] = job[q]
<1>1. job \in [Runtimes -> Jobs] /\ job' = [job EXCEPT ![r] = [@ EXCEPT !.stage = s]]
  BY DEF TypeOK, Continue
<1>2. /\ job[r] # Resting
      /\ [job[r] EXCEPT !.stage = s] = [stage |-> s, attachment |-> Task(r)]
  BY AtWork
<1>3. [stage |-> s, attachment |-> Task(r)] \in Jobs
  BY AtWork DEF Jobs
<1>4. [stage |-> s, attachment |-> Task(r)] # Resting
  BY DEF Resting
<1>5. job'[r] = [stage |-> s, attachment |-> Task(r)]
  BY <1>1, <1>2
<1> QED
  BY <1>1, <1>2, <1>3, <1>4, <1>5 DEF Task

LEMMA Finished ==
    ASSUME TypeOK, NEW r \in Runtimes, Finish(r)
    PROVE  /\ job' \in [Runtimes -> Jobs] /\ job'[r] = Resting
           /\ \A q \in Runtimes : q # r => job'[q] = job[q]
BY DEF TypeOK, Finish, Jobs

LEMMA Begun ==
    ASSUME TypeOK, NEW r \in Runtimes, NEW a \in Attachments,
           NEW s \in {"written", "failed", "tooLarge", "deleted"}, Begin(r, a, s)
    PROVE  /\ job' \in [Runtimes -> Jobs] /\ todo' \in [Runtimes -> SUBSET Attachments]
           /\ a \in todo[r] /\ todo'[r] \subseteq todo[r]
           /\ job'[r] # Resting /\ job'[r].attachment = a /\ job'[r].stage = s
           /\ \A q \in Runtimes : q # r => job'[q] = job[q] /\ todo'[q] = todo[q]
<1> DEFINE new == [stage |-> s, attachment |-> a]
<1>1. new \in Jobs /\ new # Resting /\ new.stage = s /\ new.attachment = a
  BY DEF Jobs, Resting
<1> HIDE DEF new
<1>2. /\ job \in [Runtimes -> Jobs] /\ todo \in [Runtimes -> SUBSET Attachments]
      /\ job' = [job EXCEPT ![r] = new] /\ todo' = [todo EXCEPT ![r] = @ \ {a}]
      /\ a \in todo[r]
  BY DEF TypeOK, Begin, new
<1> QED
  BY <1>1, <1>2

\* A step that leaves the uploads and the messages alone, but for the objects of
\* dead uploads.
Untouched ==
    /\ UNCHANGED <<message, asked>>
    /\ \A u \in Uploads :
          /\ row'[u] = row[u] /\ owner'[u] = owner[u]
          /\ upload'[u] = upload[u]
          /\ u \in tomb' <=> u \in tomb
          /\ u \in object' => u \in object
          /\ u \in object /\ u \notin object' => Dead(u)

LEMMA UntouchedKeeps ==
    ASSUME IInv, Untouched
    PROVE  /\ UploadInv' /\ AskedInv' /\ MessageComplete' /\ UploadAccounted'
           /\ \A u \in Uploads : Dead(u)' = Dead(u)
<1>1. \A u \in Uploads :
          /\ row'[u] = row[u] /\ owner'[u] = owner[u]
          /\ upload'[u] = upload[u]
          /\ u \in tomb' <=> u \in tomb
          /\ u \in object' => u \in object
          /\ u \in object /\ u \notin object' => Dead(u)
  BY DEF Untouched
<1>2. UploadInv' /\ UploadAccounted'
  BY <1>1 DEF IInv, UploadInv, UploadAccounted, Dead
<1>3. AskedInv'
  BY DEF IInv, Untouched, AskedInv
<1>4. MessageComplete'
  <2>1. \A m \in Messages : asked[m] \subseteq Uploads
    BY DEF IInv, TypeOK
  <2> QED
    BY <1>1, <2>1 DEF IInv, Untouched, MessageComplete, UploadInv, Dead
<1>5. \A u \in Uploads : Dead(u)' = Dead(u)
  BY <1>1 DEF Dead
<1> QED
  BY <1>2, <1>3, <1>4, <1>5

\* What r works on it had claimed or was working on before.
WorksOn(r) ==
    /\ job' \in [Runtimes -> Jobs] /\ todo' \in [Runtimes -> SUBSET Attachments]
    /\ \A q \in Runtimes : q # r => job'[q] = job[q] /\ todo'[q] = todo[q]
    /\ todo'[r] \subseteq todo[r]
    /\ job'[r] # Resting => \/ job'[r].attachment \in todo[r]
                            \/ job[r] # Resting /\ job'[r].attachment = job[r].attachment

LEMMA RuntimeKeeps ==
    ASSUME IInv, Untouched, NEW r \in Runtimes, WorksOn(r),
           \A u \in Uploads :
              r \in Reapers /\ job'[r] # Resting /\ job'[r].attachment = u
              /\ job'[r].stage = "deleted" => u \notin object'
    PROVE  /\ UploadInv' /\ AskedInv' /\ MessageComplete' /\ UploadAccounted'
           /\ WorkerInv' /\ ReaperInv'
<1>1. /\ UploadInv' /\ AskedInv' /\ MessageComplete' /\ UploadAccounted'
      /\ \A u \in Uploads : Dead(u)' = Dead(u)
  BY UntouchedKeeps
<1>2. WorkerInv'
  <2> SUFFICES ASSUME NEW w \in Workers
               PROVE  /\ todo'[w] \subseteq Inbound
                      /\ job'[w] # Resting => job'[w].attachment \in Inbound
    BY DEF WorkerInv
  <2>1. todo[w] \subseteq Inbound /\ (job[w] # Resting => job[w].attachment \in Inbound)
    BY DEF IInv, WorkerInv
  <2> QED
    BY <2>1, Names DEF WorksOn
<1>3. ReaperInv'
  <2> SUFFICES ASSUME NEW u \in Uploads
               PROVE  /\ u \in tomb' => Dead(u)
                      /\ \A q \in Reapers :
                            /\ u \in todo'[q] => Dead(u)
                            /\ job'[q] # Resting /\ job'[q].attachment = u =>
                                  Dead(u) /\ (job'[q].stage = "deleted" => u \notin object')
    BY <1>1 DEF ReaperInv
  <2>1. /\ u \in tomb' <=> u \in tomb
        /\ u \in object' => u \in object
    BY DEF Untouched
  <2>2. u \in tomb => Dead(u)
    BY DEF IInv, ReaperInv
  <2>3. ASSUME NEW q \in Reapers
        PROVE  /\ u \in todo'[q] => Dead(u)
               /\ job'[q] # Resting /\ job'[q].attachment = u =>
                     Dead(u) /\ (job'[q].stage = "deleted" => u \notin object')
    <3>1. /\ u \in todo[q] => Dead(u)
          /\ job[q] # Resting /\ job[q].attachment = u =>
                Dead(u) /\ (job[q].stage = "deleted" => u \notin object)
      BY DEF IInv, ReaperInv
    <3>2. q \in Runtimes
      BY Names
    <3> QED
      BY <2>1, <3>1, <3>2 DEF WorksOn
  <2> QED
    BY <2>1, <2>2, <2>3
<1> QED
  BY <1>1, <1>2, <1>3

-----------------------------------------------------------------------------
(* Every step keeps the invariant, and what is stored.                     *)

LEMMA PutUploadKeeps ==
    ASSUME IInv, NEW u \in Uploads, PutUpload(u)
    PROVE  IInv' /\ StoredKept
<1>0. /\ TypeOK /\ UploadInv /\ ReaperInv /\ WorkerInv /\ LeaseInv /\ AskedInv
      /\ MessageComplete /\ UploadAccounted
  BY DEF IInv
<1>1. TypeOK'
  BY <1>0, Names, LeaseTypes DEF TypeOK, PutUpload, sendVars, runtimeVars
<1>2. UploadInv'
  BY <1>0, Names DEF UploadInv, TypeOK, PutUpload, sendVars, runtimeVars
<1>3. ReaperInv'
  BY <1>0, Names DEF ReaperInv, Dead, UploadInv, TypeOK, PutUpload, sendVars, runtimeVars
<1>4. MessageComplete'
  BY <1>0, Names DEF MessageComplete, TypeOK, PutUpload, sendVars, runtimeVars
<1>5. UploadAccounted'
  BY <1>0, Names DEF UploadAccounted, TypeOK, PutUpload, sendVars, runtimeVars
<1>6. WorkerInv' /\ LeaseInv' /\ AskedInv'
  BY <1>0 DEF WorkerInv, LeaseInv, AskedInv, PutUpload, sendVars, runtimeVars
<1>7. StoredKept
  BY DEF StoredKept, PutUpload, sendVars, runtimeVars
<1> QED
  BY <1>1, <1>2, <1>3, <1>4, <1>5, <1>6, <1>7 DEF IInv

LEMMA PutUploadFailsKeeps ==
    ASSUME IInv, NEW u \in Uploads, PutUploadFails(u)
    PROVE  IInv' /\ StoredKept
<1>0. /\ TypeOK /\ UploadInv /\ ReaperInv /\ WorkerInv /\ LeaseInv /\ AskedInv
      /\ MessageComplete /\ UploadAccounted
  BY DEF IInv
<1>1. TypeOK'
  BY <1>0, Names, LeaseTypes DEF TypeOK, PutUploadFails, sendVars, runtimeVars
<1>2. UploadInv'
  BY <1>0, Names DEF UploadInv, TypeOK, PutUploadFails, sendVars, runtimeVars
<1>3. ReaperInv'
  BY <1>0, Names DEF ReaperInv, Dead, UploadInv, TypeOK, PutUploadFails, sendVars,
                     runtimeVars
<1>4. MessageComplete'
  BY <1>0, Names DEF MessageComplete, TypeOK, PutUploadFails, sendVars, runtimeVars
<1>5. UploadAccounted'
  BY <1>0, Names DEF UploadAccounted, TypeOK, PutUploadFails, sendVars, runtimeVars
<1>6. WorkerInv' /\ LeaseInv' /\ AskedInv'
  BY <1>0 DEF WorkerInv, LeaseInv, AskedInv, PutUploadFails, sendVars, runtimeVars
<1>7. StoredKept
  BY DEF StoredKept, PutUploadFails, sendVars, runtimeVars
<1> QED
  BY <1>1, <1>2, <1>3, <1>4, <1>5, <1>6, <1>7 DEF IInv

LEMMA CreateRowKeeps ==
    ASSUME IInv, NEW u \in Uploads, CreateRow(u)
    PROVE  IInv' /\ StoredKept
<1>0. /\ TypeOK /\ UploadInv /\ ReaperInv /\ WorkerInv /\ LeaseInv /\ AskedInv
      /\ MessageComplete /\ UploadAccounted
  BY DEF IInv
<1>1. TypeOK'
  BY <1>0, Names, LeaseTypes DEF TypeOK, CreateRow, sendVars, runtimeVars
<1>2. UploadInv'
  BY <1>0, Names DEF UploadInv, TypeOK, CreateRow, sendVars, runtimeVars
<1>3. ReaperInv'
  BY <1>0, Names DEF ReaperInv, Dead, UploadInv, TypeOK, CreateRow, sendVars, runtimeVars
<1>4. LeaseInv'
  BY <1>0, Names, LeaseTypes DEF LeaseInv, UploadInv, TypeOK, CreateRow, sendVars,
                                 runtimeVars
<1>5. MessageComplete'
  BY <1>0, Names DEF MessageComplete, TypeOK, CreateRow, sendVars, runtimeVars
<1>6. UploadAccounted'
  BY <1>0, Names DEF UploadAccounted, TypeOK, CreateRow, sendVars, runtimeVars
<1>7. WorkerInv' /\ AskedInv'
  BY <1>0 DEF WorkerInv, AskedInv, CreateRow, sendVars, runtimeVars
<1>8. StoredKept
  BY <1>0, Names DEF StoredKept, UploadInv, LeaseInv, TypeOK, CreateRow, sendVars,
                     runtimeVars
<1> QED
  BY <1>1, <1>2, <1>3, <1>4, <1>5, <1>6, <1>7, <1>8 DEF IInv

LEMMA CreateRowFailsKeeps ==
    ASSUME IInv, NEW u \in Uploads, CreateRowFails(u)
    PROVE  IInv' /\ StoredKept
<1>0. /\ TypeOK /\ UploadInv /\ ReaperInv /\ WorkerInv /\ LeaseInv /\ AskedInv
      /\ MessageComplete /\ UploadAccounted
  BY DEF IInv
<1>1. TypeOK'
  BY <1>0, Names, LeaseTypes DEF TypeOK, CreateRowFails, sendVars, runtimeVars
<1>2. UploadInv'
  BY <1>0, Names DEF UploadInv, TypeOK, CreateRowFails, sendVars, runtimeVars
<1>3. ReaperInv'
  BY <1>0, Names DEF ReaperInv, Dead, UploadInv, TypeOK, CreateRowFails, sendVars,
                     runtimeVars
<1>4. UploadAccounted'
  BY <1>0, Names DEF UploadAccounted, TypeOK, CreateRowFails, sendVars, runtimeVars
<1>5. WorkerInv' /\ LeaseInv' /\ AskedInv' /\ MessageComplete'
  BY <1>0 DEF WorkerInv, LeaseInv, AskedInv, MessageComplete, CreateRowFails, sendVars,
              runtimeVars
<1>6. StoredKept
  BY DEF StoredKept, CreateRowFails, sendVars, runtimeVars
<1> QED
  BY <1>1, <1>2, <1>3, <1>4, <1>5, <1>6 DEF IInv

LEMMA DiscardUploadKeeps ==
    ASSUME IInv, NEW u \in Uploads, DiscardUpload(u)
    PROVE  IInv' /\ StoredKept
<1>0. /\ TypeOK /\ UploadInv /\ ReaperInv /\ WorkerInv /\ LeaseInv /\ AskedInv
      /\ MessageComplete /\ UploadAccounted
  BY DEF IInv
<1>1. TypeOK'
  BY <1>0, Names, LeaseTypes DEF TypeOK, DiscardUpload, Bury, sendVars, runtimeVars
<1>2. UploadInv'
  BY <1>0, Names DEF UploadInv, TypeOK, DiscardUpload, Bury, sendVars, runtimeVars
<1>3. ReaperInv'
  BY <1>0, Names DEF ReaperInv, Dead, UploadInv, TypeOK, DiscardUpload, Bury, sendVars,
                     runtimeVars
<1>4. UploadAccounted'
  BY <1>0, Names DEF UploadAccounted, TypeOK, DiscardUpload, Bury, sendVars, runtimeVars
<1>5. WorkerInv' /\ LeaseInv' /\ AskedInv' /\ MessageComplete'
  BY <1>0 DEF WorkerInv, LeaseInv, AskedInv, MessageComplete, DiscardUpload, sendVars,
              runtimeVars
<1>6. StoredKept
  BY DEF StoredKept, DiscardUpload, sendVars, runtimeVars
<1> QED
  BY <1>1, <1>2, <1>3, <1>4, <1>5, <1>6 DEF IInv

LEMMA UploadCrashesKeeps ==
    ASSUME IInv, NEW u \in Uploads, UploadCrashes(u)
    PROVE  IInv' /\ StoredKept
<1>0. /\ TypeOK /\ UploadInv /\ ReaperInv /\ WorkerInv /\ LeaseInv /\ AskedInv
      /\ MessageComplete /\ UploadAccounted
  BY DEF IInv
<1>1. TypeOK'
  BY <1>0, AttachmentBounds DEF TypeOK, UploadCrashes, sendVars, runtimeVars
<1>2. UploadInv'
  BY <1>0, Names DEF UploadInv, TypeOK, UploadCrashes, sendVars, runtimeVars
<1>3. ReaperInv'
  BY <1>0, Names DEF ReaperInv, Dead, UploadInv, TypeOK, UploadCrashes, sendVars,
                     runtimeVars
<1>4. UploadAccounted'
  BY <1>0, Names DEF UploadAccounted, TypeOK, UploadCrashes, sendVars, runtimeVars
<1>5. WorkerInv' /\ LeaseInv' /\ AskedInv' /\ MessageComplete'
  BY <1>0 DEF WorkerInv, LeaseInv, AskedInv, MessageComplete, UploadCrashes, sendVars,
              runtimeVars
<1>6. StoredKept
  BY DEF StoredKept, UploadCrashes, sendVars, runtimeVars
<1> QED
  BY <1>1, <1>2, <1>3, <1>4, <1>5, <1>6 DEF IInv

LEMMA GrowsOldKeeps ==
    ASSUME IInv, NEW u \in Uploads, GrowsOld(u)
    PROVE  IInv' /\ StoredKept
<1>0. /\ TypeOK /\ UploadInv /\ ReaperInv /\ WorkerInv /\ LeaseInv /\ AskedInv
      /\ MessageComplete /\ UploadAccounted
  BY DEF IInv
<1>1. TypeOK'
  BY <1>0, Names, LeaseTypes DEF TypeOK, GrowsOld, sendVars, runtimeVars
<1>2. /\ UploadInv' /\ ReaperInv' /\ WorkerInv' /\ LeaseInv'
      /\ AskedInv' /\ MessageComplete' /\ UploadAccounted'
  BY <1>0 DEF UploadInv, ReaperInv, WorkerInv, LeaseInv, AskedInv, MessageComplete,
              UploadAccounted, Dead, GrowsOld, sendVars, runtimeVars
<1>3. StoredKept
  BY DEF StoredKept, GrowsOld, sendVars, runtimeVars
<1> QED
  BY <1>1, <1>2, <1>3 DEF IInv

LEMMA SendWithKeeps ==
    ASSUME IInv, NEW m \in Messages, NEW refs \in SUBSET Uploads, SendWith(m, refs)
    PROVE  IInv' /\ StoredKept
<1>0. /\ TypeOK /\ UploadInv /\ ReaperInv /\ WorkerInv /\ LeaseInv /\ AskedInv
      /\ MessageComplete /\ UploadAccounted
  BY DEF IInv
<1>1. TypeOK'
  BY <1>0, Names, LeaseTypes DEF TypeOK, SendWith, Unclaimed, clientVars, runtimeVars
<1>2. UploadInv'
  BY <1>0, Names DEF UploadInv, TypeOK, SendWith, Unclaimed, clientVars, runtimeVars
<1>3. AskedInv'
  BY <1>0, Names DEF AskedInv, TypeOK, SendWith, Unclaimed, clientVars, runtimeVars
<1>4. MessageComplete'
  <2> SUFFICES ASSUME NEW n \in Messages, message'[n] = "exists", NEW u \in asked'[n]
               PROVE  owner'[u] = n /\ row'[u] = "stored" /\ u \in object'
    BY DEF MessageComplete
  <2>1. /\ refs \subseteq Unclaimed /\ asked' = [asked EXCEPT ![m] = refs]
        /\ message' = [message EXCEPT ![m] = "exists"]
        /\ owner' = [a \in Attachments |-> IF a \in refs THEN m ELSE owner[a]]
        /\ UNCHANGED <<row, object>>
    BY DEF SendWith
  <2>2. CASE n = m
    <3>1. u \in refs /\ u \in Uploads /\ row[u] = "stored"
      BY <1>0, <2>1, <2>2 DEF TypeOK, Unclaimed
    <3> QED
      BY <1>0, <2>1, <2>2, <3>1, Names DEF UploadInv
  <2>3. CASE n # m
    <3>1. message[n] = "exists" /\ u \in asked[n]
      BY <1>0, <2>1, <2>3 DEF TypeOK
    <3>2. owner[u] = n /\ row[u] = "stored" /\ u \in object /\ u \in Attachments
      BY <1>0, <3>1 DEF MessageComplete, TypeOK
    <3>3. u \notin refs
      BY <2>1, <3>2, Names DEF Unclaimed
    <3> QED
      BY <2>1, <3>2, <3>3
  <2> QED
    BY <2>2, <2>3
<1>5. ReaperInv' /\ WorkerInv' /\ LeaseInv' /\ UploadAccounted'
  BY <1>0 DEF ReaperInv, WorkerInv, LeaseInv, UploadAccounted, Dead, SendWith, clientVars,
              runtimeVars
<1>6. StoredKept
  BY DEF StoredKept, SendWith, clientVars, runtimeVars
<1> QED
  BY <1>1, <1>2, <1>3, <1>4, <1>5, <1>6 DEF IInv

LEMMA ReceiveKeeps ==
    ASSUME IInv, NEW m \in Messages, NEW A \in SUBSET Inbound, Receive(m, A)
    PROVE  IInv' /\ StoredKept
<1>0. /\ TypeOK /\ UploadInv /\ ReaperInv /\ WorkerInv /\ LeaseInv /\ AskedInv
      /\ MessageComplete /\ UploadAccounted
  BY DEF IInv
<1>1. TypeOK'
  BY <1>0, Names, LeaseTypes DEF TypeOK, Receive, clientVars, runtimeVars
<1>2. UploadInv'
  BY <1>0, Names DEF UploadInv, TypeOK, Receive, clientVars, runtimeVars
<1>3. ReaperInv'
  BY <1>0, Names DEF ReaperInv, Dead, UploadInv, TypeOK, Receive, clientVars, runtimeVars
<1>4. LeaseInv'
  BY <1>0, Names, LeaseTypes DEF LeaseInv, UploadInv, TypeOK, Receive, clientVars,
                                 runtimeVars
<1>5. AskedInv'
  BY <1>0, Names DEF AskedInv, TypeOK, Receive, clientVars, runtimeVars
<1>6. MessageComplete'
  <2> SUFFICES ASSUME NEW n \in Messages, message'[n] = "exists", NEW u \in asked'[n]
               PROVE  owner'[u] = n /\ row'[u] = "stored" /\ u \in object'
    BY DEF MessageComplete
  <2>1. /\ message[m] = "none" /\ message' = [message EXCEPT ![m] = "exists"]
        /\ row' = [a \in Attachments |-> IF a \in A THEN "pending" ELSE row[a]]
        /\ owner' = [a \in Attachments |-> IF a \in A THEN m ELSE owner[a]]
        /\ UNCHANGED <<asked, object>>
    BY DEF Receive
  <2>2. asked[m] = {} /\ u \in asked[n] /\ u \in Uploads
    BY <1>0, <2>1 DEF AskedInv, TypeOK
  <2>3. message[n] = "exists"
    BY <1>0, <2>1, <2>2 DEF TypeOK
  <2>4. owner[u] = n /\ row[u] = "stored" /\ u \in object
    BY <1>0, <2>2, <2>3 DEF MessageComplete
  <2> QED
    BY <2>1, <2>2, <2>4, Names
<1>7. UploadAccounted'
  BY <1>0, Names DEF UploadAccounted, TypeOK, Receive, clientVars, runtimeVars
<1>8. WorkerInv'
  BY <1>0 DEF WorkerInv, Receive, clientVars, runtimeVars
<1>9. StoredKept
  BY <1>0, Names DEF StoredKept, UploadInv, LeaseInv, TypeOK, Receive, clientVars,
                     runtimeVars
<1> QED
  BY <1>1, <1>2, <1>3, <1>4, <1>5, <1>6, <1>7, <1>8, <1>9 DEF IInv

LEMMA DeleteKeeps ==
    ASSUME IInv, NEW m \in Messages, Delete(m)
    PROVE  IInv' /\ StoredKept
<1>0. /\ TypeOK /\ UploadInv /\ ReaperInv /\ WorkerInv /\ LeaseInv /\ AskedInv
      /\ MessageComplete /\ UploadAccounted
  BY DEF IInv
<1>1. TypeOK'
  BY <1>0, Names, LeaseTypes DEF TypeOK, Delete, DeleteRows, OwnedBy, Bury, clientVars,
                                 runtimeVars
<1>2. UploadInv'
  BY <1>0, Names DEF UploadInv, TypeOK, Delete, DeleteRows, OwnedBy, Bury, clientVars,
                     runtimeVars
<1>3. ReaperInv'
  BY <1>0, Names DEF ReaperInv, Dead, UploadInv, TypeOK, Delete, DeleteRows, OwnedBy, Bury,
                     clientVars, runtimeVars
<1>4. LeaseInv'
  BY <1>0, Names, LeaseTypes DEF LeaseInv, UploadInv, TypeOK, Delete, DeleteRows, OwnedBy,
                                 Bury, clientVars, runtimeVars
<1>5. AskedInv'
  BY <1>0, Names DEF AskedInv, TypeOK, Delete, DeleteRows, OwnedBy, Bury, clientVars,
                     runtimeVars
<1>6. MessageComplete'
  BY <1>0, Names DEF MessageComplete, TypeOK, Delete, DeleteRows, OwnedBy, Bury, clientVars,
                     runtimeVars
<1>7. UploadAccounted'
  BY <1>0, Names DEF UploadAccounted, TypeOK, Delete, DeleteRows, OwnedBy, Bury, clientVars,
                     runtimeVars
<1>8. WorkerInv'
  BY <1>0 DEF WorkerInv, Delete, clientVars, runtimeVars
<1>9. StoredKept
  BY <1>0, Names DEF StoredKept, UploadInv, LeaseInv, TypeOK, Delete, DeleteRows, OwnedBy,
                     Bury, clientVars, runtimeVars
<1> QED
  BY <1>1, <1>2, <1>3, <1>4, <1>5, <1>6, <1>7, <1>8, <1>9 DEF IInv

LEMMA ClaimPendingKeeps ==
    ASSUME IInv, NEW r \in Workers, ClaimPending(r)
    PROVE  IInv' /\ StoredKept
<1>0. /\ TypeOK /\ UploadInv /\ ReaperInv /\ WorkerInv /\ LeaseInv /\ AskedInv
      /\ MessageComplete /\ UploadAccounted
  BY DEF IInv
<1>1. TypeOK'
  <2>1. /\ todo' \in [Runtimes -> SUBSET Attachments]
        /\ lease' \in [Attachments -> Leases]
    BY <1>0, Names, LeaseTypes DEF TypeOK, ClaimPending, Pending
  <2>2. attempts' \in [Attachments -> 0 .. MaxAttempts]
    <3>1. \A x \in 0 .. MaxAttempts : Least(x + 1, MaxAttempts) \in 0 .. MaxAttempts
      BY AttachmentBounds DEF Least
    <3> QED
      BY <1>0, <3>1 DEF TypeOK, ClaimPending
  <2> QED
    BY <1>0, <2>1, <2>2 DEF TypeOK, ClaimPending, sendVars, clientVars
<1>2. ReaperInv'
  BY <1>0, Names DEF ReaperInv, Dead, UploadInv, TypeOK, ClaimPending, Pending, Idle,
                     sendVars, clientVars
<1>3. WorkerInv'
  BY <1>0, Names DEF WorkerInv, TypeOK, ClaimPending, Pending, Idle, sendVars, clientVars
<1>4. LeaseInv'
  BY <1>0, Names, LeaseTypes DEF LeaseInv, UploadInv, TypeOK, ClaimPending, Pending, Idle,
                                 sendVars, clientVars
<1>5. UploadInv' /\ AskedInv' /\ MessageComplete' /\ UploadAccounted'
  BY <1>0 DEF UploadInv, AskedInv, MessageComplete, UploadAccounted, ClaimPending, sendVars,
              clientVars
<1>6. StoredKept
  BY DEF StoredKept, ClaimPending, sendVars, clientVars
<1> QED
  BY <1>1, <1>2, <1>3, <1>4, <1>5, <1>6 DEF IInv

LEMMA StoreObjectKeeps ==
    ASSUME IInv, NEW r \in Workers, NEW b \in Inbound, StoreObject(r, b)
    PROVE  IInv' /\ StoredKept
<1>0. /\ TypeOK /\ UploadInv /\ ReaperInv /\ WorkerInv /\ LeaseInv /\ AskedInv
      /\ MessageComplete /\ UploadAccounted
  BY DEF IInv
<1>1. WorksOn(r)
  BY <1>0, Names, Begun DEF WorksOn, StoreObject
<1>2. Untouched
  BY Names DEF Untouched, StoreObject, sendVars, clientVars
<1>3. \A u \in Uploads :
          r \in Reapers /\ job'[r] # Resting /\ job'[r].attachment = u
          /\ job'[r].stage = "deleted" => u \notin object'
  BY Names
<1>4. r \in Runtimes
  BY Names
<1>5. /\ UploadInv' /\ AskedInv' /\ MessageComplete'
      /\ UploadAccounted' /\ WorkerInv' /\ ReaperInv'
  BY <1>1, <1>2, <1>3, <1>4, RuntimeKeeps
<1>6. TypeOK'
  BY <1>0, <1>1, Names DEF TypeOK, WorksOn, StoreObject, sendVars, clientVars
<1>7. LeaseInv'
  BY <1>0 DEF LeaseInv, StoreObject
<1>8. StoredKept
  BY DEF StoredKept, StoreObject
<1> QED
  BY <1>5, <1>6, <1>7, <1>8 DEF IInv

LEMMA StoreFailsKeeps ==
    ASSUME IInv, NEW r \in Workers, NEW b \in Inbound, StoreFails(r, b)
    PROVE  IInv' /\ StoredKept
<1>0. /\ TypeOK /\ UploadInv /\ ReaperInv /\ WorkerInv /\ LeaseInv /\ AskedInv
      /\ MessageComplete /\ UploadAccounted
  BY DEF IInv
<1>1. WorksOn(r)
  BY <1>0, Names, Begun DEF WorksOn, StoreFails
<1>2. Untouched
  BY Names DEF Untouched, StoreFails, sendVars, clientVars
<1>3. \A u \in Uploads :
          r \in Reapers /\ job'[r] # Resting /\ job'[r].attachment = u
          /\ job'[r].stage = "deleted" => u \notin object'
  BY Names
<1>4. r \in Runtimes
  BY Names
<1>5. /\ UploadInv' /\ AskedInv' /\ MessageComplete'
      /\ UploadAccounted' /\ WorkerInv' /\ ReaperInv'
  BY <1>1, <1>2, <1>3, <1>4, RuntimeKeeps
<1>6. TypeOK'
  BY <1>0, <1>1, Names DEF TypeOK, WorksOn, StoreFails, sendVars, clientVars
<1>7. LeaseInv'
  BY <1>0 DEF LeaseInv, StoreFails
<1>8. StoredKept
  BY DEF StoredKept, StoreFails
<1> QED
  BY <1>5, <1>6, <1>7, <1>8 DEF IInv

LEMMA TooLargeKeeps ==
    ASSUME IInv, NEW r \in Workers, NEW b \in Inbound, TooLarge(r, b)
    PROVE  IInv' /\ StoredKept
<1>0. /\ TypeOK /\ UploadInv /\ ReaperInv /\ WorkerInv /\ LeaseInv /\ AskedInv
      /\ MessageComplete /\ UploadAccounted
  BY DEF IInv
<1>1. WorksOn(r)
  BY <1>0, Names, Begun DEF WorksOn, TooLarge
<1>2. Untouched
  BY Names DEF Untouched, TooLarge, sendVars, clientVars
<1>3. \A u \in Uploads :
          r \in Reapers /\ job'[r] # Resting /\ job'[r].attachment = u
          /\ job'[r].stage = "deleted" => u \notin object'
  BY Names
<1>4. r \in Runtimes
  BY Names
<1>5. /\ UploadInv' /\ AskedInv' /\ MessageComplete'
      /\ UploadAccounted' /\ WorkerInv' /\ ReaperInv'
  BY <1>1, <1>2, <1>3, <1>4, RuntimeKeeps
<1>6. TypeOK'
  BY <1>0, <1>1, Names DEF TypeOK, WorksOn, TooLarge, sendVars, clientVars
<1>7. LeaseInv'
  BY <1>0 DEF LeaseInv, TooLarge
<1>8. StoredKept
  BY DEF StoredKept, TooLarge
<1> QED
  BY <1>5, <1>6, <1>7, <1>8 DEF IInv

LEMMA RecordKeeps ==
    ASSUME IInv, NEW r \in Workers, Record(r)
    PROVE  IInv' /\ StoredKept
<1>0. /\ TypeOK /\ UploadInv /\ ReaperInv /\ WorkerInv /\ LeaseInv /\ AskedInv
      /\ MessageComplete /\ UploadAccounted
  BY DEF IInv
<1>1. WorksOn(r)
  BY <1>0, Names, Finished DEF WorksOn, Record, TypeOK
<1>2. Untouched
  <2>1. Task(r) \in Inbound
    <3>1. job[r].stage # "resting"
      BY DEF Record, In
    <3>2. job[r] # Resting
      BY <3>1 DEF Resting
    <3> QED
      BY <1>0, <3>2 DEF WorkerInv, Task
  <2> QED
    BY <1>0, <2>1, Names DEF Untouched, TypeOK, Record, sendVars, clientVars
<1>3. \A u \in Uploads :
          r \in Reapers /\ job'[r] # Resting /\ job'[r].attachment = u
          /\ job'[r].stage = "deleted" => u \notin object'
  BY Names
<1>4. r \in Runtimes
  BY Names
<1>5. /\ UploadInv' /\ AskedInv' /\ MessageComplete'
      /\ UploadAccounted' /\ WorkerInv' /\ ReaperInv'
  BY <1>1, <1>2, <1>3, <1>4, RuntimeKeeps
<1>6. TypeOK'
  <2>1. Task(r) \in Inbound
    <3>1. job[r].stage # "resting"
      BY DEF Record, In
    <3>2. job[r] # Resting
      BY <3>1 DEF Resting
    <3> QED
      BY <1>0, <3>2 DEF WorkerInv, Task
  <2> QED
    BY <1>0, <1>1, <2>1, Names, LeaseTypes DEF TypeOK, WorksOn, Record, sendVars, clientVars
<1>7. LeaseInv'
  <2>1. Task(r) \in Inbound
    <3>1. job[r].stage # "resting"
      BY DEF Record, In
    <3>2. job[r] # Resting
      BY <3>1 DEF Resting
    <3> QED
      BY <1>0, <3>2 DEF WorkerInv, Task
  <2> QED
    BY <1>0, <2>1, Names, LeaseTypes DEF LeaseInv, TypeOK, Record
<1>8. StoredKept
  <2>1. Task(r) \in Inbound
    <3>1. job[r].stage # "resting"
      BY DEF Record, In
    <3>2. job[r] # Resting
      BY <3>1 DEF Resting
    <3> QED
      BY <1>0, <3>2 DEF WorkerInv, Task
  <2> QED
    BY <1>0, <2>1, Names DEF StoredKept, TypeOK, Record
<1> QED
  BY <1>5, <1>6, <1>7, <1>8 DEF IInv

LEMMA RecordLostKeeps ==
    ASSUME IInv, NEW r \in Workers, RecordLost(r)
    PROVE  IInv' /\ StoredKept
<1>0. /\ TypeOK /\ UploadInv /\ ReaperInv /\ WorkerInv /\ LeaseInv /\ AskedInv
      /\ MessageComplete /\ UploadAccounted
  BY DEF IInv
<1>1. WorksOn(r)
  <2>1. job[r].stage # "resting"
    BY DEF RecordLost, In
  <2> QED
    BY <1>0, <2>1, Names, Resumed DEF WorksOn, RecordLost, TypeOK
<1>2. Untouched
  BY Names DEF Untouched, RecordLost, sendVars, clientVars
<1>3. \A u \in Uploads :
          r \in Reapers /\ job'[r] # Resting /\ job'[r].attachment = u
          /\ job'[r].stage = "deleted" => u \notin object'
  BY Names
<1>4. r \in Runtimes
  BY Names
<1>5. /\ UploadInv' /\ AskedInv' /\ MessageComplete'
      /\ UploadAccounted' /\ WorkerInv' /\ ReaperInv'
  BY <1>1, <1>2, <1>3, <1>4, RuntimeKeeps
<1>6. TypeOK'
  BY <1>0, <1>1, Names DEF TypeOK, WorksOn, RecordLost, sendVars, clientVars
<1>7. LeaseInv'
  BY <1>0 DEF LeaseInv, RecordLost
<1>8. StoredKept
  BY DEF StoredKept, RecordLost
<1> QED
  BY <1>5, <1>6, <1>7, <1>8 DEF IInv

LEMMA RecordFailsKeeps ==
    ASSUME IInv, NEW r \in Workers, RecordFails(r)
    PROVE  IInv' /\ StoredKept
<1>0. /\ TypeOK /\ UploadInv /\ ReaperInv /\ WorkerInv /\ LeaseInv /\ AskedInv
      /\ MessageComplete /\ UploadAccounted
  BY DEF IInv
<1>1. WorksOn(r)
  <2>1. job[r].stage # "resting"
    BY DEF RecordFails, In
  <2> QED
    BY <1>0, <2>1, Names, Resumed DEF WorksOn, RecordFails, TypeOK
<1>2. Untouched
  BY Names DEF Untouched, RecordFails, sendVars, clientVars
<1>3. \A u \in Uploads :
          r \in Reapers /\ job'[r] # Resting /\ job'[r].attachment = u
          /\ job'[r].stage = "deleted" => u \notin object'
  BY Names
<1>4. r \in Runtimes
  BY Names
<1>5. /\ UploadInv' /\ AskedInv' /\ MessageComplete'
      /\ UploadAccounted' /\ WorkerInv' /\ ReaperInv'
  BY <1>1, <1>2, <1>3, <1>4, RuntimeKeeps
<1>6. TypeOK'
  BY <1>0, <1>1, Names DEF TypeOK, WorksOn, RecordFails, sendVars, clientVars
<1>7. LeaseInv'
  BY <1>0 DEF LeaseInv, RecordFails
<1>8. StoredKept
  BY DEF StoredKept, RecordFails
<1> QED
  BY <1>5, <1>6, <1>7, <1>8 DEF IInv

LEMMA DiscardCopyKeeps ==
    ASSUME IInv, NEW r \in Workers, DiscardCopy(r)
    PROVE  IInv' /\ StoredKept
<1>0. /\ TypeOK /\ UploadInv /\ ReaperInv /\ WorkerInv /\ LeaseInv /\ AskedInv
      /\ MessageComplete /\ UploadAccounted
  BY DEF IInv
<1>1. WorksOn(r)
  BY <1>0, Names, Finished DEF WorksOn, DiscardCopy, TypeOK
<1>2. Untouched
  <2>1. Task(r) \in Inbound
    <3>1. job[r].stage # "resting"
      BY DEF DiscardCopy, In
    <3>2. job[r] # Resting
      BY <3>1 DEF Resting
    <3> QED
      BY <1>0, <3>2 DEF WorkerInv, Task
  <2> QED
    BY <2>1, Names DEF Untouched, DiscardCopy, Bury, sendVars, clientVars
<1>3. \A u \in Uploads :
          r \in Reapers /\ job'[r] # Resting /\ job'[r].attachment = u
          /\ job'[r].stage = "deleted" => u \notin object'
  BY Names
<1>4. r \in Runtimes
  BY Names
<1>5. /\ UploadInv' /\ AskedInv' /\ MessageComplete'
      /\ UploadAccounted' /\ WorkerInv' /\ ReaperInv'
  BY <1>1, <1>2, <1>3, <1>4, RuntimeKeeps
<1>6. TypeOK'
  <2>1. Task(r) \in Inbound
    <3>1. job[r].stage # "resting"
      BY DEF DiscardCopy, In
    <3>2. job[r] # Resting
      BY <3>1 DEF Resting
    <3> QED
      BY <1>0, <3>2 DEF WorkerInv, Task
  <2> QED
    BY <1>0, <1>1, <2>1, Names DEF TypeOK, WorksOn, DiscardCopy, Bury, sendVars, clientVars
<1>7. LeaseInv'
  BY <1>0 DEF LeaseInv, DiscardCopy
<1>8. StoredKept
  BY DEF StoredKept, DiscardCopy
<1> QED
  BY <1>5, <1>6, <1>7, <1>8 DEF IInv

LEMMA FailKeeps ==
    ASSUME IInv, NEW r \in Workers, Fail(r)
    PROVE  IInv' /\ StoredKept
<1>0. /\ TypeOK /\ UploadInv /\ ReaperInv /\ WorkerInv /\ LeaseInv /\ AskedInv
      /\ MessageComplete /\ UploadAccounted
  BY DEF IInv
<1>1. WorksOn(r)
  BY <1>0, Names, Finished DEF WorksOn, Fail, TypeOK
<1>2. Untouched
  <2>1. Task(r) \in Inbound
    <3>1. job[r].stage # "resting"
      BY DEF Fail, In
    <3>2. job[r] # Resting
      BY <3>1 DEF Resting
    <3> QED
      BY <1>0, <3>2 DEF WorkerInv, Task
  <2>2. \/ UNCHANGED <<row, lease>>
        \/ /\ OwnsRow(r)
           /\ row' \in {row, [row EXCEPT ![Task(r)] = "failed"]}
           /\ \E l \in Leases : l.holder = Nobody /\ lease' = [lease EXCEPT ![Task(r)] = l]
    <3>1. (~Terminal(r)) \in BOOLEAN
      BY DEF Terminal
    <3>2. /\ [Free EXCEPT !.delayed = ~Terminal(r)] \in Leases
          /\ [Free EXCEPT !.delayed = ~Terminal(r)].holder = Nobody
      BY <3>1, LeaseTypes
    <3> QED
      BY <3>2 DEF Fail
  <2>3. \A u \in Uploads : row'[u] = row[u]
    BY <1>0, <2>1, <2>2, Names DEF TypeOK
  <2> QED
    BY <2>3, Names DEF Untouched, Fail, sendVars, clientVars
<1>3. \A u \in Uploads :
          r \in Reapers /\ job'[r] # Resting /\ job'[r].attachment = u
          /\ job'[r].stage = "deleted" => u \notin object'
  BY Names
<1>4. r \in Runtimes
  BY Names
<1>5. /\ UploadInv' /\ AskedInv' /\ MessageComplete'
      /\ UploadAccounted' /\ WorkerInv' /\ ReaperInv'
  BY <1>1, <1>2, <1>3, <1>4, RuntimeKeeps
<1>6. TypeOK'
  <2>1. Task(r) \in Inbound
    <3>1. job[r].stage # "resting"
      BY DEF Fail, In
    <3>2. job[r] # Resting
      BY <3>1 DEF Resting
    <3> QED
      BY <1>0, <3>2 DEF WorkerInv, Task
  <2>2. \/ UNCHANGED <<row, lease>>
        \/ /\ OwnsRow(r)
           /\ row' \in {row, [row EXCEPT ![Task(r)] = "failed"]}
           /\ \E l \in Leases : l.holder = Nobody /\ lease' = [lease EXCEPT ![Task(r)] = l]
    <3>1. (~Terminal(r)) \in BOOLEAN
      BY DEF Terminal
    <3>2. /\ [Free EXCEPT !.delayed = ~Terminal(r)] \in Leases
          /\ [Free EXCEPT !.delayed = ~Terminal(r)].holder = Nobody
      BY <3>1, LeaseTypes
    <3> QED
      BY <3>2 DEF Fail
  <2>3. row' \in [Attachments -> {"none", "pending", "stored", "failed", "deleted"}]
        /\ lease' \in [Attachments -> Leases]
    BY <1>0, <2>1, <2>2, Names DEF TypeOK
  <2> QED
    BY <1>0, <1>1, <2>3, Names DEF TypeOK, WorksOn, Fail, sendVars, clientVars
<1>7. LeaseInv'
  <2>1. Task(r) \in Inbound
    <3>1. job[r].stage # "resting"
      BY DEF Fail, In
    <3>2. job[r] # Resting
      BY <3>1 DEF Resting
    <3> QED
      BY <1>0, <3>2 DEF WorkerInv, Task
  <2>2. \/ UNCHANGED <<row, lease>>
        \/ /\ OwnsRow(r)
           /\ row' \in {row, [row EXCEPT ![Task(r)] = "failed"]}
           /\ \E l \in Leases : l.holder = Nobody /\ lease' = [lease EXCEPT ![Task(r)] = l]
    <3>1. (~Terminal(r)) \in BOOLEAN
      BY DEF Terminal
    <3>2. /\ [Free EXCEPT !.delayed = ~Terminal(r)] \in Leases
          /\ [Free EXCEPT !.delayed = ~Terminal(r)].holder = Nobody
      BY <3>1, LeaseTypes
    <3> QED
      BY <3>2 DEF Fail
  <2> QED
    BY <1>0, <2>1, <2>2, Names DEF LeaseInv, TypeOK
<1>8. StoredKept
  <2>1. Task(r) \in Inbound
    <3>1. job[r].stage # "resting"
      BY DEF Fail, In
    <3>2. job[r] # Resting
      BY <3>1 DEF Resting
    <3> QED
      BY <1>0, <3>2 DEF WorkerInv, Task
  <2>2. \/ UNCHANGED <<row, lease>>
        \/ /\ OwnsRow(r)
           /\ row' \in {row, [row EXCEPT ![Task(r)] = "failed"]}
           /\ \E l \in Leases : l.holder = Nobody /\ lease' = [lease EXCEPT ![Task(r)] = l]
    <3>1. (~Terminal(r)) \in BOOLEAN
      BY DEF Terminal
    <3>2. /\ [Free EXCEPT !.delayed = ~Terminal(r)] \in Leases
          /\ [Free EXCEPT !.delayed = ~Terminal(r)].holder = Nobody
      BY <3>1, LeaseTypes
    <3> QED
      BY <3>2 DEF Fail
  <2>3. OwnsRow(r) => row[Task(r)] = "pending"
    BY <1>0, <2>1, Names DEF LeaseInv, OwnsRow
  <2> QED
    BY <1>0, <2>1, <2>2, <2>3, Names DEF StoredKept, TypeOK
<1> QED
  BY <1>5, <1>6, <1>7, <1>8 DEF IInv

LEMMA ExpireKeeps ==
    ASSUME IInv, NEW r \in Reapers, Expire(r)
    PROVE  IInv' /\ StoredKept
<1>0. /\ TypeOK /\ UploadInv /\ ReaperInv /\ WorkerInv /\ LeaseInv /\ AskedInv
      /\ MessageComplete /\ UploadAccounted
  BY DEF IInv
<1>1. TypeOK'
  BY <1>0, Names, LeaseTypes DEF TypeOK, Expire, Expired, DeleteRows, Bury, sendVars,
                                 clientVars, runtimeVars
<1>2. UploadInv'
  BY <1>0, Names DEF UploadInv, TypeOK, Expire, Expired, DeleteRows, Bury, sendVars,
                     clientVars, runtimeVars
<1>3. ReaperInv'
  BY <1>0, Names DEF ReaperInv, Dead, UploadInv, TypeOK, Expire, Expired, DeleteRows, Bury,
                     sendVars, clientVars, runtimeVars
<1>4. LeaseInv'
  BY <1>0, Names, LeaseTypes DEF LeaseInv, UploadInv, TypeOK, Expire, Expired, DeleteRows,
                                 Bury, sendVars, clientVars, runtimeVars
<1>5. MessageComplete'
  BY <1>0, Names DEF MessageComplete, TypeOK, Expire, Expired, DeleteRows, Bury, sendVars,
                     clientVars, runtimeVars
<1>6. UploadAccounted'
  BY <1>0, Names DEF UploadAccounted, TypeOK, Expire, Expired, DeleteRows, Bury, sendVars,
                     clientVars, runtimeVars
<1>7. WorkerInv' /\ AskedInv'
  BY <1>0 DEF WorkerInv, AskedInv, Expire, sendVars, clientVars, runtimeVars
<1>8. StoredKept
  BY <1>0, Names DEF StoredKept, UploadInv, LeaseInv, TypeOK, Expire, Expired, DeleteRows,
                     Bury, sendVars, clientVars, runtimeVars
<1> QED
  BY <1>1, <1>2, <1>3, <1>4, <1>5, <1>6, <1>7, <1>8 DEF IInv

LEMMA ClaimTombsKeeps ==
    ASSUME IInv, NEW r \in Reapers, ClaimTombs(r)
    PROVE  IInv' /\ StoredKept
<1>0. /\ TypeOK /\ UploadInv /\ ReaperInv /\ WorkerInv /\ LeaseInv /\ AskedInv
      /\ MessageComplete /\ UploadAccounted
  BY DEF IInv
<1>1. TypeOK'
  BY <1>0, Names, LeaseTypes DEF TypeOK, ClaimTombs, Tombs, Idle, sendVars, clientVars
<1>2. ReaperInv'
  BY <1>0, Names DEF ReaperInv, Dead, UploadInv, TypeOK, ClaimTombs, Tombs, Idle, sendVars,
                     clientVars
<1>3. WorkerInv'
  BY <1>0, Names DEF WorkerInv, TypeOK, ClaimTombs, Tombs, Idle, sendVars, clientVars
<1>4. UploadInv' /\ LeaseInv' /\ AskedInv' /\ MessageComplete' /\ UploadAccounted'
  BY <1>0 DEF UploadInv, LeaseInv, AskedInv, MessageComplete, UploadAccounted, ClaimTombs,
              sendVars, clientVars
<1>5. StoredKept
  BY DEF StoredKept, ClaimTombs, sendVars, clientVars
<1> QED
  BY <1>1, <1>2, <1>3, <1>4, <1>5 DEF IInv

LEMMA DeleteObjectKeeps ==
    ASSUME IInv, NEW r \in Reapers, NEW b \in Attachments, DeleteObject(r, b)
    PROVE  IInv' /\ StoredKept
<1>0. /\ TypeOK /\ UploadInv /\ ReaperInv /\ WorkerInv /\ LeaseInv /\ AskedInv
      /\ MessageComplete /\ UploadAccounted
  BY DEF IInv
<1>1. WorksOn(r)
  BY <1>0, Names, Begun DEF WorksOn, DeleteObject
<1>2. Untouched
  <2>1. b \in Uploads => Dead(b)
    BY <1>0 DEF ReaperInv, DeleteObject, Begin
  <2> QED
    BY <2>1, Names DEF Untouched, DeleteObject, sendVars, clientVars
<1>3. \A u \in Uploads :
          r \in Reapers /\ job'[r] # Resting /\ job'[r].attachment = u
          /\ job'[r].stage = "deleted" => u \notin object'
  BY <1>0, Names, Begun DEF DeleteObject
<1>4. r \in Runtimes
  BY Names
<1>5. /\ UploadInv' /\ AskedInv' /\ MessageComplete'
      /\ UploadAccounted' /\ WorkerInv' /\ ReaperInv'
  BY <1>1, <1>2, <1>3, <1>4, RuntimeKeeps
<1>6. TypeOK'
  BY <1>0, <1>1, Names DEF TypeOK, WorksOn, DeleteObject, sendVars, clientVars
<1>7. LeaseInv'
  BY <1>0 DEF LeaseInv, DeleteObject
<1>8. StoredKept
  BY DEF StoredKept, DeleteObject
<1> QED
  BY <1>5, <1>6, <1>7, <1>8 DEF IInv

LEMMA DeleteObjectFailsKeeps ==
    ASSUME IInv, NEW r \in Reapers, NEW b \in Attachments, DeleteObjectFails(r, b)
    PROVE  IInv' /\ StoredKept
<1>0. /\ TypeOK /\ UploadInv /\ ReaperInv /\ WorkerInv /\ LeaseInv /\ AskedInv
      /\ MessageComplete /\ UploadAccounted
  BY DEF IInv
<1>1. WorksOn(r)
  BY <1>0, Names, Begun DEF WorksOn, DeleteObjectFails
<1>2. Untouched
  <2>1. b \in Uploads => Dead(b)
    BY <1>0 DEF ReaperInv, DeleteObjectFails, Begin
  <2> QED
    BY <2>1, Names DEF Untouched, DeleteObjectFails, sendVars, clientVars
<1>3. \A u \in Uploads :
          r \in Reapers /\ job'[r] # Resting /\ job'[r].attachment = u
          /\ job'[r].stage = "deleted" => u \notin object'
  <2>1. job'[r].stage = "failed"
    BY <1>0, Names, Begun DEF DeleteObjectFails
  <2> QED
    BY <2>1
<1>4. r \in Runtimes
  BY Names
<1>5. /\ UploadInv' /\ AskedInv' /\ MessageComplete'
      /\ UploadAccounted' /\ WorkerInv' /\ ReaperInv'
  BY <1>1, <1>2, <1>3, <1>4, RuntimeKeeps
<1>6. TypeOK'
  BY <1>0, <1>1, Names DEF TypeOK, WorksOn, DeleteObjectFails, sendVars, clientVars
<1>7. LeaseInv'
  BY <1>0 DEF LeaseInv, DeleteObjectFails
<1>8. StoredKept
  BY DEF StoredKept, DeleteObjectFails
<1> QED
  BY <1>5, <1>6, <1>7, <1>8 DEF IInv

LEMMA ForgetKeeps ==
    ASSUME IInv, NEW r \in Reapers, Forget(r)
    PROVE  IInv' /\ StoredKept
<1>0. /\ TypeOK /\ UploadInv /\ ReaperInv /\ WorkerInv /\ LeaseInv /\ AskedInv
      /\ MessageComplete /\ UploadAccounted
  BY DEF IInv
<1>1. TypeOK'
  <2>1. job[r].stage # "resting"
    BY DEF Forget, In
  <2>2. tombLease' \in [Attachments -> Leases] /\ tomb' \subseteq Attachments
    BY <1>0, LeaseTypes DEF TypeOK, Forget
  <2>3. job' \in [Runtimes -> Jobs]
    BY <1>0, Names, Finished DEF Forget
  <2> QED
    BY <1>0, <2>2, <2>3 DEF TypeOK, Forget, sendVars, clientVars
<1>2. ReaperInv'
  BY <1>0, Names DEF ReaperInv, Dead, UploadInv, TypeOK, Forget, In, OwnsTomb, Finish, Task,
                     sendVars, clientVars
<1>3. WorkerInv'
  BY <1>0, Names DEF WorkerInv, TypeOK, Forget, In, OwnsTomb, Finish, Task, sendVars,
                     clientVars
<1>4. UploadAccounted'
  <2>1. job[r].stage # "resting"
    BY DEF Forget, In
  <2>2. job[r] # Resting /\ job[r].stage = "deleted"
    BY <2>1 DEF Resting, Forget, In
  <2>3. \A u \in Uploads : Task(r) = u => u \notin object
    BY <1>0, <2>2 DEF ReaperInv, Task
  <2>4. \A u \in Uploads : u \in tomb /\ u \notin tomb' => u \notin object
    BY <2>3 DEF Forget
  <2> QED
    BY <1>0, <2>4 DEF UploadAccounted, Forget, clientVars
<1>5. UploadInv' /\ LeaseInv' /\ AskedInv' /\ MessageComplete'
  BY <1>0 DEF UploadInv, LeaseInv, AskedInv, MessageComplete, Forget, sendVars, clientVars
<1>6. StoredKept
  BY DEF StoredKept, Forget, sendVars, clientVars
<1> QED
  BY <1>1, <1>2, <1>3, <1>4, <1>5, <1>6 DEF IInv

LEMMA ForgetFailsKeeps ==
    ASSUME IInv, NEW r \in Reapers, ForgetFails(r)
    PROVE  IInv' /\ StoredKept
<1>0. /\ TypeOK /\ UploadInv /\ ReaperInv /\ WorkerInv /\ LeaseInv /\ AskedInv
      /\ MessageComplete /\ UploadAccounted
  BY DEF IInv
<1>1. WorksOn(r)
  <2>1. job[r].stage # "resting"
    BY DEF ForgetFails, In
  <2> QED
    BY <1>0, <2>1, Names, Resumed DEF WorksOn, ForgetFails, TypeOK
<1>2. Untouched
  BY Names DEF Untouched, ForgetFails, sendVars, clientVars
<1>3. \A u \in Uploads :
          r \in Reapers /\ job'[r] # Resting /\ job'[r].attachment = u
          /\ job'[r].stage = "deleted" => u \notin object'
  <2>1. job[r].stage # "resting"
    BY DEF ForgetFails, In
  <2>2. job'[r].stage = "failed"
    BY <1>0, <2>1, Names, Resumed DEF ForgetFails
  <2> QED
    BY <2>2
<1>4. r \in Runtimes
  BY Names
<1>5. /\ UploadInv' /\ AskedInv' /\ MessageComplete'
      /\ UploadAccounted' /\ WorkerInv' /\ ReaperInv'
  BY <1>1, <1>2, <1>3, <1>4, RuntimeKeeps
<1>6. TypeOK'
  BY <1>0, <1>1, Names DEF TypeOK, WorksOn, ForgetFails, sendVars, clientVars
<1>7. LeaseInv'
  BY <1>0 DEF LeaseInv, ForgetFails
<1>8. StoredKept
  BY DEF StoredKept, ForgetFails
<1> QED
  BY <1>5, <1>6, <1>7, <1>8 DEF IInv

LEMMA RetryTombKeeps ==
    ASSUME IInv, NEW r \in Reapers, RetryTomb(r)
    PROVE  IInv' /\ StoredKept
<1>0. /\ TypeOK /\ UploadInv /\ ReaperInv /\ WorkerInv /\ LeaseInv /\ AskedInv
      /\ MessageComplete /\ UploadAccounted
  BY DEF IInv
<1>1. WorksOn(r)
  BY <1>0, Names, Finished DEF WorksOn, RetryTomb, TypeOK
<1>2. Untouched
  BY Names DEF Untouched, RetryTomb, sendVars, clientVars
<1>3. \A u \in Uploads :
          r \in Reapers /\ job'[r] # Resting /\ job'[r].attachment = u
          /\ job'[r].stage = "deleted" => u \notin object'
  <2>1. job'[r] = Resting
    BY <1>0, Names, Finished DEF RetryTomb
  <2> QED
    BY <2>1
<1>4. r \in Runtimes
  BY Names
<1>5. /\ UploadInv' /\ AskedInv' /\ MessageComplete'
      /\ UploadAccounted' /\ WorkerInv' /\ ReaperInv'
  BY <1>1, <1>2, <1>3, <1>4, RuntimeKeeps
<1>6. TypeOK'
  <2>1. tombLease' \in [Attachments -> Leases]
    <3>1. [Free EXCEPT !.delayed = TRUE] \in Leases
      BY LeaseTypes
    <3> QED
      BY <1>0, <3>1 DEF TypeOK, RetryTomb
  <2> QED
    BY <1>0, <1>1, <2>1, Names DEF TypeOK, WorksOn, RetryTomb, sendVars, clientVars
<1>7. LeaseInv'
  BY <1>0 DEF LeaseInv, RetryTomb
<1>8. StoredKept
  BY DEF StoredKept, RetryTomb
<1> QED
  BY <1>5, <1>6, <1>7, <1>8 DEF IInv

LEMMA RuntimeCrashesKeeps ==
    ASSUME IInv, NEW r \in Runtimes, RuntimeCrashes(r)
    PROVE  IInv' /\ StoredKept
<1>0. /\ TypeOK /\ UploadInv /\ ReaperInv /\ WorkerInv /\ LeaseInv /\ AskedInv
      /\ MessageComplete /\ UploadAccounted
  BY DEF IInv
<1>1. WorksOn(r)
  BY <1>0, Finished DEF WorksOn, RuntimeCrashes, TypeOK
<1>2. Untouched
  <2>1. \A b \in todo[r] :
          /\ r \in Workers => b \in Inbound
          /\ r \in Reapers /\ b \in Uploads => Dead(b)
    BY <1>0 DEF WorkerInv, ReaperInv
  <2>2. \A u \in Uploads :
          /\ u \in object' => u \in object
          /\ u \in object /\ u \notin object' => Dead(u)
    <3>1. \/ object' = object
          \/ r \in Workers /\ \E b \in todo[r] : object' = object \union {b}
          \/ r \in Reapers /\ \E b \in todo[r] : object' = object \ {b}
      BY DEF RuntimeCrashes
    <3>2. CASE r \in Workers /\ \E b \in todo[r] : object' = object \union {b}
      <4>1. PICK b \in todo[r] : object' = object \union {b}
        BY <3>2
      <4>2. b \in Inbound
        BY <2>1, <3>2, <4>1
      <4> QED
        BY <4>1, <4>2, Names
    <3>3. CASE r \in Reapers /\ \E b \in todo[r] : object' = object \ {b}
      <4>1. PICK b \in todo[r] : object' = object \ {b}
        BY <3>3
      <4> QED
        BY <2>1, <3>3, <4>1
    <3> QED
      BY <3>1, <3>2, <3>3
  <2> QED
    BY <2>2 DEF Untouched, RuntimeCrashes, sendVars, clientVars
<1>3. \A u \in Uploads :
          r \in Reapers /\ job'[r] # Resting /\ job'[r].attachment = u
          /\ job'[r].stage = "deleted" => u \notin object'
  <2>1. job'[r] = Resting
    BY <1>0, Names, Finished DEF RuntimeCrashes
  <2> QED
    BY <2>1
<1>4. r \in Runtimes
  BY Names
<1>5. /\ UploadInv' /\ AskedInv' /\ MessageComplete'
      /\ UploadAccounted' /\ WorkerInv' /\ ReaperInv'
  BY <1>1, <1>2, <1>3, <1>4, RuntimeKeeps
<1>6. TypeOK'
  BY <1>0, <1>1, Names, AttachmentBounds
     DEF TypeOK, WorksOn, RuntimeCrashes, sendVars, clientVars
<1>7. LeaseInv'
  BY <1>0 DEF LeaseInv, RuntimeCrashes
<1>8. StoredKept
  BY DEF StoredKept, RuntimeCrashes
<1> QED
  BY <1>5, <1>6, <1>7, <1>8 DEF IInv

LEMMA LeaseLapsesKeeps ==
    ASSUME IInv, NEW a \in Attachments, LeaseLapses(a)
    PROVE  IInv' /\ StoredKept
<1>0. /\ TypeOK /\ UploadInv /\ ReaperInv /\ WorkerInv /\ LeaseInv /\ AskedInv
      /\ MessageComplete /\ UploadAccounted
  BY DEF IInv
<1>1. TypeOK'
  <2>1. \A l \in Leases : [l EXCEPT !.lapsed = TRUE] \in Leases
    BY LeaseTypes
  <2>2. lease' \in [Attachments -> Leases] /\ tombLease' \in [Attachments -> Leases]
    BY <1>0, <2>1 DEF TypeOK, LeaseLapses
  <2> QED
    BY <1>0, <2>2 DEF TypeOK, LeaseLapses, sendVars, clientVars, runtimeVars
<1>2. LeaseInv'
  BY <1>0, Names, LeaseTypes DEF LeaseInv, UploadInv, TypeOK, LeaseLapses, Held, sendVars,
                                 clientVars, runtimeVars
<1>3. /\ UploadInv' /\ ReaperInv' /\ WorkerInv'
      /\ AskedInv' /\ MessageComplete' /\ UploadAccounted'
  BY <1>0 DEF UploadInv, ReaperInv, WorkerInv, AskedInv, MessageComplete, UploadAccounted,
              Dead, LeaseLapses, sendVars, clientVars, runtimeVars
<1>4. StoredKept
  BY DEF StoredKept, LeaseLapses, sendVars, clientVars, runtimeVars
<1> QED
  BY <1>1, <1>2, <1>3, <1>4 DEF IInv

LEMMA RetryComesDueKeeps ==
    ASSUME IInv, NEW a \in Attachments, RetryComesDue(a)
    PROVE  IInv' /\ StoredKept
<1>0. /\ TypeOK /\ UploadInv /\ ReaperInv /\ WorkerInv /\ LeaseInv /\ AskedInv
      /\ MessageComplete /\ UploadAccounted
  BY DEF IInv
<1>1. TypeOK'
  <2>1. \A l \in Leases : [l EXCEPT !.delayed = FALSE] \in Leases
    BY LeaseTypes
  <2>2. lease' \in [Attachments -> Leases] /\ tombLease' \in [Attachments -> Leases]
    BY <1>0, <2>1 DEF TypeOK, RetryComesDue
  <2> QED
    BY <1>0, <2>2 DEF TypeOK, RetryComesDue, sendVars, clientVars, runtimeVars
<1>2. LeaseInv'
  <2>1. \A l \in Leases : [l EXCEPT !.delayed = FALSE].holder = l.holder
    BY LeaseTypes
  <2>2. \A c \in Attachments : lease'[c].holder = lease[c].holder
    <3>1. \/ UNCHANGED lease
          \/ lease' = [lease EXCEPT ![a] = [lease[a] EXCEPT !.delayed = FALSE]]
      BY DEF RetryComesDue
    <3>2. lease \in [Attachments -> Leases]
      BY <1>0 DEF TypeOK
    <3> QED
      BY <2>1, <3>1, <3>2
  <2> QED
    BY <1>0, <2>2 DEF LeaseInv, RetryComesDue
<1>3. /\ UploadInv' /\ ReaperInv' /\ WorkerInv'
      /\ AskedInv' /\ MessageComplete' /\ UploadAccounted'
  BY <1>0 DEF UploadInv, ReaperInv, WorkerInv, AskedInv, MessageComplete, UploadAccounted,
              Dead, RetryComesDue, sendVars, clientVars, runtimeVars
<1>4. StoredKept
  BY DEF StoredKept, RetryComesDue, sendVars, clientVars, runtimeVars
<1> QED
  BY <1>1, <1>2, <1>3, <1>4 DEF IInv

-----------------------------------------------------------------------------
(* The invariant holds.                                                    *)

LEMMA IInvInit == Init => IInv
<1> SUFFICES ASSUME Init PROVE IInv
  OBVIOUS
<1>1. TypeOK
  BY LeaseTypes, AttachmentBounds DEF Init, TypeOK, Jobs
<1>2. UploadInv /\ ReaperInv /\ WorkerInv
  BY Names DEF Init, UploadInv, ReaperInv, WorkerInv
<1>3. LeaseInv
  BY LeaseTypes DEF Init, LeaseInv
<1>4. AskedInv /\ MessageComplete /\ UploadAccounted
  BY DEF Init, AskedInv, MessageComplete, UploadAccounted
<1> QED
  BY <1>1, <1>2, <1>3, <1>4 DEF IInv

LEMMA UploadSteps ==
    ASSUME IInv, NEW u \in Uploads, UploadRequest(u) \/ UploadCrashes(u) \/ GrowsOld(u)
    PROVE  IInv' /\ StoredKept
BY PutUploadKeeps, PutUploadFailsKeeps, CreateRowKeeps, CreateRowFailsKeeps,
   DiscardUploadKeeps, UploadCrashesKeeps, GrowsOldKeeps DEF UploadRequest

LEMMA IngestSteps ==
    ASSUME IInv, NEW w \in Workers, Ingest(w)
    PROVE  IInv' /\ StoredKept
BY ClaimPendingKeeps, StoreObjectKeeps, StoreFailsKeeps, TooLargeKeeps, RecordKeeps,
   RecordLostKeeps, RecordFailsKeeps, DiscardCopyKeeps, FailKeeps DEF Ingest

LEMMA ReaperSteps ==
    ASSUME IInv, NEW r \in Reapers, Reap(r)
    PROVE  IInv' /\ StoredKept
BY ExpireKeeps, ClaimTombsKeeps, DeleteObjectKeeps, DeleteObjectFailsKeeps, ForgetKeeps,
   ForgetFailsKeeps, RetryTombKeeps DEF Reap

LEMMA IInvStep == IInv /\ [Next]_vars => IInv' /\ StoredKept
<1> SUFFICES ASSUME IInv, [Next]_vars PROVE IInv' /\ StoredKept
  OBVIOUS
<1>1. CASE \E u \in Uploads : UploadRequest(u) \/ UploadCrashes(u) \/ GrowsOld(u)
  BY <1>1, UploadSteps
<1>2. CASE \E m \in Messages, refs \in SUBSET Uploads : SendWith(m, refs)
  BY <1>2, SendWithKeeps
<1>3. CASE \E m \in Messages, A \in SUBSET Inbound : Receive(m, A)
  BY <1>3, ReceiveKeeps
<1>4. CASE \E m \in Messages : Delete(m)
  BY <1>4, DeleteKeeps
<1>5. CASE \E w \in Workers : Ingest(w)
  BY <1>5, IngestSteps
<1>6. CASE \E r \in Reapers : Reap(r)
  BY <1>6, ReaperSteps
<1>7. CASE \E r \in Runtimes : RuntimeCrashes(r)
  BY <1>7, RuntimeCrashesKeeps
<1>8. CASE \E a \in Attachments : LeaseLapses(a) \/ RetryComesDue(a)
  BY <1>8, LeaseLapsesKeeps, RetryComesDueKeeps
<1>9. CASE UNCHANGED vars
  <2>1. UNCHANGED <<row, owner, message, asked, upload, old, lease, attempts, tomb, tombLease,
                    object, todo, job, crashes>>
    BY <1>9 DEF vars, sendVars, clientVars, runtimeVars
  <2>2. TypeOK' /\ UploadInv' /\ ReaperInv' /\ WorkerInv'
    BY <2>1 DEF IInv, TypeOK, UploadInv, ReaperInv, WorkerInv, Dead
  <2>3. LeaseInv' /\ AskedInv' /\ MessageComplete' /\ UploadAccounted' /\ StoredKept
    BY <2>1 DEF IInv, LeaseInv, AskedInv, MessageComplete, UploadAccounted, StoredKept
  <2> QED
    BY <2>2, <2>3 DEF IInv
<1> QED
  BY <1>1, <1>2, <1>3, <1>4, <1>5, <1>6, <1>7, <1>8, <1>9 DEF Next

LEMMA Invariance == Spec => []IInv
<1>1. IInv /\ [Next]_vars => IInv'
  BY IInvStep
<1> QED
  BY IInvInit, <1>1, PTL DEF Spec

\* The rows, leases, tombstones and jobs have their types.
THEOREM TypeCorrect == Spec => []TypeOK
<1>1. IInv => TypeOK
  BY DEF IInv
<1> QED
  BY Invariance, <1>1, PTL

\* A message that exists has every upload it was sent with, stored and with its
\* object, whatever other sends, expiries and reapers do.
THEOREM MessagesWhole == Spec => []MessageComplete
<1>1. IInv => MessageComplete
  BY DEF IInv
<1> QED
  BY Invariance, <1>1, PTL

\* No uploaded object is forgotten, except by a request that was cut off.
THEOREM UploadsAccounted == Spec => []UploadAccounted
<1>1. IInv => UploadAccounted
  BY DEF IInv
<1> QED
  BY Invariance, <1>1, PTL

\* A stored attachment is never reopened or failed by a slower worker.
THEOREM StoredIsFinal == Spec => StoredStays
<1>1. IInv /\ [Next]_vars =>
        [\A a \in Attachments : row[a] = "stored" => row'[a] \in {"stored", "deleted"}]_vars
  BY IInvStep DEF StoredKept
<1> QED
  BY Invariance, <1>1, PTL DEF Spec, StoredStays
=============================================================================
