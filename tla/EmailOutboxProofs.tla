------------------------- MODULE EmailOutboxProofs -------------------------
(***************************************************************************)
(* Proofs about the batch lane, for any messages, conversations, workers,  *)
(* batch ids, batch size and number of crashes, by itself and under the    *)
(* schedulers and requests of OutboxDrain.                                 *)
(***************************************************************************)
EXTENDS OutboxDrain, WellFoundedInduction, NaturalsInduction, TLAPS

-----------------------------------------------------------------------------
(* Types.                                                                  *)

\* An accepted answer carries the ids of the payload the worker posted, place
\* by place.
AcceptedIds ==
    \A w \in Workers :
        job[w].answer = "accepted" =>
            job[w].pc = "answered" /\ job[w].ids = job[w].payload

TypeInv == TypeOK /\ AcceptedIds

LEMMA PayloadFacts ==
    ASSUME NEW p \in Payloads
    PROVE  /\ Range(p) \subseteq Msgs
           /\ DOMAIN p \subseteq Nat
           /\ \A i \in DOMAIN p : p[i] \in Msgs
BY DEF Payloads, Range

LEMMA JobFacts ==
    ASSUME TypeOK, NEW w \in Workers
    PROVE  /\ job[w].pc = "idle" => job[w] = Idle
           /\ job[w].pc # "idle" =>
                /\ job[w].batch \in Batches
                /\ job[w].payload \in Payloads
                /\ job[w] \in [pc : {"claimed", "sending", "answered"},
                               batch : Batches, payload : Payloads,
                               again : BOOLEAN, answer : Answers,
                               ids : Payloads \union {Idle.ids}]
BY DEF TypeOK, Jobs, Idle

LEMMA IdleFacts ==
    /\ Idle \in Jobs
    /\ Idle.pc = "idle" /\ Idle.batch = NoBatch /\ Idle.answer = "none"
BY DEF Idle, Jobs

LEMMA StartJobType ==
    ASSUME TypeInv, NEW w \in Workers, NEW b \in Batches, NEW p \in Payloads,
           NEW j, j = Claimed(b, p, TRUE) \/ j = Claimed(b, p, FALSE),
           job' = [job EXCEPT ![w] = j]
    PROVE  job' \in [Workers -> Jobs] /\ AcceptedIds'
<1>1. j \in Jobs /\ j.answer = "none"
  BY DEF Claimed, Idle, Jobs, Answers
<1> QED
  BY <1>1 DEF TypeInv, TypeOK, AcceptedIds

LEMMA AnsweredFacts ==
    ASSUME TypeOK, NEW w \in Workers, job[w].pc = "sending",
           NEW answer \in Answers, NEW ids \in Payloads \union {Idle.ids}
    PROVE  LET j == Answered(job[w], answer, ids)
           IN  /\ j \in Jobs
               /\ j.pc = "answered" /\ j.answer = answer /\ j.ids = ids
               /\ j.batch = job[w].batch /\ j.payload = job[w].payload
               /\ j.again = job[w].again
BY JobFacts DEF Answered, Jobs

LEMMA ReplyFacts ==
    ASSUME TypeInv, NEW r \in wire, NEW answer \in Answers,
           NEW ids \in Payloads \union {Idle.ids},
           answer = "accepted" => ids = r.payload,
           Reply(r, answer, ids)
    PROVE  /\ job' \in [Workers -> Jobs]
           /\ AcceptedIds'
           /\ wire' \subseteq wire
           /\ \A w \in Workers :
                 \/ job'[w] = job[w]
                 \/ /\ w = r.worker
                    /\ job[w].pc = "sending"
                    /\ job[w].batch = r.key
                    /\ job[w].payload = r.payload
                    /\ job'[w] = Answered(job[w], answer, ids)
<1> USE DEF TypeInv
<1>1. r \in Requests /\ r.worker \in Workers
  BY DEF TypeOK, Requests
<1>2. job[r.worker].pc = "sending" =>
        Answered(job[r.worker], answer, ids) \in Jobs
  BY <1>1, AnsweredFacts
<1>3. job \in [Workers -> Jobs]
  BY DEF TypeOK
<1>4. \A w \in Workers :
         \/ job'[w] = job[w]
         \/ /\ w = r.worker
            /\ job[w].pc = "sending"
            /\ job[w].batch = r.key
            /\ job[w].payload = r.payload
            /\ job'[w] = Answered(job[w], answer, ids)
  BY <1>1, <1>3 DEF Reply
<1>5. job' \in [Workers -> Jobs]
  BY <1>1, <1>2, <1>3 DEF Reply
<1>6. AcceptedIds'
  BY <1>1, <1>4, AnsweredFacts, JobFacts DEF AcceptedIds
<1> QED
  BY <1>4, <1>5, <1>6 DEF Reply

LEMMA EndJobType ==
    ASSUME TypeInv, NEW w \in Workers, job' = [job EXCEPT ![w] = Idle]
    PROVE  job' \in [Workers -> Jobs] /\ AcceptedIds'
BY IdleFacts DEF TypeInv, TypeOK, AcceptedIds

LEMMA SettledType ==
    ASSUME TypeOK, NEW w \in Workers, NEW o \in Settled, SettledAs(w, o)
    PROVE  state' \in [Msgs -> States]
BY DEF TypeOK, SettledAs, Settled, States

LEMMA RemovedType ==
    ASSUME TypeOK, NEW b \in Batches, RemoveBatch(b)
    PROVE  /\ entries' \subseteq Msgs
           /\ row' \in [Batches -> {"unused", "open", "deleted"}]
           /\ holder' \in [Batches -> SUBSET Workers]
           /\ lapsed' \subseteq Batches
           /\ due' \subseteq Batches
BY DEF TypeOK, RemoveBatch, Members

\* With AcceptedIds, the id recorded for a sent message is the one named by
\* the message itself.
LEMMA IdsForSent ==
    ASSUME TypeInv, NEW w \in Workers, job[w].answer = "accepted",
           NEW m \in Sent(w)
    PROVE  IdsFor(w, m) = {m}
<1>1. PICK i \in DOMAIN job[w].payload : job[w].payload[i] = m
  BY DEF Sent, Range
<1>2. job[w].ids = job[w].payload
  BY DEF TypeInv, AcceptedIds
<1> QED
  BY <1>1, <1>2 DEF IdsFor, PositionsOf

LEMMA TypeStep == TypeInv /\ [Next]_vars => TypeInv'
<1> SUFFICES ASSUME TypeInv, [Next]_vars
             PROVE  TypeInv'
  OBVIOUS
<1> USE DEF tableVars, batchVars, providerVars
<1>1. ASSUME NEW m \in Msgs, Enqueue(m)
      PROVE  TypeInv'
  BY <1>1 DEF TypeInv, TypeOK, AcceptedIds, Enqueue, States
<1>2. ASSUME NEW c \in Convs, DeleteConversation(c)
      PROVE  TypeInv'
  BY <1>2 DEF TypeInv, TypeOK, AcceptedIds, DeleteConversation, States
<1>3. ASSUME NEW w \in Workers, ClaimNewBatch(w)
      PROVE  TypeInv'
  <2>1. PICK b \in Batches, p \in Payloads :
          /\ batchOf' = [m \in Msgs |-> IF m \in Range(p) THEN b ELSE batchOf[m]]
          /\ position' = [m \in Msgs |-> IF m \in Range(p)
                                           THEN CHOOSE i \in DOMAIN p : p[i] = m
                                           ELSE position[m]]
          /\ row' = [row EXCEPT ![b] = "open"]
          /\ holder' = [holder EXCEPT ![b] = {w}]
          /\ due' = due \union {b}
          /\ job' = [job EXCEPT ![w] = Claimed(b, p, FALSE)]
    BY <1>3 DEF ClaimNewBatch
  <2>2. position' \in [Msgs -> Nat]
    <3>1. ASSUME NEW m \in Range(p)
          PROVE  (CHOOSE i \in DOMAIN p : p[i] = m) \in Nat
      BY <3>1, PayloadFacts DEF Range
    <3> QED
      BY <2>1, <3>1 DEF TypeInv, TypeOK
  <2>3. job' \in [Workers -> Jobs] /\ AcceptedIds'
    BY <2>1, StartJobType
  <2>4. batchOf' \in [Msgs -> Batches \union {NoBatch}]
    BY <2>1 DEF TypeInv, TypeOK
  <2>5. /\ row' \in [Batches -> {"unused", "open", "deleted"}]
        /\ holder' \in [Batches -> SUBSET Workers]
        /\ due' \subseteq Batches
    BY <2>1 DEF TypeInv, TypeOK
  <2>6. /\ entries' \subseteq Msgs
        /\ UNCHANGED <<state, resendId, lapsed, expired, wire, providerVars, crashes>>
    BY <1>3 DEF ClaimNewBatch, TypeInv, TypeOK
  <2>7. TypeOK'
    BY <2>2, <2>3, <2>4, <2>5, <2>6 DEF TypeInv, TypeOK
  <2> QED
    BY <2>3, <2>7 DEF TypeInv
<1>4. ASSUME NEW w \in Workers, NEW b \in Batches, ClaimRetry(w, b)
      PROVE  TypeInv'
  <2>1. job' \in [Workers -> Jobs] /\ AcceptedIds'
    <3>1. CASE UNCHANGED job
      BY <3>1 DEF TypeInv, TypeOK, AcceptedIds
    <3>2. ASSUME NEW p \in Payloads, job' = [job EXCEPT ![w] = Claimed(b, p, TRUE)]
          PROVE  job' \in [Workers -> Jobs] /\ AcceptedIds'
      BY <3>2, StartJobType
    <3> QED
      BY <1>4, <3>1, <3>2 DEF ClaimRetry
  <2> QED
    BY <1>4, <2>1 DEF TypeInv, TypeOK, ClaimRetry
<1>5. ASSUME NEW w \in Workers, Send(w)
      PROVE  TypeInv'
  <2>1. job[w].batch \in Batches /\ job[w].payload \in Payloads
    BY <1>5, JobFacts DEF Send, TypeInv
  <2>2. wire' \subseteq Requests
    BY <1>5, <2>1 DEF Send, TypeInv, TypeOK, Requests
  <2>3. [job[w] EXCEPT !.pc = "sending"] \in Jobs
    BY <1>5, JobFacts DEF Send, Jobs, TypeInv
  <2>4. job' \in [Workers -> Jobs]
    BY <1>5, <2>3 DEF Send, TypeInv, TypeOK
  <2>5. AcceptedIds'
    BY <1>5, JobFacts DEF Send, TypeInv, TypeOK, AcceptedIds
  <2> QED
    BY <1>5, <2>2, <2>4, <2>5 DEF TypeInv, TypeOK, Send
<1>6. ASSUME NEW w \in Workers, StopWaiting(w)
      PROVE  TypeInv'
  <2>1. "retryable" \in Answers
    BY DEF Answers
  <2>2. job' \in [Workers -> Jobs] /\ AcceptedIds'
    BY <1>6, <2>1, AnsweredFacts DEF StopWaiting, TypeInv, TypeOK, AcceptedIds
  <2> QED
    BY <1>6, <2>2 DEF TypeInv, TypeOK, StopWaiting
<1>7. ASSUME NEW r \in wire, ProviderMails(r)
      PROVE  TypeInv'
  <2>1. r \in Requests
    BY DEF TypeInv, TypeOK
  <2>2. job' \in [Workers -> Jobs] /\ AcceptedIds' /\ wire' \subseteq wire
    BY <1>7, <2>1, ReplyFacts DEF ProviderMails, Requests, Answers
  <2>3. bound' \in [Batches -> SUBSET Payloads]
    BY <1>7, <2>1 DEF ProviderMails, Requests, TypeInv, TypeOK
  <2>4. mailed' \in [Msgs -> Nat]
    BY <1>7 DEF ProviderMails, TypeInv, TypeOK
  <2> QED
    BY <1>7, <2>2, <2>3, <2>4 DEF TypeInv, TypeOK, ProviderMails
<1>8. ASSUME NEW r \in wire, ProviderReplays(r)
      PROVE  TypeInv'
  <2>1. r \in Requests
    BY DEF TypeInv, TypeOK
  <2>2. job' \in [Workers -> Jobs] /\ AcceptedIds' /\ wire' \subseteq wire
    BY <1>8, <2>1, ReplyFacts DEF ProviderReplays, Requests, Answers
  <2> QED
    BY <1>8, <2>2 DEF TypeInv, TypeOK, ProviderReplays
<1>9. ASSUME NEW r \in wire, ProviderRefuses(r)
      PROVE  TypeInv'
  <2>1. job' \in [Workers -> Jobs] /\ AcceptedIds' /\ wire' \subseteq wire
    <3>1. ASSUME NEW a \in {"retryable", "rejected"}, Reply(r, a, Idle.ids)
          PROVE  job' \in [Workers -> Jobs] /\ AcceptedIds' /\ wire' \subseteq wire
      BY <3>1, ReplyFacts DEF Answers
    <3>2. CASE wire' = wire \ {r} /\ UNCHANGED job
      BY <3>2 DEF TypeInv, TypeOK, AcceptedIds
    <3> QED
      BY <1>9, <3>1, <3>2 DEF ProviderRefuses
  <2> QED
    BY <1>9, <2>1 DEF TypeInv, TypeOK, ProviderRefuses
<1>10. ASSUME NEW b \in Batches, ProviderForgets(b)
       PROVE  TypeInv'
  BY <1>10 DEF TypeInv, TypeOK, AcceptedIds, ProviderForgets
<1>11. ASSUME NEW w \in Workers, FinalizeAccepted(w)
       PROVE  TypeInv'
  <2>1. job[w].batch \in Batches /\ Sent(w) \subseteq Msgs
    BY <1>11, JobFacts, PayloadFacts DEF FinalizeAccepted, TypeInv, Sent
  <2>2. resendId' \in [Msgs -> SUBSET Msgs]
    BY <1>11, <2>1, IdsForSent DEF FinalizeAccepted, TypeInv, TypeOK
  <2>3. state' \in [Msgs -> States]
    BY <1>11, SettledType DEF FinalizeAccepted, Settled, TypeInv
  <2>4. RemoveBatch(job[w].batch) /\ job' = [job EXCEPT ![w] = Idle]
    BY <1>11 DEF FinalizeAccepted, EndJob
  <2> QED
    BY <1>11, <2>1, <2>2, <2>3, <2>4, RemovedType, EndJobType
    DEF FinalizeAccepted, EndJob, RemoveBatch, TypeInv, TypeOK
<1>12. ASSUME NEW w \in Workers, FinalizeFailed(w)
       PROVE  TypeInv'
  <2>1. job[w].batch \in Batches
    BY <1>12, JobFacts DEF FinalizeFailed, TypeInv
  <2>2. state' \in [Msgs -> States]
    BY <1>12, SettledType DEF FinalizeFailed, Settled, TypeInv
  <2>3. RemoveBatch(job[w].batch) /\ job' = [job EXCEPT ![w] = Idle]
    BY <1>12 DEF FinalizeFailed, EndJob
  <2> QED
    BY <1>12, <2>1, <2>2, <2>3, RemovedType, EndJobType
    DEF FinalizeFailed, EndJob, RemoveBatch, TypeInv, TypeOK
<1>13. ASSUME NEW w \in Workers, FinalizeIndeterminate(w)
       PROVE  TypeInv'
  <2>1. job[w].batch \in Batches
    BY <1>13, JobFacts DEF FinalizeIndeterminate, Owns, TypeInv
  <2>2. state' \in [Msgs -> States]
    BY <1>13, SettledType DEF FinalizeIndeterminate, Settled, TypeInv
  <2>3. RemoveBatch(job[w].batch) /\ job' = [job EXCEPT ![w] = Idle]
    BY <1>13 DEF FinalizeIndeterminate, EndJob
  <2> QED
    BY <1>13, <2>1, <2>2, <2>3, RemovedType, EndJobType
    DEF FinalizeIndeterminate, EndJob, RemoveBatch, TypeInv, TypeOK
<1>14. ASSUME NEW w \in Workers, ScheduleRetry(w)
       PROVE  TypeInv'
  <2>1. job[w].batch \in Batches
    BY <1>14, JobFacts DEF ScheduleRetry, TypeInv
  <2> QED
    BY <1>14, <2>1, EndJobType DEF ScheduleRetry, EndJob, TypeInv, TypeOK
<1>15. ASSUME NEW w \in Workers, FinalizerThrows(w)
       PROVE  TypeInv'
  <2>1. job' \in [Workers -> Jobs] /\ AcceptedIds'
    BY <1>15, EndJobType DEF FinalizerThrows, EndJob
  <2> QED
    BY <1>15, <2>1 DEF FinalizerThrows, EndJob, TypeInv, TypeOK
<1>16. ASSUME NEW w \in Workers, Crash(w)
       PROVE  TypeInv'
  <2>1. job' \in [Workers -> Jobs] /\ AcceptedIds'
    BY <1>16, EndJobType DEF Crash
  <2>2. crashes' \in 0 .. MaxCrashes
    BY <1>16, BoundAssumption DEF Crash, TypeInv, TypeOK
  <2> QED
    BY <1>16, <2>1, <2>2 DEF Crash, TypeInv, TypeOK
<1>17. ASSUME NEW b \in Batches, Clock(b)
       PROVE  TypeInv'
  BY <1>17 DEF Clock, LeaseLapses, RetryComesDue, WindowExpires, TypeInv,
               TypeOK, AcceptedIds
<1>18. CASE UNCHANGED vars
  BY <1>18 DEF vars, TypeInv, TypeOK, AcceptedIds
<1> QED
  BY <1>1, <1>2, <1>3, <1>4, <1>5, <1>6, <1>7, <1>8, <1>9, <1>10, <1>11, <1>12,
     <1>13, <1>14, <1>15, <1>16, <1>17, <1>18
  DEF Next, Drain, Finalize, Provider

\* Every variable keeps its type, through crashes, lapsed leases and answers
\* that come late.
THEOREM TypeCorrect == Spec => []TypeOK
<1>1. Init => TypeInv
  BY IdleFacts, BoundAssumption DEF Init, TypeInv, TypeOK, AcceptedIds, States
<1>2. TypeInv => TypeOK
  BY DEF TypeInv
<1> QED
  BY <1>1, <1>2, TypeStep, PTL DEF Spec
-----------------------------------------------------------------------------
(* A message is posted under one key only.                                 *)

\* A message sits in one batch for good: whatever a worker remembers, the
\* wire carries or the provider has bound under a key, is of that batch.
OneKey ==
    /\ \A m \in Msgs : batchOf[m] \in Batches =>
            row[batchOf[m]] # "unused" /\ state[m] # "ABSENT"
    /\ \A w \in Workers : job[w].pc # "idle" =>
            /\ row[job[w].batch] # "unused"
            /\ \A m \in Sent(w) : batchOf[m] = job[w].batch
    /\ \A r \in wire :
            /\ row[r.key] # "unused"
            /\ \A m \in Range(r.payload) : batchOf[m] = r.key
    /\ \A b \in Batches : \A p \in bound[b] :
            /\ row[b] # "unused"
            /\ \A m \in Range(p) : batchOf[m] = b

\* A message in the queue is waiting for its outcome, and a batch it is in is
\* open; the drain that owns a batch posted every message still in it.
QueueInv ==
    /\ PendingIffQueued
    /\ \A w \in Workers : Owns(w) => Members(job[w].batch) \subseteq Sent(w)

\* What a step may do to a worker's memory of its batch.
KeepsJob(w) ==
    \/ job'[w] = job[w]
    \/ job'[w] = Idle
    \/ /\ job[w].pc # "idle"
       /\ job'[w].pc # "idle"
       /\ job'[w].batch = job[w].batch
       /\ job'[w].payload = job[w].payload

LEMMA ReplyKeepsJob ==
    ASSUME TypeInv, NEW r \in wire, NEW answer \in Answers,
           NEW ids \in Payloads \union {Idle.ids},
           answer = "accepted" => ids = r.payload,
           Reply(r, answer, ids)
    PROVE  \A w \in Workers : KeepsJob(w)
<1>1. ASSUME NEW w \in Workers, job[w].pc = "sending",
             job'[w] = Answered(job[w], answer, ids)
      PROVE  KeepsJob(w)
  BY <1>1, AnsweredFacts DEF KeepsJob, TypeInv
<1> QED
  BY <1>1, ReplyFacts DEF KeepsJob

LEMMA EndJobKeepsJob ==
    ASSUME TypeInv, NEW v \in Workers, job' = [job EXCEPT ![v] = Idle]
    PROVE  \A w \in Workers : KeepsJob(w)
BY DEF KeepsJob, TypeInv, TypeOK

\* OneKey is kept by every step that assigns no batch and starts no job.
LEMMA OneKeyKept ==
    ASSUME TypeInv, OneKey, TypeInv',
           UNCHANGED batchOf,
           \A b \in Batches : row[b] # "unused" => row'[b] # "unused",
           \A m \in Msgs : state[m] # "ABSENT" => state'[m] # "ABSENT",
           \A w \in Workers : KeepsJob(w),
           wire' \subseteq wire,
           \A b \in Batches : \A p \in bound'[b] :
              \/ p \in bound[b]
              \/ \E r \in wire : r.key = b /\ r.payload = p
    PROVE  OneKey'
<1>1. \A m \in Msgs : batchOf'[m] \in Batches =>
         row'[batchOf'[m]] # "unused" /\ state'[m] # "ABSENT"
  BY DEF OneKey
<1>2. ASSUME NEW w \in Workers, job'[w].pc # "idle"
      PROVE  /\ row'[job'[w].batch] # "unused"
             /\ \A m \in Sent(w)' : batchOf'[m] = job'[w].batch
  <2>1. /\ job[w].pc # "idle"
        /\ job'[w].batch = job[w].batch
        /\ job'[w].payload = job[w].payload
    BY <1>2, IdleFacts DEF KeepsJob
  <2>2. job[w].batch \in Batches
    BY <2>1, JobFacts DEF TypeInv
  <2> QED
    BY <2>1, <2>2 DEF OneKey, Sent
<1>3. \A r \in wire' : /\ row'[r.key] # "unused"
                      /\ \A m \in Range(r.payload) : batchOf'[m] = r.key
  BY DEF OneKey, TypeInv, TypeOK, Requests
<1>4. \A b \in Batches : \A p \in bound'[b] :
         row'[b] # "unused" /\ \A m \in Range(p) : batchOf'[m] = b
  BY DEF OneKey
<1> QED
  BY <1>1, <1>2, <1>3, <1>4 DEF OneKey
LEMMA UnbatchedFacts ==
    \A m \in Unbatched : m \in entries /\ batchOf[m] = NoBatch /\ state[m] = "PENDING"
BY DEF Unbatched

LEMMA OneKeyStep == TypeInv /\ OneKey /\ [Next]_vars => OneKey'
<1> SUFFICES ASSUME TypeInv, OneKey, [Next]_vars
             PROVE  OneKey'
  OBVIOUS
<1>0. TypeInv'
  BY TypeStep
<1> USE <1>0 DEF tableVars, batchVars, providerVars
<1>a. UNCHANGED job => \A w \in Workers : KeepsJob(w)
  BY DEF KeepsJob
<1>1. ASSUME NEW m \in Msgs, Enqueue(m)
      PROVE  OneKey'
  BY <1>1, <1>a, OneKeyKept DEF Enqueue, TypeInv, TypeOK
<1>2. ASSUME NEW c \in Convs, DeleteConversation(c)
      PROVE  OneKey'
  BY <1>2, <1>a, OneKeyKept DEF DeleteConversation, TypeInv, TypeOK
<1>3. ASSUME NEW w \in Workers, ClaimNewBatch(w)
      PROVE  OneKey'
  <2>1. PICK b \in Batches, p \in Payloads :
          /\ row[b] = "unused"
          /\ Range(p) \subseteq Unbatched
          /\ batchOf' = [m \in Msgs |-> IF m \in Range(p) THEN b ELSE batchOf[m]]
          /\ row' = [row EXCEPT ![b] = "open"]
          /\ job' = [job EXCEPT ![w] = Claimed(b, p, FALSE)]
    BY <1>3 DEF ClaimNewBatch
  <2>2. UNCHANGED <<state, wire, bound>>
    BY <1>3 DEF ClaimNewBatch
  <2>3. \A m \in Msgs : batchOf[m] \in Batches => batchOf'[m] = batchOf[m]
    BY <2>1, UnbatchedFacts, BatchAssumption
  <2>4. \A m \in Range(p) : m \in Msgs /\ batchOf'[m] = b /\ state[m] = "PENDING"
    BY <2>1, PayloadFacts, UnbatchedFacts
  <2>5. row'[b] = "open" /\ \A a \in Batches : row[a] # "unused" => row'[a] # "unused"
    BY <2>1 DEF TypeInv, TypeOK
  <2>6. \A m \in Msgs : batchOf'[m] \in Batches =>
           row'[batchOf'[m]] # "unused" /\ state'[m] # "ABSENT"
    BY <2>1, <2>2, <2>3, <2>4, <2>5 DEF OneKey
  <2>7. ASSUME NEW v \in Workers, job'[v].pc # "idle"
        PROVE  /\ row'[job'[v].batch] # "unused"
               /\ \A m \in Sent(v)' : batchOf'[m] = job'[v].batch
    <3>1. CASE v = w
      <4>1. job'[v].batch = b /\ job'[v].payload = p
        BY <2>1, <3>1 DEF TypeInv, TypeOK, Claimed, Idle
      <4> QED
        BY <4>1, <2>4, <2>5 DEF Sent
    <3>2. CASE v # w
      <4>1. job'[v] = job[v]
        BY <2>1, <3>2 DEF TypeInv, TypeOK
      <4>2. job[v].batch \in Batches /\ Sent(v) \subseteq Msgs
        BY <4>1, <2>7, JobFacts, PayloadFacts DEF TypeInv, Sent
      <4> QED
        BY <4>1, <4>2, <2>3, <2>5, <2>7 DEF OneKey, Sent
    <3> QED
      BY <3>1, <3>2
  <2>8. ASSUME NEW r \in wire'
        PROVE  row'[r.key] # "unused" /\ \A m \in Range(r.payload) : batchOf'[m] = r.key
    <3>1. r \in wire /\ r.key \in Batches /\ Range(r.payload) \subseteq Msgs
      BY <2>2, PayloadFacts DEF TypeInv, TypeOK, Requests
    <3> QED
      BY <3>1, <2>3, <2>5 DEF OneKey
  <2>9. ASSUME NEW a \in Batches, NEW q \in bound'[a]
        PROVE  row'[a] # "unused" /\ \A m \in Range(q) : batchOf'[m] = a
    <3>1. q \in bound[a] /\ Range(q) \subseteq Msgs
      BY <2>2, PayloadFacts DEF TypeInv, TypeOK
    <3> QED
      BY <3>1, <2>3, <2>5 DEF OneKey
  <2> QED
    BY <2>6, <2>7, <2>8, <2>9 DEF OneKey
<1>4. ASSUME NEW w \in Workers, NEW b \in Batches, ClaimRetry(w, b)
      PROVE  OneKey'
  <2>1. PICK p \in Payloads :
          /\ IsPayloadOf(p, b)
          /\ job' = job \/ job' = [job EXCEPT ![w] = Claimed(b, p, TRUE)]
    BY <1>4 DEF ClaimRetry
  <2>2. UNCHANGED <<state, batchOf, row, wire, bound>> /\ row[b] = "open"
    BY <1>4 DEF ClaimRetry, Retryable
  <2>3. \A m \in Range(p) : batchOf[m] = b
    BY <2>1 DEF IsPayloadOf, Members
  <2>4. ASSUME NEW v \in Workers, job'[v].pc # "idle"
        PROVE  /\ row'[job'[v].batch] # "unused"
               /\ \A m \in Sent(v)' : batchOf'[m] = job'[v].batch
    <3>1. \/ job'[v] = job[v]
          \/ job'[v].batch = b /\ job'[v].payload = p
      <4>1. job \in [Workers -> Jobs]
        BY DEF TypeInv, TypeOK
      <4>2. job'[v] = job[v] \/ job'[v] = Claimed(b, p, TRUE)
        BY <2>1, <4>1
      <4>3. Claimed(b, p, TRUE).batch = b /\ Claimed(b, p, TRUE).payload = p
        BY DEF Claimed, Idle
      <4> QED
        BY <4>2, <4>3
    <3> QED
      BY <2>2, <2>3, <2>4, <3>1 DEF OneKey, Sent
  <2> QED
    BY <2>2, <2>4 DEF OneKey
<1>5. ASSUME NEW w \in Workers, Send(w)
      PROVE  OneKey'
  <2>1. UNCHANGED <<state, batchOf, row, bound>> /\ job[w].pc = "claimed"
    BY <1>5 DEF Send
  <2>2. \A v \in Workers : job'[v].pc # "idle" =>
          job[v].pc # "idle" /\ job'[v].batch = job[v].batch
          /\ job'[v].payload = job[v].payload
    BY <1>5, JobFacts DEF Send, TypeInv, TypeOK
  <2>3. ASSUME NEW r \in wire'
        PROVE  row[r.key] # "unused" /\ \A m \in Range(r.payload) : batchOf[m] = r.key
    <3>1. r \in wire \/ (r.key = job[w].batch /\ r.payload = job[w].payload)
      BY <1>5 DEF Send
    <3> QED
      BY <3>1, <2>1 DEF OneKey, Sent
  <2> QED
    BY <2>1, <2>2, <2>3 DEF OneKey, Sent
<1>6. ASSUME NEW w \in Workers, StopWaiting(w)
      PROVE  OneKey'
  <2>1. \A v \in Workers : KeepsJob(v)
    BY <1>6, AnsweredFacts DEF StopWaiting, KeepsJob, TypeInv, TypeOK, Answers
  <2> QED
    BY <1>6, <2>1, OneKeyKept DEF StopWaiting
<1>7. ASSUME NEW r \in wire, ProviderMails(r)
      PROVE  OneKey'
  <2>1. r \in Requests
    BY DEF TypeInv, TypeOK
  <2>2. \A w \in Workers : KeepsJob(w)
    BY <1>7, <2>1, ReplyKeepsJob DEF ProviderMails, Requests, Answers
  <2>3. wire' \subseteq wire
    BY <1>7 DEF ProviderMails, Reply
  <2>4. \A b \in Batches : \A p \in bound'[b] :
           p \in bound[b] \/ (r.key = b /\ r.payload = p)
    BY <1>7 DEF ProviderMails, TypeInv, TypeOK
  <2> QED
    BY <1>7, <2>2, <2>3, <2>4, OneKeyKept DEF ProviderMails
<1>8. ASSUME NEW r \in wire, ProviderReplays(r)
      PROVE  OneKey'
  <2>1. r \in Requests
    BY DEF TypeInv, TypeOK
  <2>2. \A w \in Workers : KeepsJob(w)
    BY <1>8, <2>1, ReplyKeepsJob DEF ProviderReplays, Requests, Answers
  <2>3. wire' \subseteq wire
    BY <1>8 DEF ProviderReplays, Reply
  <2> QED
    BY <1>8, <2>2, <2>3, OneKeyKept DEF ProviderReplays
<1>9. ASSUME NEW r \in wire, ProviderRefuses(r)
      PROVE  OneKey'
  <2>1. \A w \in Workers : KeepsJob(w)
    <3>1. ASSUME NEW a \in {"retryable", "rejected"}, Reply(r, a, Idle.ids)
          PROVE  \A w \in Workers : KeepsJob(w)
      BY <3>1, ReplyKeepsJob DEF Answers
    <3> QED
      BY <1>9, <1>a, <3>1 DEF ProviderRefuses
  <2>2. wire' \subseteq wire
    BY <1>9 DEF ProviderRefuses, Reply
  <2> QED
    BY <1>9, <2>1, <2>2, OneKeyKept DEF ProviderRefuses
<1>10. ASSUME NEW b \in Batches, ProviderForgets(b)
       PROVE  OneKey'
  BY <1>10, <1>a, OneKeyKept DEF ProviderForgets, TypeInv, TypeOK
<1>11. ASSUME NEW w \in Workers, NEW o \in Settled,
              SettledAs(w, o), RemoveBatch(job[w].batch), EndJob(w)
       PROVE  OneKey'
  <2>1. \A b \in Batches : row[b] # "unused" => row'[b] # "unused"
    BY <1>11 DEF RemoveBatch, TypeInv, TypeOK
  <2>2. \A m \in Msgs : state[m] # "ABSENT" => state'[m] # "ABSENT"
    BY <1>11 DEF SettledAs, Settled, TypeInv, TypeOK
  <2> QED
    BY <1>11, <2>1, <2>2, EndJobKeepsJob, OneKeyKept DEF RemoveBatch, EndJob
<1>12. ASSUME NEW w \in Workers, Finalize(w)
       PROVE  OneKey'
  <2>1. CASE ScheduleRetry(w) \/ FinalizerThrows(w)
    BY <2>1, EndJobKeepsJob, OneKeyKept DEF ScheduleRetry, FinalizerThrows, EndJob
  <2> QED
    BY <1>11, <1>12, <2>1 DEF Finalize, FinalizeAccepted, FinalizeFailed,
                              FinalizeIndeterminate, Settled
<1>13. ASSUME NEW w \in Workers, Crash(w)
       PROVE  OneKey'
  BY <1>13, EndJobKeepsJob, OneKeyKept DEF Crash
<1>14. ASSUME NEW b \in Batches, Clock(b)
       PROVE  OneKey'
  BY <1>14, <1>a, OneKeyKept DEF Clock, LeaseLapses, RetryComesDue, WindowExpires
<1>15. CASE UNCHANGED vars
  BY <1>15, <1>a, OneKeyKept DEF vars
<1> QED
  BY <1>1, <1>2, <1>3, <1>4, <1>5, <1>6, <1>7, <1>8, <1>9, <1>10, <1>12, <1>13,
     <1>14, <1>15
  DEF Next, Drain, Provider
-----------------------------------------------------------------------------
(* At most one email, and accepted only with one.                          *)

\* Nothing will post b again: its window is over, no request is on the wire,
\* and every worker about to send would find that it is a retry past the
\* window.
Sealed(b) ==
    /\ b \in expired
    /\ \A r \in wire : r.key # b
    /\ \A w \in Workers :
          job[w].batch = b /\ job[w].pc = "claimed" => job[w].again = TRUE

\* The provider still knows the key of a mailed message, or nobody can use it.
MailInv ==
    /\ MailedAtMostOnce
    /\ \A m \in Msgs : mailed[m] # 0 =>
          /\ batchOf[m] \in Batches
          /\ bound[batchOf[m]] # {} \/ Sealed(batchOf[m])
    /\ \A b \in Batches : \A p \in bound[b] : \A m \in Range(p) : mailed[m] = 1

\* An accepted answer is about mailed messages.
AckInv ==
    /\ \A w \in Workers : job[w].answer = "accepted" =>
          \A m \in Sent(w) : mailed[m] = 1
    /\ AcceptedWasMailed

Base == TypeInv /\ OneKey

\* A step that mails nothing and starts no job keeps MailInv: a sealed key
\* stays sealed.
LEMMA MailKept ==
    ASSUME Base, MailInv, Base',
           UNCHANGED <<batchOf, mailed, bound>>,
           expired \subseteq expired', wire' \subseteq wire,
           \A w \in Workers : job'[w].pc = "claimed" => job'[w] = job[w]
    PROVE  MailInv'
<1>1. \A b \in Batches : Sealed(b) => Sealed(b)'
  BY DEF Sealed
<1> QED
  BY <1>1 DEF MailInv, MailedAtMostOnce

LEMMA ReplyStartsNoJob ==
    ASSUME TypeInv, NEW r \in wire, NEW answer \in Answers,
           NEW ids \in Payloads \union {Idle.ids},
           answer = "accepted" => ids = r.payload,
           Reply(r, answer, ids)
    PROVE  \A w \in Workers : job'[w].pc = "claimed" => job'[w] = job[w]
<1>1. ASSUME NEW w \in Workers, job[w].pc = "sending",
             job'[w] = Answered(job[w], answer, ids)
      PROVE  job'[w].pc = "answered"
  BY <1>1, AnsweredFacts DEF TypeInv
<1> QED
  BY <1>1, ReplyFacts

LEMMA EndJobStartsNoJob ==
    ASSUME TypeInv, NEW v \in Workers, job' = [job EXCEPT ![v] = Idle]
    PROVE  \A w \in Workers : job'[w].pc = "claimed" => job'[w] = job[w]
BY IdleFacts DEF TypeInv, TypeOK

LEMMA MailStep == Base /\ MailInv /\ [Next]_vars => MailInv'
<1> SUFFICES ASSUME Base, MailInv, [Next]_vars
             PROVE  MailInv'
  OBVIOUS
<1>0. Base' /\ TypeInv /\ TypeInv' /\ OneKey /\ OneKey'
  BY TypeStep, OneKeyStep DEF Base
<1> USE <1>0 DEF tableVars, batchVars, providerVars
<1>1. ASSUME NEW m \in Msgs, Enqueue(m)
      PROVE  MailInv'
  BY <1>1, MailKept DEF Enqueue
<1>2. ASSUME NEW c \in Convs, DeleteConversation(c)
      PROVE  MailInv'
  BY <1>2, MailKept DEF DeleteConversation
<1>3. ASSUME NEW w \in Workers, ClaimNewBatch(w)
      PROVE  MailInv'
  <2>1. PICK b \in Batches, p \in Payloads :
          /\ row[b] = "unused"
          /\ Range(p) \subseteq Unbatched
          /\ batchOf' = [m \in Msgs |-> IF m \in Range(p) THEN b ELSE batchOf[m]]
          /\ job' = [job EXCEPT ![w] = Claimed(b, p, FALSE)]
    BY <1>3 DEF ClaimNewBatch
  <2>2. UNCHANGED <<mailed, bound, expired, wire>>
    BY <1>3 DEF ClaimNewBatch
  <2>3. \A m \in Msgs : batchOf[m] \in Batches =>
          batchOf'[m] = batchOf[m] /\ batchOf[m] # b
    BY <2>1, UnbatchedFacts, BatchAssumption DEF OneKey
  <2>4. ASSUME NEW a \in Batches, a # b, Sealed(a)
        PROVE  Sealed(a)'
    <3>1. \A v \in Workers : job'[v].batch = a => job'[v] = job[v]
      BY <2>1, <2>4 DEF TypeInv, TypeOK, Claimed, Idle
    <3> QED
      BY <3>1, <2>2, <2>4 DEF Sealed
  <2> QED
    BY <2>2, <2>3, <2>4 DEF MailInv, MailedAtMostOnce
<1>4. ASSUME NEW w \in Workers, NEW b \in Batches, ClaimRetry(w, b)
      PROVE  MailInv'
  <2>1. PICK p \in Payloads :
          job' = job \/ job' = [job EXCEPT ![w] = Claimed(b, p, TRUE)]
    BY <1>4 DEF ClaimRetry
  <2>2. \A v \in Workers : job'[v] = job[v] \/ job'[v].again = TRUE
    BY <2>1 DEF TypeInv, TypeOK, Claimed, Idle
  <2>3. UNCHANGED <<mailed, bound, expired, wire, batchOf>>
    BY <1>4 DEF ClaimRetry
  <2>4. \A a \in Batches : Sealed(a) => Sealed(a)'
    BY <2>2, <2>3 DEF Sealed
  <2> QED
    BY <2>3, <2>4 DEF MailInv, MailedAtMostOnce
<1>5. ASSUME NEW w \in Workers, Send(w)
      PROVE  MailInv'
  <2>1. UNCHANGED <<mailed, bound, expired, batchOf>>
    BY <1>5 DEF Send
  <2>2. ~Sealed(job[w].batch)
    BY <1>5 DEF Send, Sealed, WindowOver
  <2>3. \A v \in Workers : job'[v].pc = "claimed" => job'[v] = job[v]
    BY <1>5, JobFacts DEF Send, TypeInv, TypeOK
  <2>4. \A a \in Batches : Sealed(a) => Sealed(a)'
    BY <1>5, <2>1, <2>2, <2>3 DEF Sealed, Send
  <2> QED
    BY <2>1, <2>4 DEF MailInv, MailedAtMostOnce
<1>6. ASSUME NEW w \in Workers, StopWaiting(w)
      PROVE  MailInv'
  <2>1. \A v \in Workers : job'[v].pc = "claimed" => job'[v] = job[v]
    BY <1>6, AnsweredFacts DEF StopWaiting, TypeInv, TypeOK, Answers
  <2> QED
    BY <1>6, <2>1, MailKept DEF StopWaiting
<1>7. ASSUME NEW r \in wire, ProviderMails(r)
      PROVE  MailInv'
  <2>1. r \in Requests /\ r.key \in Batches /\ r.payload \in Payloads
    BY DEF TypeInv, TypeOK, Requests
  <2>2. Range(r.payload) \subseteq Msgs /\ \A m \in Range(r.payload) : batchOf[m] = r.key
    BY <2>1, PayloadFacts DEF OneKey
  <2>3. bound[r.key] = {} /\ ~Sealed(r.key)
    BY <1>7 DEF ProviderMails, Sealed
  <2>4. \A m \in Range(r.payload) : mailed[m] = 0
    BY <2>2, <2>3 DEF MailInv
  <2>5. /\ \A m \in Range(r.payload) : mailed'[m] = 1
        /\ \A m \in Msgs : m \notin Range(r.payload) => mailed'[m] = mailed[m]
    BY <1>7, <2>2, <2>4 DEF ProviderMails
  <2>6. /\ bound'[r.key] = {r.payload}
        /\ \A b \in Batches : b # r.key => bound'[b] = bound[b]
    BY <1>7, <2>1 DEF ProviderMails, TypeInv, TypeOK
  <2>7. \A w \in Workers : job'[w].pc = "claimed" => job'[w] = job[w]
    BY <1>7, <2>1, ReplyStartsNoJob DEF ProviderMails, Requests, Answers
  <2>8. \A b \in Batches : Sealed(b) => Sealed(b)'
    BY <1>7, <2>7 DEF Sealed, ProviderMails, Reply
  <2>9. UNCHANGED batchOf
    BY <1>7 DEF ProviderMails
  <2>10. MailedAtMostOnce'
    BY <2>5 DEF MailInv, MailedAtMostOnce
  <2>11. ASSUME NEW m \in Msgs, mailed'[m] # 0
         PROVE  /\ batchOf'[m] \in Batches
                /\ bound'[batchOf'[m]] # {} \/ Sealed(batchOf[m])'
    <3>1. CASE m \in Range(r.payload)
      <4>1. batchOf'[m] = r.key
        BY <3>1, <2>2, <2>9
      <4> QED
        BY <4>1, <2>1, <2>6
    <3>2. CASE m \notin Range(r.payload)
      BY <3>2, <2>5, <2>6, <2>8, <2>9, <2>11 DEF MailInv
    <3> QED
      BY <3>1, <3>2
  <2>12. ASSUME NEW b \in Batches, NEW p \in bound'[b], NEW m \in Range(p)
         PROVE  mailed'[m] = 1
    <3>1. CASE b = r.key
      BY <3>1, <2>5, <2>6, <2>12
    <3>2. CASE b # r.key
      <4>1. p \in bound[b] /\ m \in Msgs /\ batchOf[m] = b
        BY <3>2, <2>6, <2>12, PayloadFacts DEF TypeInv, TypeOK, OneKey
      <4> QED
        BY <4>1, <3>2, <2>2, <2>5 DEF MailInv
    <3> QED
      BY <3>1, <3>2
  <2> QED
    BY <2>10, <2>11, <2>12 DEF MailInv
<1>8. ASSUME NEW r \in wire, ProviderReplays(r)
      PROVE  MailInv'
  <2>1. \A w \in Workers : job'[w].pc = "claimed" => job'[w] = job[w]
    BY <1>8, ReplyStartsNoJob DEF ProviderReplays, Requests, Answers, TypeInv, TypeOK
  <2> QED
    BY <1>8, <2>1, MailKept DEF ProviderReplays, Reply
<1>9. ASSUME NEW r \in wire, ProviderRefuses(r)
      PROVE  MailInv'
  <2>1. \A w \in Workers : job'[w].pc = "claimed" => job'[w] = job[w]
    <3>1. ASSUME NEW a \in {"retryable", "rejected"}, Reply(r, a, Idle.ids)
          PROVE  \A w \in Workers : job'[w].pc = "claimed" => job'[w] = job[w]
      BY <3>1, ReplyStartsNoJob DEF Answers
    <3> QED
      BY <1>9, <3>1 DEF ProviderRefuses
  <2> QED
    BY <1>9, <2>1, MailKept DEF ProviderRefuses, Reply
<1>10. ASSUME NEW b \in Batches, ProviderForgets(b)
       PROVE  MailInv'
  <2>1. Sealed(b)'
    BY <1>10 DEF ProviderForgets, Sealed
  <2>2. \A a \in Batches : Sealed(a) => Sealed(a)'
    BY <1>10 DEF ProviderForgets, Sealed
  <2>3. bound'[b] = {} /\ \A a \in Batches : a # b => bound'[a] = bound[a]
    BY <1>10 DEF ProviderForgets, TypeInv, TypeOK
  <2> QED
    BY <1>10, <2>1, <2>2, <2>3 DEF ProviderForgets, MailInv, MailedAtMostOnce
<1>11. ASSUME NEW w \in Workers, Finalize(w)
       PROVE  MailInv'
  BY <1>11, EndJobStartsNoJob, MailKept
  DEF Finalize, FinalizeAccepted, FinalizeFailed, FinalizeIndeterminate,
      ScheduleRetry, FinalizerThrows, RemoveBatch, EndJob
<1>12. ASSUME NEW w \in Workers, Crash(w)
       PROVE  MailInv'
  BY <1>12, EndJobStartsNoJob, MailKept DEF Crash
<1>13. ASSUME NEW b \in Batches, Clock(b)
       PROVE  MailInv'
  BY <1>13, MailKept DEF Clock, LeaseLapses, RetryComesDue, WindowExpires
<1>14. CASE UNCHANGED vars
  BY <1>14, MailKept DEF vars
<1> QED
  BY <1>1, <1>2, <1>3, <1>4, <1>5, <1>6, <1>7, <1>8, <1>9, <1>10, <1>11, <1>12,
     <1>13, <1>14
  DEF Next, Drain, Provider
LEMMA MailedStays ==
    ASSUME Base, MailInv, [Next]_vars
    PROVE  \A m \in Msgs : mailed[m] = 1 => mailed'[m] = 1
<1>1. MailInv'
  BY MailStep
<1>2. CASE UNCHANGED mailed
  BY <1>2
<1>3. ASSUME NEW r \in wire, ProviderMails(r)
      PROVE  \A m \in Msgs : mailed[m] = 1 => mailed'[m] = 1
  <2>1. \A m \in Msgs : mailed'[m] = mailed[m] \/ mailed'[m] = mailed[m] + 1
    BY <1>3 DEF ProviderMails
  <2> QED
    BY <1>1, <2>1 DEF MailInv, MailedAtMostOnce
<1> QED
  BY <1>2, <1>3
  DEF Next, Drain, Provider, Enqueue, DeleteConversation, ClaimNewBatch,
      ClaimRetry, Send, StopWaiting, ProviderReplays, ProviderRefuses,
      ProviderForgets, Finalize, FinalizeAccepted, FinalizeFailed,
      FinalizeIndeterminate, ScheduleRetry, FinalizerThrows, EndJob, Crash,
      Clock, LeaseLapses, RetryComesDue, WindowExpires, vars, providerVars

\* Steps that record no acceptance and bring in no answer keep AckInv.
LEMMA AckKept ==
    ASSUME Base, MailInv, AckInv, [Next]_vars,
           \A m \in Msgs : state'[m] = "ACCEPTED" =>
              state[m] = "ACCEPTED" /\ resendId'[m] = resendId[m],
           \A w \in Workers : job'[w].answer = "accepted" =>
              job[w].answer = "accepted" /\ job'[w].payload = job[w].payload
    PROVE  AckInv'
<1>1. ASSUME NEW w \in Workers, job'[w].answer = "accepted"
      PROVE  \A m \in Sent(w)' : mailed'[m] = 1
  <2>1. job[w].pc = "answered"
    BY <1>1 DEF Base, TypeInv, AcceptedIds
  <2>2. Sent(w) \subseteq Msgs
    BY <2>1, JobFacts, PayloadFacts DEF Base, TypeInv, Sent
  <2> QED
    BY <1>1, <2>2, MailedStays DEF AckInv, Sent
<1> QED
  BY <1>1, MailedStays DEF AckInv, AcceptedWasMailed

LEMMA AckStep == Base /\ MailInv /\ AckInv /\ [Next]_vars => AckInv'
<1> SUFFICES ASSUME Base, MailInv, AckInv, [Next]_vars
             PROVE  AckInv'
  OBVIOUS
<1>0. TypeInv /\ OneKey /\ TypeInv' /\ MailInv'
  BY TypeStep, MailStep DEF Base
<1> USE <1>0 DEF tableVars, batchVars, providerVars
<1>1. ASSUME NEW m \in Msgs, Enqueue(m)
      PROVE  AckInv'
  BY <1>1, AckKept DEF Enqueue, TypeInv, TypeOK
<1>2. ASSUME NEW c \in Convs, DeleteConversation(c)
      PROVE  AckInv'
  BY <1>2, AckKept DEF DeleteConversation, TypeInv, TypeOK
<1>3. ASSUME NEW w \in Workers, ClaimNewBatch(w)
      PROVE  AckInv'
  <2>1. PICK b \in Batches, p \in Payloads : job' = [job EXCEPT ![w] = Claimed(b, p, FALSE)]
    BY <1>3 DEF ClaimNewBatch
  <2>2. \A v \in Workers : job'[v] = job[v] \/ job'[v].answer = "none"
    BY <2>1 DEF TypeInv, TypeOK, Claimed, Idle
  <2> QED
    BY <1>3, <2>2, AckKept DEF ClaimNewBatch
<1>4. ASSUME NEW w \in Workers, NEW b \in Batches, ClaimRetry(w, b)
      PROVE  AckInv'
  <2>1. PICK p \in Payloads :
          job' = job \/ job' = [job EXCEPT ![w] = Claimed(b, p, TRUE)]
    BY <1>4 DEF ClaimRetry
  <2>2. \A v \in Workers : job'[v] = job[v] \/ job'[v].answer = "none"
    <3>1. job \in [Workers -> Jobs]
      BY DEF TypeInv, TypeOK
    <3>2. \A v \in Workers : job'[v] = job[v] \/ job'[v] = Claimed(b, p, TRUE)
      BY <2>1, <3>1
    <3>3. Claimed(b, p, TRUE).answer = "none"
      BY DEF Claimed, Idle
    <3> QED
      BY <3>2, <3>3
  <2> QED
    BY <1>4, <2>2, AckKept DEF ClaimRetry
<1>5. ASSUME NEW w \in Workers, Send(w)
      PROVE  AckInv'
  <2>1. \A v \in Workers : job'[v].answer = "accepted" => job'[v] = job[v]
    BY <1>5, JobFacts DEF Send, TypeInv, TypeOK, AcceptedIds
  <2> QED
    BY <1>5, <2>1, AckKept DEF Send
<1>6. ASSUME NEW w \in Workers, StopWaiting(w)
      PROVE  AckInv'
  <2>1. \A v \in Workers : job'[v].answer = "accepted" => job'[v] = job[v]
    BY <1>6, AnsweredFacts DEF StopWaiting, TypeInv, TypeOK, Answers
  <2> QED
    BY <1>6, <2>1, AckKept DEF StopWaiting
<1>7. ASSUME NEW r \in wire, NEW answer \in Answers,
             NEW ids \in Payloads \union {Idle.ids},
             answer = "accepted" =>
               ids = r.payload /\ \A m \in Range(r.payload) : mailed'[m] = 1,
             Reply(r, answer, ids), UNCHANGED <<state, resendId>>
      PROVE  AckInv'
  <2>1. ASSUME NEW v \in Workers, job'[v].answer = "accepted"
        PROVE  \A m \in Sent(v)' : mailed'[m] = 1
    <3>1. CASE job'[v] = job[v]
      <4>1. Sent(v) \subseteq Msgs /\ Sent(v)' = Sent(v)
        BY <2>1, <3>1, JobFacts, PayloadFacts DEF TypeInv, AcceptedIds, Sent
      <4> QED
        BY <2>1, <3>1, <4>1, MailedStays DEF AckInv
    <3>2. CASE /\ job[v].pc = "sending" /\ job[v].payload = r.payload
               /\ job'[v] = Answered(job[v], answer, ids)
      BY <1>7, <2>1, <3>2, AnsweredFacts DEF TypeInv, Sent
    <3> QED
      BY <1>7, <3>1, <3>2, ReplyFacts
  <2> QED
    BY <1>7, <2>1, MailedStays DEF AckInv, AcceptedWasMailed
<1>8. ASSUME NEW r \in wire, ProviderMails(r)
      PROVE  AckInv'
  <2>1. r \in Requests /\ Range(r.payload) \subseteq Msgs
    BY PayloadFacts DEF TypeInv, TypeOK, Requests
  <2>2. \A m \in Range(r.payload) : mailed'[m] = 1
    BY <1>8, <2>1 DEF ProviderMails, MailInv, TypeInv, TypeOK, Requests
  <2> QED
    BY <1>7, <1>8, <2>1, <2>2 DEF ProviderMails, Requests, Answers
<1>9. ASSUME NEW r \in wire, ProviderReplays(r)
      PROVE  AckInv'
  <2>1. r \in Requests
    BY DEF TypeInv, TypeOK
  <2>2. UNCHANGED <<state, resendId, mailed>>
    BY <1>9 DEF ProviderReplays
  <2>3. CASE r.payload \in bound[r.key] /\ Reply(r, "accepted", r.payload)
    BY <1>7, <2>1, <2>2, <2>3 DEF MailInv, Requests, Answers
  <2>4. CASE Reply(r, "conflict", Idle.ids)
    BY <1>7, <2>2, <2>4 DEF Answers
  <2> QED
    BY <1>9, <2>3, <2>4 DEF ProviderReplays
<1>10. ASSUME NEW r \in wire, ProviderRefuses(r)
       PROVE  AckInv'
  <2>1. UNCHANGED <<state, resendId>>
    BY <1>10 DEF ProviderRefuses
  <2>2. ASSUME NEW a \in {"retryable", "rejected"}, Reply(r, a, Idle.ids)
        PROVE  AckInv'
    BY <1>7, <2>1, <2>2 DEF Answers
  <2>3. CASE UNCHANGED job
    BY <2>1, <2>3, AckKept
  <2> QED
    BY <1>10, <2>2, <2>3 DEF ProviderRefuses
<1>11. ASSUME NEW b \in Batches, ProviderForgets(b)
       PROVE  AckInv'
  BY <1>11, AckKept DEF ProviderForgets
<1>12. ASSUME NEW w \in Workers, job' = [job EXCEPT ![w] = Idle]
       PROVE  \A v \in Workers : job'[v].answer = "accepted" => job'[v] = job[v]
  BY <1>12, IdleFacts DEF TypeInv, TypeOK
<1>13. ASSUME NEW w \in Workers, FinalizeAccepted(w)
       PROVE  AckInv'
  <2>1. \A m \in Msgs : state'[m] = "ACCEPTED" =>
           \/ m \in Sent(w) /\ mailed[m] = 1 /\ resendId'[m] = {m}
           \/ m \notin Sent(w) /\ state[m] = "ACCEPTED" /\ resendId'[m] = resendId[m]
    BY <1>13, IdsForSent DEF FinalizeAccepted, SettledAs, AckInv
  <2>2. UNCHANGED mailed /\ job' = [job EXCEPT ![w] = Idle]
    BY <1>13 DEF FinalizeAccepted, EndJob
  <2>3. AcceptedWasMailed'
    BY <2>1, <2>2 DEF AckInv, AcceptedWasMailed
  <2>4. \A v \in Workers : job'[v].answer = "accepted" =>
           \A m \in Sent(v)' : mailed'[m] = 1
    BY <2>2, <1>12 DEF AckInv, Sent
  <2> QED
    BY <2>3, <2>4 DEF AckInv
<1>14. ASSUME NEW w \in Workers, NEW o \in {"FAILED", "INDETERMINATE"},
              SettledAs(w, o), UNCHANGED resendId, EndJob(w)
       PROVE  AckInv'
  BY <1>14, <1>12, AckKept DEF SettledAs, EndJob
<1>15. ASSUME NEW w \in Workers, Finalize(w)
       PROVE  AckInv'
  <2>1. CASE ScheduleRetry(w) \/ FinalizerThrows(w)
    BY <2>1, <1>12, AckKept DEF ScheduleRetry, FinalizerThrows, EndJob
  <2> QED
    BY <1>13, <1>14, <1>15, <2>1 DEF Finalize, FinalizeFailed, FinalizeIndeterminate
<1>16. ASSUME NEW w \in Workers, Crash(w)
       PROVE  AckInv'
  BY <1>16, <1>12, AckKept DEF Crash
<1>17. ASSUME NEW b \in Batches, Clock(b)
       PROVE  AckInv'
  BY <1>17, AckKept DEF Clock, LeaseLapses, RetryComesDue, WindowExpires
<1>18. CASE UNCHANGED vars
  BY <1>18, AckKept DEF vars
<1> QED
  BY <1>1, <1>2, <1>3, <1>4, <1>5, <1>6, <1>8, <1>9, <1>10, <1>11, <1>15, <1>16,
     <1>17, <1>18
  DEF Next, Drain, Provider
-----------------------------------------------------------------------------
(* No message is stranded, and only the owner of a batch settles it.       *)

\* Steps that leave the queue alone, take no lease and start no job.
LEMMA QueueKept ==
    ASSUME Base, QueueInv,
           UNCHANGED <<state, entries, batchOf, row>>,
           \A b \in Batches : holder'[b] = holder[b] \/ holder'[b] = {},
           \A w \in Workers : KeepsJob(w)
    PROVE  QueueInv'
<1>1. ASSUME NEW w \in Workers, Owns(w)'
      PROVE  Members(job[w].batch)' \subseteq Sent(w)'
  <2>1. /\ job[w].pc # "idle"
        /\ job'[w].batch = job[w].batch
        /\ job'[w].payload = job[w].payload
    BY <1>1, IdleFacts DEF KeepsJob, Owns
  <2>2. job[w].batch \in Batches
    BY <2>1, JobFacts DEF Base, TypeInv
  <2>3. Owns(w)
    BY <1>1, <2>1, <2>2 DEF Owns
  <2> QED
    BY <2>1, <2>3 DEF QueueInv, Members, Sent
<1> QED
  BY <1>1 DEF QueueInv, PendingIffQueued

\* A finalizer settles exactly the messages still in its batch.
LEMMA OwnerSettlesMembers ==
    ASSUME Base, QueueInv, NEW w \in Workers, Owns(w)
    PROVE  {m \in Sent(w) : state[m] = "PENDING"} = Members(job[w].batch)
<1>1. Sent(w) \subseteq Msgs /\ job[w].batch \in Batches
  BY JobFacts, PayloadFacts DEF Owns, Sent, Base, TypeInv
<1>2. \A m \in Sent(w) : batchOf[m] = job[w].batch
  BY DEF Owns, Base, OneKey
<1> QED
  BY <1>1, <1>2 DEF QueueInv, PendingIffQueued, Members, Base, TypeInv, TypeOK

LEMMA QueueStep == Base /\ QueueInv /\ [Next]_vars => QueueInv'
<1> SUFFICES ASSUME Base, QueueInv, [Next]_vars
             PROVE  QueueInv'
  OBVIOUS
<1>0. TypeInv /\ OneKey /\ TypeInv' /\ OneKey' /\ TypeOK /\ TypeOK'
  BY TypeStep, OneKeyStep DEF Base, TypeInv
<1> USE <1>0 DEF tableVars, batchVars, providerVars
<1>a. UNCHANGED job => \A w \in Workers : KeepsJob(w)
  BY DEF KeepsJob
<1>b. Leftover = {}
  BY DEF Leftover, QueueInv, PendingIffQueued, TypeInv, TypeOK
<1>1. ASSUME NEW m \in Msgs, Enqueue(m)
      PROVE  QueueInv'
  <2>1. batchOf[m] = NoBatch
    BY <1>1 DEF Enqueue, OneKey, TypeInv, TypeOK
  <2>2. \A b \in Batches : Members(b)' = Members(b)
    BY <1>1, <2>1, BatchAssumption DEF Enqueue, Members
  <2>3. \A w \in Workers : Owns(w)' => Owns(w) /\ Sent(w)' = Sent(w) /\ job[w].batch \in Batches
    BY <1>1, JobFacts DEF Enqueue, Owns, Sent
  <2>4. PendingIffQueued'
    BY <1>1, <2>1 DEF Enqueue, QueueInv, PendingIffQueued, TypeInv, TypeOK
  <2>5. UNCHANGED job
    BY <1>1 DEF Enqueue
  <2> QED
    BY <2>2, <2>3, <2>4, <2>5 DEF QueueInv, Members
<1>2. ASSUME NEW c \in Convs, DeleteConversation(c)
      PROVE  QueueInv'
  <2>1. PendingIffQueued'
    BY <1>2 DEF DeleteConversation, QueueInv, PendingIffQueued, TypeInv, TypeOK
  <2>2. \A w \in Workers : Owns(w)' => Owns(w) /\ Sent(w)' = Sent(w)
    BY <1>2 DEF DeleteConversation, Owns, Sent
  <2>3. UNCHANGED <<job, batchOf>> /\ entries' \subseteq entries
    BY <1>2 DEF DeleteConversation
  <2> QED
    BY <2>1, <2>2, <2>3 DEF QueueInv, Members
<1>3. ASSUME NEW w \in Workers, ClaimNewBatch(w)
      PROVE  QueueInv'
  <2>1. PICK b \in Batches, p \in Payloads :
          /\ row[b] = "unused"
          /\ Range(p) \subseteq Unbatched
          /\ batchOf' = [m \in Msgs |-> IF m \in Range(p) THEN b ELSE batchOf[m]]
          /\ row' = [row EXCEPT ![b] = "open"]
          /\ holder' = [holder EXCEPT ![b] = {w}]
          /\ job' = [job EXCEPT ![w] = Claimed(b, p, FALSE)]
    BY <1>3 DEF ClaimNewBatch
  <2>2. UNCHANGED state /\ entries' = entries
    BY <1>3, <1>b DEF ClaimNewBatch
  <2>3. \A m \in Msgs : batchOf[m] \in Batches => batchOf'[m] = batchOf[m] /\ batchOf[m] # b
    BY <2>1, UnbatchedFacts, BatchAssumption DEF OneKey
  <2>4. row' \in [Batches -> {"unused", "open", "deleted"}] /\ row'[b] = "open"
        /\ \A a \in Batches : a # b => row'[a] = row[a] /\ holder'[a] = holder[a]
    BY <2>1 DEF TypeInv, TypeOK
  <2>5. ASSUME NEW m \in entries', batchOf'[m] # NoBatch
        PROVE  row'[batchOf'[m]] = "open"
    <3>1. m \in Msgs /\ m \in entries
      BY <2>2, <2>5 DEF TypeInv, TypeOK
    <3>2. CASE m \in Range(p)
      BY <3>1, <3>2, <2>1, <2>4
    <3>3. CASE m \notin Range(p)
      <4>1. batchOf[m] \in Batches /\ batchOf'[m] = batchOf[m]
        BY <3>1, <3>3, <2>1, <2>5 DEF TypeInv, TypeOK
      <4> QED
        BY <4>1, <3>1, <2>3, <2>4, BatchAssumption DEF QueueInv, PendingIffQueued
    <3> QED
      BY <3>2, <3>3
  <2>6. PendingIffQueued'
    BY <2>2, <2>5 DEF QueueInv, PendingIffQueued
  <2>7. ASSUME NEW v \in Workers, Owns(v)'
        PROVE  (Members(job[v].batch) \subseteq Sent(v))'
    <3>1. CASE v = w
      <4>1. job'[v].batch = b /\ job'[v].payload = p
        BY <2>1, <3>1 DEF TypeInv, TypeOK, Claimed, Idle
      <4>2. ASSUME NEW m \in Members(job[v].batch)'
            PROVE  m \in Range(p)
        <5>1. m \in Msgs /\ batchOf'[m] = b
          BY <4>1, <4>2, <2>2 DEF Members, TypeInv, TypeOK
        <5> QED
          BY <5>1, <2>1, <2>3
      <4> QED
        BY <4>1, <4>2 DEF Sent
    <3>2. CASE v # w
      <4>1. job'[v] = job[v] /\ job[v].pc # "idle"
        BY <2>1, <2>7, <3>2 DEF TypeInv, TypeOK, Owns
      <4>2. job[v].batch \in Batches /\ job[v].batch # b
        BY <4>1, <2>1, JobFacts DEF OneKey
      <4>3. Owns(v)
        BY <4>1, <4>2, <2>4, <2>7 DEF Owns
      <4>4. Members(job[v].batch)' \subseteq Members(job[v].batch)
        <5>1. ASSUME NEW m \in entries', batchOf'[m] = job[v].batch
              PROVE  m \in entries /\ batchOf[m] = job[v].batch
          BY <5>1, <4>2, <2>1, <2>2 DEF TypeInv, TypeOK
        <5> QED
          BY <4>1, <5>1 DEF Members
      <4> QED
        BY <4>1, <4>3, <4>4 DEF QueueInv, Sent, Members
    <3> QED
      BY <3>1, <3>2
  <2> QED
    BY <2>6, <2>7 DEF QueueInv
<1>4. ASSUME NEW w \in Workers, NEW b \in Batches, ClaimRetry(w, b)
      PROVE  QueueInv'
  <2>1. PICK p \in Payloads :
          /\ IsPayloadOf(p, b)
          /\ job' = job \/ job' = [job EXCEPT ![w] = Claimed(b, p, TRUE)]
    BY <1>4 DEF ClaimRetry
  <2>2. /\ UNCHANGED <<state, batchOf, row>> /\ entries' = entries
        /\ holder' = [holder EXCEPT ![b] = {w}] /\ job[w].pc = "idle"
    BY <1>4, <1>b DEF ClaimRetry
  <2>3. ASSUME NEW v \in Workers, Owns(v)'
        PROVE  (Members(job[v].batch) \subseteq Sent(v))'
    <3>1. CASE v = w
      <4>0. job'[w] = Claimed(b, p, TRUE)
        BY <2>1, <2>2, <2>3, <3>1 DEF TypeOK, Owns
      <4>1. job'[v].batch = b /\ job'[v].payload = p
        BY <4>0, <3>1 DEF Claimed, Idle
      <4> QED
        BY <4>1, <2>1, <2>2 DEF IsPayloadOf, Members, Sent
    <3>2. CASE v # w
      <4>1. job'[v] = job[v] /\ job[v].pc # "idle"
        BY <2>1, <2>3, <3>2 DEF TypeInv, TypeOK, Owns
      <4>2. job[v].batch \in Batches /\ job[v].batch # b
        BY <4>1, <2>2, <2>3, <3>2, JobFacts DEF Owns, TypeInv, TypeOK
      <4>3. Owns(v)
        BY <4>1, <4>2, <2>2, <2>3 DEF Owns, TypeInv, TypeOK
      <4> QED
        BY <4>1, <4>3, <2>2 DEF QueueInv, Sent, Members
    <3> QED
      BY <3>1, <3>2
  <2>4. PendingIffQueued'
    BY <2>2 DEF QueueInv, PendingIffQueued
  <2> QED
    BY <2>3, <2>4 DEF QueueInv
<1>5. ASSUME NEW w \in Workers, Send(w)
      PROVE  QueueInv'
  <2>1. \A v \in Workers : KeepsJob(v)
    BY <1>5, JobFacts DEF Send, KeepsJob, TypeInv, TypeOK
  <2> QED
    BY <1>5, <2>1, QueueKept DEF Send
<1>6. ASSUME NEW w \in Workers, StopWaiting(w)
      PROVE  QueueInv'
  <2>1. \A v \in Workers : KeepsJob(v)
    BY <1>6, AnsweredFacts DEF StopWaiting, KeepsJob, TypeInv, TypeOK, Answers
  <2> QED
    BY <1>6, <2>1, QueueKept DEF StopWaiting
<1>7. ASSUME NEW r \in wire, ProviderMails(r) \/ ProviderReplays(r) \/ ProviderRefuses(r)
      PROVE  QueueInv'
  <2>1. r.payload \in Payloads
    BY DEF TypeInv, TypeOK, Requests
  <2>2. \A w \in Workers : KeepsJob(w)
    <3>1. ASSUME NEW a \in Answers, NEW ids \in Payloads \union {Idle.ids},
                 a = "accepted" => ids = r.payload, Reply(r, a, ids)
          PROVE  \A w \in Workers : KeepsJob(w)
      BY <3>1, ReplyKeepsJob
    <3>2. CASE ProviderMails(r)
      BY <3>1, <3>2, <2>1 DEF ProviderMails, Answers
    <3>3. CASE ProviderReplays(r)
      BY <3>1, <3>3, <2>1 DEF ProviderReplays, Answers
    <3>4. CASE ProviderRefuses(r)
      BY <1>a, <3>1, <3>4 DEF ProviderRefuses, Answers
    <3> QED
      BY <1>7, <3>2, <3>3, <3>4
  <2> QED
    BY <1>7, <2>2, QueueKept DEF ProviderMails, ProviderReplays, ProviderRefuses
<1>8. ASSUME NEW b \in Batches, ProviderForgets(b)
      PROVE  QueueInv'
  BY <1>8, <1>a, QueueKept DEF ProviderForgets
<1>9. ASSUME NEW w \in Workers, Owns(w), NEW o \in Settled,
             SettledAs(w, o), RemoveBatch(job[w].batch), EndJob(w)
      PROVE  QueueInv'
  <2>1. job[w].batch \in Batches /\ Sent(w) \subseteq Msgs
    BY <1>9, JobFacts, PayloadFacts DEF Owns, Sent
  <2>2. /\ UNCHANGED batchOf /\ entries' = entries \ Members(job[w].batch)
        /\ row'[job[w].batch] = "deleted"
        /\ \A a \in Batches : a # job[w].batch => row'[a] = row[a] /\ holder'[a] = holder[a]
    BY <1>9, <2>1 DEF RemoveBatch, TypeInv, TypeOK
  <2>3. \A m \in Msgs : state'[m] = "PENDING" <=>
           state[m] = "PENDING" /\ m \notin Members(job[w].batch)
    BY <1>9, <2>1, OwnerSettlesMembers DEF SettledAs, Settled, Base
  <2>4. PendingIffQueued'
    <3>1. \A m \in Msgs : state'[m] = "PENDING" <=> m \in entries'
      BY <2>2, <2>3 DEF QueueInv, PendingIffQueued
    <3>2. ASSUME NEW m \in entries', batchOf'[m] # NoBatch
          PROVE  row'[batchOf'[m]] = "open"
      <4>1. m \in entries /\ batchOf[m] # job[w].batch /\ batchOf'[m] = batchOf[m]
        BY <2>2, <3>2 DEF Members
      <4>2. batchOf[m] \in Batches
        BY <4>1, <3>2 DEF TypeInv, TypeOK
      <4>3. batchOf[m] # NoBatch /\ m \in Msgs
        BY <4>1, <4>2, BatchAssumption DEF TypeOK
      <4>4. row[batchOf[m]] = "open"
        BY <4>1, <4>3 DEF QueueInv, PendingIffQueued
      <4> QED
        BY <4>1, <4>2, <4>4, <2>2
    <3> QED
      BY <3>1, <3>2 DEF PendingIffQueued
  <2>5. ASSUME NEW v \in Workers, Owns(v)'
        PROVE  (Members(job[v].batch) \subseteq Sent(v))'
    <3>1. job'[v] = job[v] /\ job[v].pc # "idle"
      BY <1>9, <2>5, IdleFacts DEF EndJob, Owns, TypeInv, TypeOK
    <3>2. job[v].batch \in Batches /\ job[v].batch # job[w].batch
      BY <3>1, <2>2, <2>5, JobFacts DEF Owns
    <3>3. Owns(v)
      BY <3>1, <3>2, <2>2, <2>5 DEF Owns
    <3> QED
      BY <3>1, <3>3, <2>2 DEF QueueInv, Members, Sent
  <2> QED
    BY <2>4, <2>5 DEF QueueInv
<1>10. ASSUME NEW w \in Workers, Finalize(w)
       PROVE  QueueInv'
  <2>1. CASE ScheduleRetry(w)
    <3>1. \A b \in Batches : holder'[b] = holder[b] \/ holder'[b] = {}
      BY <2>1 DEF ScheduleRetry, TypeInv, TypeOK
    <3> QED
      BY <2>1, <3>1, EndJobKeepsJob, QueueKept DEF ScheduleRetry, EndJob
  <2>2. CASE FinalizerThrows(w)
    BY <2>2, EndJobKeepsJob, QueueKept DEF FinalizerThrows, EndJob
  <2> QED
    BY <1>9, <1>10, <2>1, <2>2 DEF Finalize, FinalizeAccepted, FinalizeFailed,
                                   FinalizeIndeterminate, Settled
<1>11. ASSUME NEW w \in Workers, Crash(w)
       PROVE  QueueInv'
  BY <1>11, EndJobKeepsJob, QueueKept DEF Crash
<1>12. ASSUME NEW b \in Batches, Clock(b)
       PROVE  QueueInv'
  BY <1>12, <1>a, QueueKept DEF Clock, LeaseLapses, RetryComesDue, WindowExpires
<1>13. CASE UNCHANGED vars
  BY <1>13, <1>a, QueueKept DEF vars
<1> QED
  BY <1>1, <1>2, <1>3, <1>4, <1>5, <1>6, <1>7, <1>8, <1>10, <1>11, <1>12, <1>13
  DEF Next, Drain, Provider
-----------------------------------------------------------------------------
(* A key conflicts only when its batch lost a message.                     *)

\* The payload of a batch that has lost no message: there is only one.
Whole(b, p) ==
    /\ Range(p) = {m \in Msgs : batchOf[m] = b}
    /\ \A i, j \in DOMAIN p : i < j => position[p[i]] < position[p[j]]

Cut(b) == \E m \in Msgs : batchOf[m] = b /\ state[m] = "DELETED"

\* Until a message of a batch is deleted, the batch has all its entries, and
\* what is remembered, posted or bound under its key is its whole payload.
KeyInv ==
    /\ \A b \in Batches : row[b] = "open" =>
          Cut(b) \/ Members(b) = {m \in Msgs : batchOf[m] = b}
    /\ \A w \in Workers : job[w].pc # "idle" =>
          Cut(job[w].batch) \/ Whole(job[w].batch, job[w].payload)
    /\ \A r \in wire : Cut(r.key) \/ Whole(r.key, r.payload)
    /\ \A b \in Batches : \A p \in bound[b] : Cut(b) \/ Whole(b, p)
    /\ \A w \in Workers : job[w].answer = "conflict" => Cut(job[w].batch)

\* Two payloads with the same messages in the order of their positions.
LEMMA SamePayload ==
    ASSUME TypeOK, NEW b, NEW p \in Payloads, NEW q \in Payloads,
           Whole(b, p), Whole(b, q)
    PROVE  p = q
<1>1. \A x \in {p, q} :
         /\ \E n \in 0 .. Limit : x \in [1 .. n -> Msgs]
         /\ \A i, j \in DOMAIN x : x[i] = x[j] => i = j
  BY DEF Payloads, IsInjective
<1>2. PICK n, k \in 0 .. Limit : p \in [1 .. n -> Msgs] /\ q \in [1 .. k -> Msgs]
  BY <1>1
<1>3. n \in Nat /\ k \in Nat
  BY <1>2, BoundAssumption
<1>4. /\ \A i \in 1 .. n : \E j \in 1 .. k : p[i] = q[j]
      /\ \A j \in 1 .. k : \E i \in 1 .. n : q[j] = p[i]
      /\ \A i, j \in 1 .. n : p[i] = p[j] => i = j
      /\ \A i, j \in 1 .. k : q[i] = q[j] => i = j
      /\ \A i, j \in 1 .. n : i < j => position[p[i]] < position[p[j]]
      /\ \A i, j \in 1 .. k : i < j => position[q[i]] < position[q[j]]
      /\ \A i \in 1 .. n : position[p[i]] \in Nat
      /\ \A i \in 1 .. k : position[q[i]] \in Nat
  <2>1. Range(p) = Range(q)
    BY DEF Whole
  <2>2. DOMAIN p = 1 .. n /\ DOMAIN q = 1 .. k
    BY <1>2
  <2>3. /\ \A i \in 1 .. n : p[i] \in Range(q)
        /\ \A j \in 1 .. k : q[j] \in Range(p)
    BY <2>1, <2>2 DEF Range
  <2>4. /\ \A i \in 1 .. n : \E j \in 1 .. k : p[i] = q[j]
        /\ \A j \in 1 .. k : \E i \in 1 .. n : q[j] = p[i]
    BY <2>2, <2>3 DEF Range
  <2>5. /\ \A i, j \in 1 .. n : p[i] = p[j] => i = j
        /\ \A i, j \in 1 .. k : q[i] = q[j] => i = j
    BY <1>1, <2>2
  <2>6. /\ \A i, j \in 1 .. n : i < j => position[p[i]] < position[p[j]]
        /\ \A i, j \in 1 .. k : i < j => position[q[i]] < position[q[j]]
    BY <2>2 DEF Whole
  <2>7. /\ \A i \in 1 .. n : position[p[i]] \in Nat
        /\ \A i \in 1 .. k : position[q[i]] \in Nat
    BY <1>2 DEF TypeOK
  <2> QED
    BY <2>4, <2>5, <2>6, <2>7
<1> DEFINE Differ == {i \in Nat : \/ i \in 1 .. n /\ i \notin 1 .. k
                                  \/ i \in 1 .. k /\ i \notin 1 .. n
                                  \/ i \in 1 .. n /\ i \in 1 .. k /\ p[i] # q[i]}
<1>5. Differ = {}
  <2> SUFFICES ASSUME Differ # {}
               PROVE  FALSE
    OBVIOUS
  <2>1. PICK i \in Differ : \A y \in Differ : ~(<<y, i>> \in OpToRel(<, Nat))
    <3>1. IsWellFoundedOn(OpToRel(<, Nat), Nat)
      BY NatLessThanWellFounded
    <3>2. Differ \subseteq Nat /\ Differ # {}
      OBVIOUS
    <3> HIDE DEF Differ
    <3> QED
      BY <3>1, <3>2, WFMin
  <2>2. i \in Nat /\ \A y \in Nat : y < i => y \notin Differ
    BY <2>1 DEF OpToRel
  <2>3. \A y \in Nat : y < i => (y \in 1 .. n <=> y \in 1 .. k)
    BY <2>2
  <2>4. \A y \in 1 .. n : y < i => p[y] = q[y]
    BY <1>3, <2>2, <2>3
  <2>5. i \in 1 .. n => FALSE
    <3> SUFFICES ASSUME i \in 1 .. n
                 PROVE  FALSE
      OBVIOUS
    <3>1. PICK j \in 1 .. k : p[i] = q[j]
      BY <1>4
    <3>2. j < i => FALSE
      BY <1>3, <1>4, <2>3, <2>4, <3>1
    <3>3. j # i
      BY <3>1, <2>1
    <3>4. i < j /\ i \in 1 .. k
      BY <1>3, <3>2, <3>3
    <3>5. PICK l \in 1 .. n : q[i] = p[l]
      BY <1>4, <3>4
    <3>6. l < i => FALSE
      BY <1>3, <1>4, <2>3, <2>4, <3>4, <3>5
    <3>7. l # i
      BY <3>4, <3>5, <2>1
    <3>8. i < l
      BY <1>3, <3>6, <3>7
    <3>9. position[p[i]] < position[p[l]] /\ position[q[i]] < position[q[j]]
      BY <1>4, <3>4, <3>8
    <3> QED
      BY <1>4, <3>1, <3>4, <3>5, <3>9
  <2>6. i \in 1 .. k => FALSE
    <3> SUFFICES ASSUME i \in 1 .. k
                 PROVE  FALSE
      OBVIOUS
    <3>1. PICK j \in 1 .. n : q[i] = p[j]
      BY <1>4
    <3>2. j < i => FALSE
      BY <1>3, <1>4, <2>3, <2>4, <3>1
    <3>3. j # i
      BY <3>1, <2>1
    <3>4. i \in 1 .. n
      BY <1>3, <3>2, <3>3
    <3> QED
      BY <2>5, <3>4
  <2> QED
    BY <2>1, <2>5, <2>6
<1>6. n = k
  <2>1. n \in 1 .. n \/ n = 0
    BY <1>3
  <2>2. k \in 1 .. k \/ k = 0
    BY <1>3
  <2>3. \A i \in Nat : i \in 1 .. n <=> i \in 1 .. k
    BY <1>5
  <2> QED
    BY <1>3, <2>1, <2>2, <2>3
<1>7. \A i \in 1 .. n : p[i] = q[i]
  BY <1>3, <1>5, <1>6
<1> QED
  BY <1>2, <1>6, <1>7

\* KeyInv after a step, where a worker's batch and payload have names.
LEMMA KeyPrimed ==
    ASSUME \A b \in Batches : row'[b] = "open" =>
              Cut(b)' \/ Members(b)' = {m \in Msgs : batchOf'[m] = b},
           \A w \in Workers : \A b, p :
              job'[w].pc # "idle" /\ b = job'[w].batch /\ p = job'[w].payload =>
                 Cut(b)' \/ Whole(b, p)',
           \A r \in wire' : Cut(r.key)' \/ Whole(r.key, r.payload)',
           \A b \in Batches : \A p \in bound'[b] : Cut(b)' \/ Whole(b, p)',
           \A w \in Workers : job'[w].answer = "conflict" =>
              \E m \in Msgs : batchOf'[m] = job'[w].batch /\ state'[m] = "DELETED"
    PROVE  KeyInv'
<1>1. \A w \in Workers : job'[w].pc # "idle" =>
         (Cut(job[w].batch) \/ Whole(job[w].batch, job[w].payload))'
  BY DEF Cut, Whole
<1>2. \A w \in Workers : job'[w].answer = "conflict" => Cut(job[w].batch)'
  BY DEF Cut
<1> QED
  BY <1>1, <1>2 DEF KeyInv

\* Steps that assign no batch and claim none.
LEMMA KeyKept ==
    ASSUME TypeInv, KeyInv, TypeInv',
           UNCHANGED <<batchOf, position>>,
           \A m \in Msgs : state[m] = "DELETED" => state'[m] = "DELETED",
           \A b \in Batches : row'[b] = "open" =>
              /\ row[b] = "open"
              /\ \A m \in Members(b) : m \in entries' \/ state'[m] = "DELETED",
           \A w \in Workers : KeepsJob(w),
           \A r \in wire' :
              \/ r \in wire
              \/ \E w \in Workers : /\ job[w].pc # "idle"
                                    /\ r.key = job[w].batch
                                    /\ r.payload = job[w].payload,
           \A b \in Batches : \A p \in bound'[b] :
              \/ p \in bound[b]
              \/ \E r \in wire : r.key = b /\ r.payload = p,
           \A w \in Workers : job'[w].answer = "conflict" =>
              job'[w] = job[w] \/ Cut(job'[w].batch)
    PROVE  KeyInv'
<1>1. \A b : Cut(b) => Cut(b)'
  BY DEF Cut
<1>2. \A b, p : Whole(b, p) => Whole(b, p)'
  BY DEF Whole
<1>3. ASSUME NEW b \in Batches, row'[b] = "open"
      PROVE  Cut(b)' \/ Members(b)' = {m \in Msgs : batchOf'[m] = b}
  <2>1. entries \subseteq Msgs /\ entries' \subseteq Msgs
    BY DEF TypeInv, TypeOK
  <2>2. CASE Cut(b)
    BY <1>1, <2>2
  <2>3. CASE Members(b) = {m \in Msgs : batchOf[m] = b}
    <3>1. \A m \in Members(b) : m \in entries' \/ state'[m] = "DELETED"
      BY <1>3
    <3>2. CASE \A m \in Members(b) : m \in entries'
      BY <2>1, <2>3, <3>2 DEF Members
    <3>3. CASE \E m \in Members(b) : state'[m] = "DELETED"
      BY <2>1, <3>3 DEF Members, Cut
    <3> QED
      BY <3>1, <3>2, <3>3
  <2> QED
    BY <1>3, <2>2, <2>3 DEF KeyInv
<1>4. ASSUME NEW w \in Workers, job'[w].pc # "idle",
             NEW b, NEW p, b = job'[w].batch, p = job'[w].payload
      PROVE  Cut(b)' \/ Whole(b, p)'
  <2>1. job[w].pc # "idle" /\ b = job[w].batch /\ p = job[w].payload
    BY <1>4, IdleFacts DEF KeepsJob
  <2>2. Cut(b) \/ Whole(b, p)
    BY <2>1 DEF KeyInv
  <2> QED
    BY <1>1, <1>2, <2>2
<1>5. ASSUME NEW r \in wire'
      PROVE  Cut(r.key)' \/ Whole(r.key, r.payload)'
  <2>1. Cut(r.key) \/ Whole(r.key, r.payload)
    BY DEF KeyInv
  <2> QED
    BY <1>1, <1>2, <2>1
<1>6. ASSUME NEW b \in Batches, NEW p \in bound'[b]
      PROVE  Cut(b)' \/ Whole(b, p)'
  <2>1. Cut(b) \/ Whole(b, p)
    BY DEF KeyInv
  <2> QED
    BY <1>1, <1>2, <2>1
<1>7. ASSUME NEW w \in Workers, job'[w].answer = "conflict"
      PROVE  \E m \in Msgs : batchOf[m] = job'[w].batch /\ state'[m] = "DELETED"
  BY <1>7 DEF KeyInv, Cut
<1> QED
  <2>1. \A b \in Batches : row'[b] = "open" =>
           Cut(b)' \/ Members(b)' = {m \in Msgs : batchOf'[m] = b}
    BY <1>3
  <2>2. \A w \in Workers : \A b, p :
           job'[w].pc # "idle" /\ b = job'[w].batch /\ p = job'[w].payload =>
              Cut(b)' \/ Whole(b, p)'
    BY <1>4
  <2> QED
    BY <1>5, <1>6, <1>7, <2>1, <2>2, KeyPrimed

\* Only a replay answers with a conflict.
LEMMA ReplyConflicts ==
    ASSUME TypeInv, NEW r \in wire, NEW answer \in Answers,
           NEW ids \in Payloads \union {Idle.ids},
           answer = "accepted" => ids = r.payload,
           Reply(r, answer, ids),
           NEW w \in Workers, job'[w].answer = "conflict"
    PROVE  job'[w] = job[w] \/ (answer = "conflict" /\ job'[w].batch = r.key)
<1>1. ASSUME job[w].pc = "sending", job[w].batch = r.key,
             job'[w] = Answered(job[w], answer, ids)
      PROVE  answer = "conflict" /\ job'[w].batch = r.key
  BY <1>1, AnsweredFacts DEF TypeInv
<1> QED
  BY <1>1, ReplyFacts

LEMMA EndJobConflicts ==
    ASSUME TypeInv, NEW v \in Workers, job' = [job EXCEPT ![v] = Idle],
           NEW w \in Workers, job'[w].answer = "conflict"
    PROVE  job'[w] = job[w]
BY IdleFacts DEF TypeInv, TypeOK

LEMMA KeyStep == Base /\ QueueInv /\ KeyInv /\ [Next]_vars => KeyInv'
<1> SUFFICES ASSUME Base, QueueInv, KeyInv, [Next]_vars
             PROVE  KeyInv'
  OBVIOUS
<1>0. TypeInv /\ OneKey /\ TypeInv' /\ TypeOK /\ TypeOK'
  BY TypeStep DEF Base, TypeInv
<1> USE <1>0 DEF tableVars, batchVars, providerVars
<1>a. UNCHANGED job => \A w \in Workers : KeepsJob(w)
  BY DEF KeepsJob
<1>b. Leftover = {}
  BY DEF Leftover, QueueInv, PendingIffQueued, TypeInv, TypeOK
<1>1. ASSUME NEW m \in Msgs, Enqueue(m)
      PROVE  KeyInv'
  BY <1>1, <1>a, KeyKept DEF Enqueue, TypeOK, Members
<1>2. ASSUME NEW c \in Convs, DeleteConversation(c)
      PROVE  KeyInv'
  <2>1. \A m \in Msgs : state[m] = "DELETED" => state'[m] = "DELETED"
    BY <1>2 DEF DeleteConversation
  <2>2. \A m \in entries : m \in entries' \/ state'[m] = "DELETED"
    BY <1>2 DEF DeleteConversation, TypeOK
  <2> QED
    BY <1>2, <1>a, <2>1, <2>2, KeyKept DEF DeleteConversation, Members
<1>3. ASSUME NEW w \in Workers, ClaimNewBatch(w)
      PROVE  KeyInv'
  <2>1. PICK b \in Batches, p \in Payloads :
          /\ row[b] = "unused"
          /\ Range(p) \subseteq Unbatched
          /\ batchOf' = [m \in Msgs |-> IF m \in Range(p) THEN b ELSE batchOf[m]]
          /\ position' = [m \in Msgs |-> IF m \in Range(p)
                                           THEN CHOOSE i \in DOMAIN p : p[i] = m
                                           ELSE position[m]]
          /\ row' = [row EXCEPT ![b] = "open"]
          /\ job' = [job EXCEPT ![w] = Claimed(b, p, FALSE)]
    BY <1>3 DEF ClaimNewBatch
  <2>2. UNCHANGED <<state, wire, bound>> /\ entries' = entries
    BY <1>3, <1>b DEF ClaimNewBatch
  <2>3. /\ \A m \in Msgs : batchOf[m] # b
        /\ \A m \in Range(p) : m \in Msgs /\ m \in entries /\ batchOf[m] = NoBatch
    BY <2>1, PayloadFacts, UnbatchedFacts DEF OneKey
  <2>4. \A m \in Msgs : batchOf'[m] = b <=> m \in Range(p)
    BY <2>1, <2>3
  <2>5. \A m \in Msgs, a \in Batches \ {b} : batchOf'[m] = a <=> batchOf[m] = a
    BY <2>1, <2>3, BatchAssumption
  <2>6. \A a \in Batches \ {b} : Cut(a) => Cut(a)'
    BY <2>2, <2>5 DEF Cut
  <2>7. ASSUME NEW a \in Batches \ {b}, NEW q \in Payloads, Whole(a, q)
        PROVE  Whole(a, q)'
    <3>1. \A i \in DOMAIN q : q[i] \in Msgs /\ q[i] \notin Range(p)
      BY <2>3, <2>7, BatchAssumption DEF Whole, Range
    <3>2. \A i \in DOMAIN q : position'[q[i]] = position[q[i]]
      BY <2>1, <3>1
    <3>3. Range(q) = {m \in Msgs : batchOf'[m] = a}
      BY <2>5, <2>7 DEF Whole
    <3> QED
      BY <2>7, <3>2, <3>3 DEF Whole
  <2>8. Whole(b, p)'
    <3>1. ASSUME NEW i \in DOMAIN p
          PROVE  position'[p[i]] = i
      <4>1. p[i] \in Range(p) /\ p[i] \in Msgs
        BY <2>3 DEF Range
      <4>2. \A j \in DOMAIN p : p[j] = p[i] => j = i
        BY DEF Payloads, IsInjective
      <4> QED
        BY <2>1, <4>1, <4>2
    <3>2. Range(p) = {m \in Msgs : batchOf'[m] = b}
      BY <2>3, <2>4
    <3> QED
      BY <3>1, <3>2 DEF Whole
  <2>9. ASSUME NEW a \in Batches, row'[a] = "open"
        PROVE  Cut(a)' \/ Members(a)' = {m \in Msgs : batchOf'[m] = a}
    <3>1. CASE a = b
      <4>1. {m \in Msgs : batchOf'[m] = b} \subseteq entries
        BY <2>3, <2>4
      <4> QED
        BY <2>2, <3>1, <4>1 DEF Members, TypeOK
    <3>2. CASE a # b
      <4>1. row[a] = "open"
        BY <2>1, <2>9, <3>2 DEF TypeOK
      <4>2. CASE Cut(a)
        BY <2>6, <3>2, <4>2
      <4>3. CASE Members(a) = {m \in Msgs : batchOf[m] = a}
        BY <2>2, <2>5, <3>2, <4>3 DEF Members, TypeOK
      <4> QED
        BY <4>1, <4>2, <4>3 DEF KeyInv
    <3> QED
      BY <3>1, <3>2
  <2>10. ASSUME NEW v \in Workers, job'[v].pc # "idle",
                NEW a, NEW q, a = job'[v].batch, q = job'[v].payload
         PROVE  Cut(a)' \/ Whole(a, q)'
    <3>1. CASE v = w
      <4>1. a = b /\ q = p
        BY <2>1, <2>10, <3>1 DEF TypeOK, Claimed, Idle
      <4> QED
        BY <2>8, <4>1
    <3>2. CASE v # w
      <4>1. job'[v] = job[v]
        BY <2>1, <3>2 DEF TypeOK
      <4>2. a \in Batches \ {b} /\ q \in Payloads
        <5>1. job[v].pc # "idle" /\ a = job[v].batch /\ q = job[v].payload
          BY <2>10, <4>1
        <5>2. row[job[v].batch] # "unused"
          BY <5>1 DEF OneKey
        <5> QED
          BY <2>1, <5>1, <5>2, JobFacts
      <4>3. Cut(a) \/ Whole(a, q)
        BY <2>10, <4>1 DEF KeyInv
      <4> QED
        BY <2>6, <2>7, <4>2, <4>3
    <3> QED
      BY <3>1, <3>2
  <2>11. ASSUME NEW r \in wire'
         PROVE  Cut(r.key)' \/ Whole(r.key, r.payload)'
    <3>1. r \in wire /\ r.key \in Batches \ {b} /\ r.payload \in Payloads
      BY <2>1, <2>2 DEF OneKey, TypeOK, Requests
    <3>2. Cut(r.key) \/ Whole(r.key, r.payload)
      BY <3>1 DEF KeyInv
    <3> QED
      BY <2>6, <2>7, <3>1, <3>2
  <2>12. ASSUME NEW a \in Batches, NEW q \in bound'[a]
         PROVE  Cut(a)' \/ Whole(a, q)'
    <3>1. q \in bound[a] /\ a # b /\ q \in Payloads
      BY <2>1, <2>2 DEF OneKey, TypeOK
    <3>2. Cut(a) \/ Whole(a, q)
      BY <3>1 DEF KeyInv
    <3> QED
      BY <2>6, <2>7, <3>1, <3>2
  <2>13. ASSUME NEW v \in Workers, job'[v].answer = "conflict",
                NEW a, a = job'[v].batch
         PROVE  Cut(a)'
    <3>1. job'[v] = job[v]
      BY <2>1, <2>13 DEF TypeOK, Claimed, Idle
    <3>2. a \in Batches \ {b}
      <4>1. job[v].pc # "idle"
        BY <2>13, <3>1, JobFacts, IdleFacts
      <4>2. row[job[v].batch] # "unused"
        BY <4>1 DEF OneKey
      <4> QED
        BY <2>1, <2>13, <3>1, <4>1, <4>2, JobFacts
    <3>3. Cut(a)
      BY <2>13, <3>1 DEF KeyInv
    <3> QED
      BY <2>6, <3>2, <3>3
  <2>14. \A v \in Workers : job'[v].answer = "conflict" =>
            \E m \in Msgs : batchOf'[m] = job'[v].batch /\ state'[m] = "DELETED"
    BY <2>13 DEF Cut
  <2>15. \A a \in Batches : row'[a] = "open" =>
            Cut(a)' \/ Members(a)' = {m \in Msgs : batchOf'[m] = a}
    BY <2>9
  <2>16. \A v \in Workers : \A a, q :
            job'[v].pc # "idle" /\ a = job'[v].batch /\ q = job'[v].payload =>
               Cut(a)' \/ Whole(a, q)'
    BY <2>10
  <2> QED
    BY <2>11, <2>12, <2>14, <2>15, <2>16, KeyPrimed
<1>4. ASSUME NEW w \in Workers, NEW b \in Batches, ClaimRetry(w, b)
      PROVE  KeyInv'
  <2>1. PICK p \in Payloads :
          /\ IsPayloadOf(p, b)
          /\ job' = job \/ job' = [job EXCEPT ![w] = Claimed(b, p, TRUE)]
    BY <1>4 DEF ClaimRetry
  <2>2. /\ UNCHANGED <<state, batchOf, position, row, wire, bound>> /\ entries' = entries
        /\ row[b] = "open"
    BY <1>4, <1>b DEF ClaimRetry, Retryable
  <2>3. Cut(b) \/ Whole(b, p)
    BY <2>1, <2>2 DEF IsPayloadOf, KeyInv, Whole
  <2>4. ASSUME NEW v \in Workers
        PROVE  \/ job'[v] = job[v]
               \/ /\ job'[v].batch = b /\ job'[v].payload = p
                  /\ job'[v].answer = "none"
    <3> DEFINE j == Claimed(b, p, TRUE)
    <3>1. j.batch = b /\ j.payload = p /\ j.answer = "none"
      BY DEF Claimed, Idle
    <3>2. job \in [Workers -> Jobs] /\ (job' = job \/ job' = [job EXCEPT ![w] = j])
      BY <2>1 DEF TypeOK
    <3> HIDE DEF j
    <3>3. job'[v] = job[v] \/ job'[v] = j
      BY <3>2
    <3> QED
      BY <3>1, <3>3
  <2>5. ASSUME NEW v \in Workers, job'[v].pc # "idle"
        PROVE  Cut(job'[v].batch) \/ Whole(job'[v].batch, job'[v].payload)
    BY <2>3, <2>4, <2>5 DEF KeyInv
  <2>6. ASSUME NEW v \in Workers, job'[v].answer = "conflict"
        PROVE  Cut(job'[v].batch)
    BY <2>4, <2>6 DEF KeyInv
  <2> QED
    BY <2>2, <2>5, <2>6 DEF KeyInv, Cut, Whole, Members
<1>5. ASSUME NEW w \in Workers, Send(w)
      PROVE  KeyInv'
  <2>1. \A v \in Workers : KeepsJob(v) /\ job'[v].answer = job[v].answer
                           /\ job'[v].batch = job[v].batch
    BY <1>5, JobFacts DEF Send, KeepsJob, TypeOK
  <2>2. \A v \in Workers : job'[v].answer = "conflict" => Cut(job'[v].batch)
    BY <2>1 DEF KeyInv
  <2> QED
    BY <1>5, <2>1, <2>2, KeyKept DEF Send, Members
<1>6. ASSUME NEW w \in Workers, StopWaiting(w)
      PROVE  KeyInv'
  <2>1. \A v \in Workers : /\ KeepsJob(v)
                           /\ job'[v].answer = "conflict" => job'[v] = job[v]
    BY <1>6, AnsweredFacts DEF StopWaiting, KeepsJob, TypeOK, Answers
  <2> QED
    BY <1>6, <2>1, KeyKept DEF StopWaiting, Members
<1>7. ASSUME NEW r \in wire, NEW a \in Answers, NEW ids \in Payloads \union {Idle.ids},
             a = "accepted" => ids = r.payload, Reply(r, a, ids),
             a = "conflict" => Cut(r.key),
             UNCHANGED <<tableVars, row>>,
             \A b \in Batches : \A p \in bound'[b] :
                p \in bound[b] \/ (r.key = b /\ r.payload = p)
      PROVE  KeyInv'
  <2>1. \A w \in Workers : KeepsJob(w)
    BY <1>7, ReplyKeepsJob
  <2>2. \A w \in Workers : job'[w].answer = "conflict" =>
                              job'[w] = job[w] \/ Cut(job'[w].batch)
    BY <1>7, ReplyConflicts
  <2>3. wire' \subseteq wire
    BY <1>7 DEF Reply
  <2> QED
    BY <1>7, <2>1, <2>2, <2>3, KeyKept DEF Members
<1>8. ASSUME NEW r \in wire, ProviderMails(r)
      PROVE  KeyInv'
  <2>1. r.payload \in Payloads
    BY DEF TypeOK, Requests
  <2>2. \A b \in Batches : \A p \in bound'[b] :
           p \in bound[b] \/ (r.key = b /\ r.payload = p)
    BY <1>8 DEF ProviderMails, TypeOK
  <2>3. \E a \in Answers, ids \in Payloads \union {Idle.ids} :
           /\ a # "conflict" /\ (a = "accepted" => ids = r.payload)
           /\ Reply(r, a, ids)
    BY <1>8, <2>1 DEF ProviderMails, Answers
  <2>4. UNCHANGED <<tableVars, row>>
    BY <1>8 DEF ProviderMails
  <2> QED
    BY <1>7, <2>2, <2>3, <2>4
<1>9. ASSUME NEW r \in wire, ProviderReplays(r)
      PROVE  KeyInv'
  <2>1. r.payload \in Payloads /\ r.key \in Batches
    BY DEF TypeOK, Requests
  <2>2. UNCHANGED <<tableVars, row, bound>>
    BY <1>9 DEF ProviderReplays
  <2>3. CASE r.payload \in bound[r.key]
    BY <1>7, <1>9, <2>1, <2>2, <2>3 DEF ProviderReplays, Answers
  <2>4. CASE r.payload \notin bound[r.key]
    <3>1. PICK q \in bound[r.key] : TRUE
      BY <1>9 DEF ProviderReplays
    <3>2. q \in Payloads /\ q # r.payload
      BY <2>1, <2>4 DEF TypeOK
    <3>3. Cut(r.key) \/ (Whole(r.key, q) /\ Whole(r.key, r.payload))
      BY <2>1 DEF KeyInv
    <3>4. Cut(r.key)
      BY <2>1, <3>2, <3>3, SamePayload
    <3>5. Reply(r, "conflict", Idle.ids)
      BY <1>9, <2>4 DEF ProviderReplays
    <3> QED
      BY <1>7, <2>2, <3>4, <3>5 DEF Answers
  <2> QED
    BY <2>3, <2>4
<1>10. ASSUME NEW r \in wire, ProviderRefuses(r)
       PROVE  KeyInv'
  <2>1. UNCHANGED <<tableVars, row, bound>>
    BY <1>10 DEF ProviderRefuses
  <2>2. ASSUME NEW a \in {"retryable", "rejected"}, Reply(r, a, Idle.ids)
        PROVE  KeyInv'
    BY <1>7, <2>1, <2>2 DEF Answers
  <2>3. CASE wire' = wire \ {r} /\ UNCHANGED job
    BY <1>a, <2>1, <2>3, KeyKept DEF Members
  <2> QED
    BY <1>10, <2>2, <2>3 DEF ProviderRefuses
<1>11. ASSUME NEW b \in Batches, ProviderForgets(b)
       PROVE  KeyInv'
  <2>1. \A a \in Batches : bound'[a] \subseteq bound[a]
    BY <1>11 DEF ProviderForgets, TypeOK
  <2> QED
    BY <1>11, <1>a, <2>1, KeyKept DEF ProviderForgets, Members
<1>12. ASSUME NEW w \in Workers, Finalize(w)
       PROVE  KeyInv'
  <2>1. /\ UNCHANGED <<batchOf, position, wire, bound>>
        /\ job' = [job EXCEPT ![w] = Idle]
    BY <1>12
    DEF Finalize, FinalizeAccepted, FinalizeFailed, FinalizeIndeterminate,
        ScheduleRetry, FinalizerThrows, RemoveBatch, EndJob
  <2>2. \A m \in Msgs : state[m] = "DELETED" => state'[m] = "DELETED"
    BY <1>12
    DEF Finalize, FinalizeAccepted, FinalizeFailed, FinalizeIndeterminate,
        ScheduleRetry, FinalizerThrows, SettledAs
  <2>3. ASSUME NEW b \in Batches, row'[b] = "open"
        PROVE  row[b] = "open" /\ \A m \in Members(b) : m \in entries'
    <3>1. CASE RemoveBatch(job[w].batch)
      BY <2>3, <3>1 DEF RemoveBatch, Members, TypeOK
    <3>2. CASE UNCHANGED <<entries, row>>
      BY <2>3, <3>2 DEF Members
    <3> QED
      BY <1>12, <3>1, <3>2
      DEF Finalize, FinalizeAccepted, FinalizeFailed, FinalizeIndeterminate,
          ScheduleRetry, FinalizerThrows
  <2>4. \A v \in Workers : /\ KeepsJob(v)
                           /\ job'[v].answer = "conflict" => job'[v] = job[v]
    BY <2>1, EndJobKeepsJob, EndJobConflicts
  <2> QED
    BY <2>1, <2>2, <2>3, <2>4, KeyKept
<1>13. ASSUME NEW w \in Workers, Crash(w)
       PROVE  KeyInv'
  <2>1. \A v \in Workers : /\ KeepsJob(v)
                           /\ job'[v].answer = "conflict" => job'[v] = job[v]
    BY <1>13, EndJobKeepsJob, EndJobConflicts DEF Crash
  <2> QED
    BY <1>13, <2>1, KeyKept DEF Crash, Members
<1>14. ASSUME NEW b \in Batches, Clock(b)
       PROVE  KeyInv'
  BY <1>14, <1>a, KeyKept DEF Clock, LeaseLapses, RetryComesDue, WindowExpires, Members
<1>15. CASE UNCHANGED vars
  BY <1>15, <1>a, KeyKept DEF vars, Members
<1> QED
  BY <1>1, <1>2, <1>3, <1>4, <1>5, <1>6, <1>8, <1>9, <1>10, <1>11, <1>12, <1>13,
     <1>14, <1>15
  DEF Next, Drain, Provider
-----------------------------------------------------------------------------
(* The theorems.                                                           *)

IInv == Base /\ MailInv /\ AckInv /\ QueueInv /\ KeyInv

LEMMA InitInv == Init => IInv
<1> SUFFICES ASSUME Init
             PROVE  IInv
  OBVIOUS
<1>1. TypeInv
  BY IdleFacts, BoundAssumption DEF Init, TypeInv, TypeOK, AcceptedIds, States
<1>2. OneKey
  BY IdleFacts, BatchAssumption DEF Init, OneKey
<1>3. MailInv
  BY DEF Init, MailInv, MailedAtMostOnce
<1>4. AckInv
  BY IdleFacts DEF Init, AckInv, AcceptedWasMailed
<1>5. QueueInv
  BY IdleFacts DEF Init, QueueInv, PendingIffQueued, Owns
<1>6. KeyInv
  BY IdleFacts DEF Init, KeyInv
<1> QED
  BY <1>1, <1>2, <1>3, <1>4, <1>5, <1>6 DEF IInv, Base

LEMMA InvStep == IInv /\ [Next]_vars => IInv'
BY TypeStep, OneKeyStep, MailStep, AckStep, QueueStep, KeyStep DEF IInv, Base

\* The provider mails no message twice, whatever the interleaving of drains,
\* timeouts, lapsed leases, crashes, deletions and the provider's forgetting
\* of the key.
THEOREM MailsOnce == Spec => []MailedAtMostOnce
<1>1. IInv => MailedAtMostOnce
  BY DEF IInv, MailInv
<1> QED
  BY <1>1, InitInv, InvStep, PTL DEF Spec

\* A message recorded as ACCEPTED was mailed and carries the id of its own
\* email.
THEOREM AcceptedMeansMailed == Spec => []AcceptedWasMailed
<1>1. IInv => AcceptedWasMailed
  BY DEF IInv, AckInv
<1> QED
  BY <1>1, InitInv, InvStep, PTL DEF Spec

\* A message awaits its outcome exactly while it has an outbox entry, and a
\* batched entry is in an open batch.
THEOREM NothingStranded == Spec => []PendingIffQueued
<1>1. IInv => PendingIffQueued
  BY DEF IInv, QueueInv
<1> QED
  BY <1>1, InitInv, InvStep, PTL DEF Spec

\* The provider refuses a key for another payload only when a conversation in
\* the batch was deleted.
THEOREM ConflictsExplained == Spec => []ConflictOnlyAfterDelete
<1>1. IInv => ConflictOnlyAfterDelete
  BY DEF IInv, KeyInv, Cut, ConflictOnlyAfterDelete
<1> QED
  BY <1>1, InitInv, InvStep, PTL DEF Spec

\* What a step may do to the state of a message that is PENDING.
LEMMA SettlesOnlyByOwner ==
    ASSUME IInv, [Next]_vars, NEW m \in Msgs,
           state[m] = "PENDING", state'[m] \in Settled
    PROVE  \E w \in Workers : /\ holder[batchOf[m]] = {w}
                              /\ job[w].batch = batchOf[m]
                              /\ job[w].pc \in {"claimed", "answered"}
                              /\ job'[w] = Idle
<1>0. TypeOK /\ OneKey
  BY DEF IInv, Base, TypeInv
<1>1. state'[m] # state[m] /\ state'[m] \notin {"PENDING", "DELETED"}
  BY DEF Settled
<1>2. ASSUME NEW w \in Workers, NEW o \in Settled,
             job[w].pc \in {"claimed", "answered"},
             SettledAs(w, o), Owns(w), EndJob(w)
      PROVE  /\ holder[batchOf[m]] = {w}
             /\ job[w].batch = batchOf[m]
             /\ job'[w] = Idle
  <2>1. m \in Sent(w)
    BY <1>1, <1>2 DEF SettledAs
  <2>2. batchOf[m] = job[w].batch /\ holder[job[w].batch] = {w}
    BY <1>0, <1>2, <2>1 DEF OneKey, Owns
  <2> QED
    BY <1>0, <1>2, <2>2 DEF EndJob, TypeOK
<1>3. ASSUME NEW w \in Workers,
             FinalizeAccepted(w) \/ FinalizeFailed(w) \/ FinalizeIndeterminate(w)
      PROVE  \E o \in Settled : /\ job[w].pc \in {"claimed", "answered"}
                                /\ SettledAs(w, o) /\ Owns(w) /\ EndJob(w)
  BY <1>3 DEF FinalizeAccepted, FinalizeFailed, FinalizeIndeterminate,
              IsAmbiguous, Settled
<1>4. \E w \in Workers : FinalizeAccepted(w) \/ FinalizeFailed(w)
                          \/ FinalizeIndeterminate(w)
  <2>1. ASSUME NEW n \in Msgs, Enqueue(n)
        PROVE  FALSE
    BY <1>0, <1>1, <2>1 DEF Enqueue, TypeOK
  <2>2. ASSUME NEW c \in Convs, DeleteConversation(c)
        PROVE  FALSE
    BY <1>1, <2>2 DEF DeleteConversation
  <2>3. CASE UNCHANGED state
    BY <1>1, <2>3
  <2> QED
    BY <2>1, <2>2, <2>3
    DEF Next, Drain, Provider, ClaimNewBatch, ClaimRetry, Send, StopWaiting,
        ProviderMails, ProviderReplays, ProviderRefuses, ProviderForgets,
        Finalize, ScheduleRetry, FinalizerThrows, Crash, Clock, LeaseLapses,
        RetryComesDue, WindowExpires, vars, tableVars
<1> QED
  BY <1>2, <1>3, <1>4

\* Only the drain whose token is on the batch decides a message's outcome.
THEOREM OwnerSettles == Spec => OnlyOwnerSettles
<1>1. IInv /\ [Next]_vars =>
        [\A m \in Msgs :
          state[m] = "PENDING" /\ state'[m] \in Settled =>
              \E w \in Workers : /\ holder[batchOf[m]] = {w}
                                 /\ job[w].batch = batchOf[m]
                                 /\ job[w].pc \in {"claimed", "answered"}
                                 /\ job'[w] = Idle]_vars
  BY SettlesOnlyByOwner
<1> QED
  BY <1>1, InitInv, InvStep, PTL DEF Spec, OnlyOwnerSettles
-----------------------------------------------------------------------------
(* The lane implements SendOutcome.                                        *)

LEMMA SettleIsPromised ==
    ASSUME IInv, NEW w \in Workers, Owns(w),
           NEW o \in {"ACCEPTED", "FAILED", "INDETERMINATE"},
           o = "ACCEPTED" => job[w].answer = "accepted",
           SettledAs(w, o), UNCHANGED mailed
    PROVE  Promise!Next
<1> DEFINE S == {m \in Sent(w) : state[m] = "PENDING"}
<1>1. S \in SUBSET Msgs
  BY JobFacts, PayloadFacts DEF Owns, Sent, IInv, Base, TypeInv
<1>2. o = "ACCEPTED" => \A m \in S : mailed[m] = 1
  BY DEF IInv, AckInv
<1>3. state' = [m \in Msgs |-> IF m \in S THEN o ELSE state[m]]
  BY DEF SettledAs
<1>4. Promise!Settle(S, o)
  BY <1>2, <1>3 DEF Promise!Settle
<1> QED
  BY <1>1, <1>4 DEF Promise!Next

LEMMA MailIsPromised ==
    ASSUME IInv, NEW r \in wire, ProviderMails(r)
    PROVE  Promise!Next
<1>0. TypeInv /\ TypeOK /\ OneKey /\ MailInv
  BY DEF IInv, Base, TypeInv
<1>1. r.key \in Batches /\ r.payload \in Payloads
  BY <1>0 DEF TypeOK, Requests
<1>2. Range(r.payload) \in SUBSET Msgs
  BY <1>1, PayloadFacts
<1>3. \A m \in Range(r.payload) : batchOf[m] = r.key
  BY <1>0 DEF OneKey
<1>4. bound[r.key] = {} /\ ~Sealed(r.key)
  BY DEF ProviderMails, Sealed
<1>5. \A m \in Range(r.payload) : state[m] # "ABSENT" /\ mailed[m] = 0
  BY <1>0, <1>1, <1>2, <1>3, <1>4 DEF OneKey, MailInv
<1>6. mailed' = [m \in Msgs |-> IF m \in Range(r.payload) THEN 1 ELSE mailed[m]]
  BY <1>2, <1>5 DEF ProviderMails
<1>7. UNCHANGED state
  BY DEF ProviderMails, tableVars
<1>8. Promise!Mail(Range(r.payload))
  BY <1>5, <1>6, <1>7 DEF Promise!Mail
<1> QED
  BY <1>2, <1>8 DEF Promise!Next

LEMMA PromiseStep == IInv /\ [Next]_vars => [Promise!Next]_(Promise!vars)
<1> SUFFICES ASSUME IInv, [Next]_vars
             PROVE  Promise!Next \/ UNCHANGED <<state, mailed>>
  BY DEF Promise!vars
<1> USE DEF tableVars, batchVars, providerVars
<1>1. ASSUME NEW m \in Msgs, Enqueue(m)
      PROVE  Promise!Next
  <2>1. Promise!Accept(m)
    BY <1>1 DEF Enqueue, Promise!Accept
  <2> QED
    BY <2>1 DEF Promise!Next
<1>2. ASSUME NEW c \in Convs, DeleteConversation(c)
      PROVE  Promise!Next
  <2> DEFINE gone == {m \in Msgs : ConvOf[m] = c}
  <2>1. Promise!Delete(gone)
    BY <1>2 DEF DeleteConversation, Promise!Delete
  <2> QED
    BY <2>1 DEF Promise!Next
<1>3. ASSUME NEW w \in Workers, Finalize(w)
      PROVE  Promise!Next \/ UNCHANGED <<state, mailed>>
  <2>1. CASE ScheduleRetry(w) \/ FinalizerThrows(w)
    BY <2>1 DEF ScheduleRetry, FinalizerThrows, EndJob
  <2> QED
    BY <1>3, <2>1, SettleIsPromised
    DEF Finalize, FinalizeAccepted, FinalizeFailed, FinalizeIndeterminate, EndJob
<1>4. ASSUME NEW r \in wire,
             ProviderMails(r) \/ ProviderReplays(r) \/ ProviderRefuses(r)
      PROVE  Promise!Next \/ UNCHANGED <<state, mailed>>
  BY <1>4, MailIsPromised DEF ProviderReplays, ProviderRefuses
<1>5. CASE UNCHANGED <<state, mailed>>
  BY <1>5
<1> QED
  BY <1>1, <1>2, <1>3, <1>4, <1>5
  DEF Next, Drain, Provider, ClaimNewBatch, ClaimRetry, Send, StopWaiting,
      ProviderForgets, Crash, Clock, LeaseLapses, RetryComesDue, WindowExpires,
      vars

\* Every behaviour of the lane keeps the promise of SendOutcome: one email at
\* most, one outcome that never changes, acceptance only with the email sent.
THEOREM Implements == Spec => KeepsPromise
<1>1. Init => Promise!Init
  BY DEF Init, Promise!Init
<1> QED
  BY <1>1, InitInv, InvStep, PromiseStep, PTL DEF Spec, KeepsPromise, Promise!Spec
-----------------------------------------------------------------------------
(* Under the scheduler and the drain route.                                *)

\* A step of the lane, or one that only counts a crash of an idle process: the
\* claim of an empty outbox finds nothing to clean up.
LEMMA LaneOrCrash ==
    ASSUME IInv, [DrainNext]_drainVars
    PROVE  \/ [Next]_vars
           \/ /\ UNCHANGED <<tableVars, batchVars, expired, job, wire, providerVars>>
              /\ crashes' \in 0 .. MaxCrashes
<1>0. TypeOK /\ Scheduled \subseteq Workers
  BY ScheduleAssumption DEF IInv, Base, TypeInv
<1>1. Leftover = {}
  BY <1>0 DEF Leftover, IInv, QueueInv, PendingIffQueued, TypeOK
<1>2. crashes < MaxCrashes /\ crashes' = crashes + 1 => crashes' \in 0 .. MaxCrashes
  BY <1>0, BoundAssumption DEF TypeOK
<1>3. ASSUME NEW w \in Scheduled, BatchLane(w)
      PROVE  [Next]_vars
  <2>1. CASE ClaimNothing(w)
    <3>1. entries' = entries
      BY <1>1, <2>1 DEF ClaimNothing
    <3> QED
      BY <2>1, <3>1 DEF ClaimNothing, vars, tableVars
  <2>2. CASE Claim(w) \/ Send(w) \/ StopWaiting(w) \/ Record(w)
    <3>1. Drain(w)
      BY <2>2 DEF Claim, Record, Drain
    <3> QED
      BY <1>0, <3>1 DEF Next
  <2> QED
    BY <1>3, <2>1, <2>2 DEF BatchLane
<1>4. ASSUME NEW w \in Scheduled, Killed(w)
      PROVE  \/ Next
             \/ /\ UNCHANGED <<tableVars, batchVars, expired, job, wire, providerVars>>
                /\ crashes' \in 0 .. MaxCrashes
  BY <1>0, <1>2, <1>4 DEF Killed, Next
<1>5. ASSUME NEW w \in Scheduled, Shutdown(w)
      PROVE  /\ UNCHANGED <<tableVars, batchVars, expired, job, wire, providerVars>>
             /\ crashes' \in 0 .. MaxCrashes
  BY <1>2, <1>5 DEF Shutdown
<1>6. ASSUME NEW w \in Scheduled,
             Tick(w) \/ AttachmentLane(w) \/ EndRound(w) \/ Restart(w)
      PROVE  UNCHANGED vars
  BY <1>6 DEF Tick, AttachmentLane, EndRound, Restart
<1>7. ASSUME NEW w \in Workers \ Scheduled, Request(w)
      PROVE  [Next]_vars
  BY <1>7 DEF Request, Next
<1>8. ASSUME NEW a \in Parcels, QueueParcel(a) \/ ParcelComesDue(a)
      PROVE  UNCHANGED vars
  BY <1>8 DEF QueueParcel, ParcelComesDue
<1>9. CASE Others
  BY <1>9 DEF Others, Next
<1>10. CASE UNCHANGED drainVars
  BY <1>10 DEF drainVars
<1> QED
  BY <1>3, <1>4, <1>5, <1>6, <1>7, <1>8, <1>9, <1>10 DEF DrainNext, Work

LEMMA CrashCounted ==
    ASSUME IInv,
           UNCHANGED <<tableVars, batchVars, expired, job, wire, providerVars>>,
           crashes' \in 0 .. MaxCrashes
    PROVE  IInv'
<1> USE DEF tableVars, batchVars, providerVars
<1>1. TypeInv'
  BY DEF IInv, Base, TypeInv, TypeOK, AcceptedIds
<1>2. \A w \in Workers : KeepsJob(w)
  BY DEF KeepsJob
<1>3. OneKey'
  BY <1>1, <1>2, OneKeyKept DEF IInv, Base
<1>4. MailInv'
  BY <1>1, <1>3, MailKept DEF IInv, Base
<1>5. AckInv'
  BY DEF IInv, AckInv, AcceptedWasMailed, Sent
<1>6. QueueInv'
  BY <1>2, QueueKept DEF IInv
<1>7. KeyInv'
  BY <1>1, <1>2, KeyKept DEF IInv, Base, Members
<1> QED
  BY <1>1, <1>3, <1>4, <1>5, <1>6, <1>7 DEF IInv, Base

LEMMA DrainInvStep == IInv /\ [DrainNext]_drainVars => IInv'
BY LaneOrCrash, CrashCounted, InvStep

\* What a step may do to the memory of the other workers.
LEMMA DrainJobs ==
    ASSUME TypeOK, NEW w \in Workers, Drain(w) \/ Crash(w)
    PROVE  \A v \in Workers \ {w} : job'[v] = job[v]
<1>1. \/ job' = job
      \/ \E j : job' = [job EXCEPT ![w] = j]
  BY DEF Drain, ClaimNewBatch, ClaimRetry, Send, StopWaiting, Finalize, FinalizeAccepted,
         FinalizeFailed, FinalizeIndeterminate, ScheduleRetry, FinalizerThrows,
         EndJob, Crash
<1> QED
  BY <1>1 DEF TypeOK

LEMMA OtherJobs ==
    ASSUME TypeInv, Others, NEW w \in Workers, job'[w].pc # "idle"
    PROVE  job[w].pc # "idle"
<1>1. CASE UNCHANGED job
  BY <1>1
<1>2. ASSUME NEW r \in wire, NEW a \in Answers, NEW ids \in Payloads \union {Idle.ids},
             a = "accepted" => ids = r.payload, Reply(r, a, ids)
      PROVE  job[w].pc # "idle"
  <2>1. KeepsJob(w)
    BY <1>2, ReplyKeepsJob
  <2> QED
    BY <2>1, IdleFacts DEF KeepsJob
<1>3. ASSUME NEW r \in wire, ProviderMails(r) \/ ProviderReplays(r) \/ ProviderRefuses(r)
      PROVE  job[w].pc # "idle"
  <2>1. r.payload \in Payloads
    BY DEF TypeInv, TypeOK, Requests
  <2>2. CASE ProviderMails(r)
    BY <1>2, <2>1, <2>2 DEF ProviderMails, Answers
  <2>3. CASE ProviderReplays(r)
    BY <1>2, <2>1, <2>3 DEF ProviderReplays, Answers
  <2>4. CASE ProviderRefuses(r)
    BY <1>1, <1>2, <2>4 DEF ProviderRefuses, Answers
  <2> QED
    BY <1>3, <2>2, <2>3, <2>4
<1>4. UNCHANGED job \/ \E r \in wire : ProviderMails(r) \/ ProviderReplays(r)
                                       \/ ProviderRefuses(r)
  BY DEF Others, Provider, Enqueue, DeleteConversation, Clock, LeaseLapses,
         RetryComesDue, WindowExpires, ProviderForgets
<1> QED
  BY <1>1, <1>3, <1>4

ParcelType == parcel \in [Parcels -> {"absent", "due", "later", "settled"}]

LEMMA RoundKept ==
    ASSUME DrainTypeOK, TypeOK', ParcelType', UNCHANGED round,
           \A w \in Scheduled : job'[w].pc # "idle" => job[w].pc # "idle"
    PROVE  DrainTypeOK'
BY DEF DrainTypeOK, ParcelType

LEMMA RoundSet ==
    ASSUME DrainTypeOK, TypeOK', ParcelType', NEW w \in Scheduled, NEW r \in Rounds,
           round' = [round EXCEPT ![w] = r],
           r.phase \in {"batch", "attachments"} <=> r.left > 0,
           job'[w].pc # "idle" => r.phase = "batch",
           \A v \in Scheduled \ {w} : job'[v] = job[v]
    PROVE  DrainTypeOK'
BY DEF DrainTypeOK, ParcelType

LEMMA NoTickFacts ==
    \A r \in {NoTick, Down} :
        /\ r \in Rounds
        /\ r.phase \notin {"batch", "attachments"}
        /\ r.left = 0 /\ ~(r.left > 0)
<1>1. 0 \in 0 .. MaxBatches /\ 0 \in 0 .. Limit
  BY ScheduleAssumption, BoundAssumption
<1>2. NoTick \in Rounds /\ NoTick.phase = "idle" /\ NoTick.left = 0
  BY <1>1 DEF NoTick, Rounds
<1>3. Down \in Rounds /\ Down.phase = "down" /\ Down.left = 0
  BY <1>2 DEF Down, Rounds
<1> QED
  BY <1>2, <1>3

LEMMA StartFacts ==
    ASSUME NEW n \in 0 .. MaxBatches
    PROVE  /\ StartOf(n) \in Rounds
           /\ StartOf(n).phase = "batch" /\ StartOf(n).left = n
<1>1. NoTick \in Rounds
  BY NoTickFacts
<1> QED
  BY <1>1 DEF StartOf, Rounds

\* The rest of a tick: its next place is given by its fields.
LEMMA RoundFacts ==
    ASSUME DrainTypeOK, NEW w \in Scheduled
    PROVE  /\ round[w].left \in 0 .. MaxBatches
           /\ round[w].processed \in 0 .. Limit
           /\ round[w].phase \in {"batch", "attachments"} <=> round[w].left > 0
           /\ job[w].pc # "idle" => round[w].phase = "batch"
BY DEF DrainTypeOK, Rounds

LEMMA ToAttachmentsType ==
    ASSUME DrainTypeOK, TypeOK', UNCHANGED parcel, NEW w \in Scheduled,
           round[w].phase = "batch", job'[w].pc = "idle",
           \A v \in Scheduled \ {w} : job'[v] = job[v],
           NEW c \in {"nothing", "hollow", "some"}, ToAttachments(w, c)
    PROVE  DrainTypeOK'
<1> DEFINE r == [round[w] EXCEPT !.phase = "attachments", !.claimed = c]
<1>1. r \in Rounds /\ r.phase = "attachments" /\ r.left = round[w].left
  BY DEF DrainTypeOK, Rounds
<1>2. round' = [round EXCEPT ![w] = r]
  BY DEF ToAttachments
<1> HIDE DEF r
<1> QED
  BY <1>1, <1>2, RoundFacts, RoundSet DEF DrainTypeOK, ParcelType

LEMMA DrainTypeStep == IInv /\ DrainTypeOK /\ [DrainNext]_drainVars => DrainTypeOK'
<1> SUFFICES ASSUME IInv, DrainTypeOK, [DrainNext]_drainVars
             PROVE  DrainTypeOK'
  OBVIOUS
<1>0. /\ TypeInv /\ TypeOK /\ TypeOK' /\ ParcelType
      /\ Scheduled \subseteq Workers
  BY DrainInvStep, ScheduleAssumption DEF IInv, Base, TypeInv, DrainTypeOK, ParcelType
<1> USE <1>0
<1>a. UNCHANGED vars => UNCHANGED job
  BY DEF vars
<1>1. ASSUME NEW w \in Scheduled, Tick(w) \/ Restart(w)
      PROVE  DrainTypeOK'
  <2>1. UNCHANGED <<job, parcel>>
    BY <1>1, <1>a DEF Tick, Restart
  <2>2. job[w].pc = "idle"
    BY <1>1, NoTickFacts, RoundFacts DEF Tick, Restart
  <2>3. CASE Tick(w)
    <3>1. MaxBatches \in 0 .. MaxBatches /\ MaxBatches > 0
      BY ScheduleAssumption
    <3>2. round' = [round EXCEPT ![w] = StartOf(MaxBatches)]
      BY <2>3 DEF Tick
    <3> QED
      BY <2>1, <2>2, <3>1, <3>2, StartFacts, RoundSet DEF ParcelType
  <2>4. CASE Restart(w)
    BY <2>1, <2>2, <2>4, NoTickFacts, RoundSet DEF Restart, ParcelType
  <2> QED
    BY <1>1, <2>3, <2>4
<1>2. ASSUME NEW w \in Scheduled, EndWithError(w), job'[w].pc = "idle", ParcelType',
             \A v \in Scheduled \ {w} : job'[v] = job[v]
      PROVE  DrainTypeOK'
  BY <1>2, NoTickFacts, RoundSet DEF EndWithError
<1>3. ASSUME NEW w \in Scheduled, BatchLane(w)
      PROVE  DrainTypeOK'
  <2>0. round[w].phase = "batch" /\ UNCHANGED parcel /\ ParcelType'
    BY <1>3 DEF BatchLane, ParcelType
  <2>1. CASE ClaimNothing(w)
    BY <2>0, <2>1, ToAttachmentsType DEF ClaimNothing
  <2>2. ASSUME Drain(w)
        PROVE  \A v \in Scheduled \ {w} : job'[v] = job[v]
    BY <2>2, DrainJobs
  <2>3. ASSUME Drain(w), UNCHANGED round
        PROVE  DrainTypeOK'
    <3>1. \A v \in Scheduled : job'[v].pc # "idle" => round[v].phase = "batch"
      BY <2>0, <2>2, <2>3, RoundFacts
    <3> QED
      BY <2>0, <2>3, <3>1 DEF DrainTypeOK, ParcelType
  <2>4. CASE Claim(w)
    <3>1. Drain(w)
      BY <2>4 DEF Claim, Drain
    <3> QED
      BY <1>2, <2>0, <2>2, <2>3, <2>4, <3>1 DEF Claim
  <2>5. CASE (Send(w) \/ StopWaiting(w)) /\ UNCHANGED round
    BY <2>3, <2>5 DEF Drain
  <2>6. CASE Record(w)
    <3>1. Drain(w) /\ job' = [job EXCEPT ![w] = Idle]
      BY <2>6 DEF Record, Drain, Finalize, FinalizeAccepted, FinalizeFailed,
                  FinalizeIndeterminate, ScheduleRetry, FinalizerThrows, EndJob
    <3>2. job'[w].pc = "idle"
      BY <3>1, IdleFacts DEF TypeOK
    <3>3. CASE EndWithError(w)
      BY <1>2, <2>0, <2>2, <3>1, <3>2, <3>3
    <3>4. CASE \E c \in {"hollow", "some"} : ToAttachments(w, c)
      BY <2>0, <2>2, <3>1, <3>2, <3>4, ToAttachmentsType
    <3> QED
      BY <2>6, <3>3, <3>4 DEF Record
  <2> QED
    BY <1>3, <2>1, <2>4, <2>5, <2>6 DEF BatchLane
<1>4. ASSUME NEW w \in Scheduled, AttachmentLane(w)
      PROVE  DrainTypeOK'
  <2>1. /\ round[w].phase = "attachments" /\ round[w].processed < Limit
        /\ UNCHANGED job /\ ParcelType'
    BY <1>4, <1>a DEF AttachmentLane, ParcelType
  <2>2. job[w].pc = "idle"
    BY <2>1, RoundFacts
  <2> DEFINE r == [round[w] EXCEPT !.claimed = "some",
                                   !.processed = round[w].processed + 1]
  <2>0. round[w].processed + 1 \in 0 .. Limit
    BY <2>1, BoundAssumption, RoundFacts
  <2>3. r \in Rounds /\ r.phase = "attachments" /\ r.left = round[w].left
    BY <2>0, <2>1 DEF DrainTypeOK, Rounds
  <2>4. EndWithError(w) \/ round' = [round EXCEPT ![w] = r]
    BY <1>4 DEF AttachmentLane
  <2> HIDE DEF r
  <2>5. CASE EndWithError(w)
    BY <1>2, <2>1, <2>2, <2>5
  <2>6. CASE round' = [round EXCEPT ![w] = r]
    BY <2>1, <2>2, <2>3, <2>6, RoundFacts, RoundSet
  <2> QED
    BY <2>4, <2>5, <2>6
<1>5. ASSUME NEW w \in Scheduled, EndRound(w)
      PROVE  DrainTypeOK'
  <2>1. /\ round[w].phase = "attachments" /\ UNCHANGED <<job, parcel>> /\ ParcelType'
    BY <1>5, <1>a DEF EndRound, LanesDone, ParcelType
  <2>2. job[w].pc = "idle" /\ round[w].left > 0 /\ round[w].left \in 0 .. MaxBatches
    BY <2>1, RoundFacts
  <2>3. CASE round' = [round EXCEPT ![w] = NoTick]
    BY <2>1, <2>2, <2>3, NoTickFacts, RoundSet
  <2>4. CASE round' = [round EXCEPT ![w] = StartOf(round[w].left - 1)] /\ ~LastRound(w)
    <3>1. round[w].left - 1 \in 0 .. MaxBatches /\ round[w].left - 1 > 0
      BY <2>2, <2>4, ScheduleAssumption DEF LastRound
    <3> QED
      BY <2>1, <2>2, <2>4, <3>1, StartFacts, RoundSet
  <2> QED
    BY <1>5, <2>3, <2>4 DEF EndRound
<1>6. ASSUME NEW w \in Scheduled, Killed(w)
      PROVE  DrainTypeOK'
  <2>1. UNCHANGED parcel /\ round' = [round EXCEPT ![w] = Down]
    BY <1>6 DEF Killed
  <2>2. /\ job'[w].pc = "idle"
        /\ \A v \in Scheduled \ {w} : job'[v] = job[v]
    BY <1>6, IdleFacts DEF Killed, Crash, TypeOK
  <2> QED
    BY <2>1, <2>2, NoTickFacts, RoundSet DEF ParcelType
<1>7. ASSUME NEW w \in Scheduled, Shutdown(w)
      PROVE  DrainTypeOK'
  <2> DEFINE r == [round[w] EXCEPT !.phase = "down"]
  <2>1. /\ UNCHANGED <<job, parcel>> /\ round[w].phase = "idle"
        /\ round' = [round EXCEPT ![w] = r]
    BY <1>7 DEF Shutdown, DrainTypeOK
  <2>2. r \in Rounds /\ r.phase = "down" /\ r.left = round[w].left
    BY DEF DrainTypeOK, Rounds
  <2>3. job[w].pc = "idle" /\ ~(round[w].left > 0)
    BY <2>1, RoundFacts
  <2> HIDE DEF r
  <2> QED
    BY <2>1, <2>2, <2>3, RoundSet DEF ParcelType
<1>8. ASSUME NEW w \in Workers \ Scheduled, Request(w)
      PROVE  DrainTypeOK'
  <2>1. UNCHANGED round /\ ParcelType'
    BY <1>8 DEF Request, ParcelType
  <2>2. \A v \in Scheduled : job'[v] = job[v]
    BY <1>8, <1>a, DrainJobs DEF Request
  <2> QED
    BY <2>1, <2>2, RoundKept
<1>9. ASSUME NEW a \in Parcels, QueueParcel(a) \/ ParcelComesDue(a)
      PROVE  DrainTypeOK'
  <2>1. UNCHANGED <<job, round>> /\ ParcelType'
    BY <1>9, <1>a DEF QueueParcel, ParcelComesDue, ParcelType
  <2> QED
    BY <2>1, RoundKept
<1>10. CASE Others
  <2>1. UNCHANGED round /\ ParcelType'
    BY <1>10 DEF Others, ParcelType
  <2> QED
    BY <1>10, <2>1, OtherJobs, RoundKept
<1>11. CASE UNCHANGED drainVars
  BY <1>11, <1>a, RoundKept DEF drainVars, ParcelType
<1> QED
  BY <1>1, <1>3, <1>4, <1>5, <1>6, <1>7, <1>8, <1>9, <1>10, <1>11 DEF DrainNext, Work

\* The schedulers' ticks and the lane's drains fit together: a batch is held
\* only in the batch lane's phase, and a tick that runs has rounds to go.
THEOREM DrainTypeCorrect == DrainSpec => []DrainTypeOK
<1>1. DrainInit => IInv /\ DrainTypeOK
  <2>1. DrainInit => IInv
    BY InitInv DEF DrainInit
  <2>2. IInv => TypeOK
    BY DEF IInv, Base, TypeInv
  <2>3. DrainInit => DrainTypeOK
    BY <2>1, <2>2, NoTickFacts, IdleFacts, ScheduleAssumption
    DEF DrainInit, DrainTypeOK, Init
  <2> QED
    BY <2>1, <2>3
<1> QED
  BY <1>1, DrainInvStep, DrainTypeStep, PTL DEF DrainSpec

\* What the lane promises holds under any number of schedulers and requests,
\* however their processes stop and start.
THEOREM DrainKeepsLane ==
    DrainSpec => [](/\ MailedAtMostOnce
                    /\ AcceptedWasMailed
                    /\ PendingIffQueued
                    /\ ConflictOnlyAfterDelete)
<1>1. DrainInit => IInv
  BY InitInv DEF DrainInit
<1>2. IInv => /\ MailedAtMostOnce
              /\ AcceptedWasMailed
              /\ PendingIffQueued
              /\ ConflictOnlyAfterDelete
  BY DEF IInv, MailInv, AckInv, QueueInv, KeyInv, Cut, ConflictOnlyAfterDelete
<1> QED
  BY <1>1, <1>2, DrainInvStep, PTL DEF DrainSpec

\* The scheduler and the drain route keep the promise of SendOutcome.
THEOREM DrainImplements == DrainSpec => KeepsPromise
<1>1. DrainInit => IInv /\ Promise!Init
  BY InitInv DEF DrainInit, Init, Promise!Init
<1>2. IInv /\ [DrainNext]_drainVars => [Promise!Next]_(Promise!vars)
  <2> SUFFICES ASSUME IInv, [DrainNext]_drainVars
               PROVE  [Promise!Next]_(Promise!vars)
    OBVIOUS
  <2>1. CASE [Next]_vars
    BY <2>1, PromiseStep
  <2>2. CASE UNCHANGED <<tableVars, providerVars>>
    BY <2>2 DEF Promise!vars, tableVars, providerVars
  <2> QED
    BY <2>1, <2>2, LaneOrCrash
<1> QED
  BY <1>1, <1>2, DrainInvStep, PTL DEF DrainSpec, KeepsPromise, Promise!Spec
=============================================================================
