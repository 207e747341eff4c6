---------------------- MODULE AttachmentOutboxProofs ----------------------
(***************************************************************************)
(* Proofs about the attachment lane, for any messages, workers and number  *)
(* of crashes.  Each action is looked at twice: once for the types, and    *)
(* once for what it does to the workers' memories, the wire and the        *)
(* provider, stated by StepOk; the invariant follows from StepOk alone.    *)
(***************************************************************************)
EXTENDS AttachmentOutbox, TLAPS

-----------------------------------------------------------------------------
(* Types.                                                                  *)

LEMMA JobFacts ==
    ASSUME TypeOK, NEW w \in Workers
    PROVE  /\ job[w] \in Jobs
           /\ job[w].pc = "idle" => job[w] = Idle
           /\ job[w].message \in Msgs => job[w].pc # "idle"
BY LaneNames DEF TypeOK, Jobs, Idle

LEMMA IdleFacts ==
    /\ Idle \in Jobs
    /\ Idle.pc = "idle" /\ Idle.message = NoMessage /\ Idle.answer = "none"
BY DEF Idle, Jobs, Payloads, Answers

JobsOk == job \in [Workers -> Jobs] /\ \A w \in Workers : job[w].pc = "idle" => job[w] = Idle

\* A drain that is at work has a message.
AtWork == \A w \in Workers : job[w].pc # "idle" => job[w].message \in Msgs

Types == TypeOK /\ AtWork

LEMMA ClaimFacts ==
    ASSUME NEW m \in Msgs, NEW b \in BOOLEAN
    PROVE  LET j == [Idle EXCEPT !.pc = "claimed", !.message = m, !.again = b]
           IN  /\ j \in Jobs /\ j.pc = "claimed" /\ j.message = m /\ j.again = b
               /\ j.answer = "none"
BY DEF Idle, Jobs, Payloads, Answers

LEMMA SendFacts ==
    ASSUME NEW j \in Jobs, NEW p \in Payloads
    PROVE  LET k == [j EXCEPT !.pc = "sending", !.payload = p]
           IN  /\ k \in Jobs /\ k.pc = "sending" /\ k.message = j.message
               /\ k.again = j.again /\ k.answer = j.answer
BY DEF Jobs

LEMMA AnswerFacts ==
    ASSUME NEW j \in Jobs, NEW a \in Answers
    PROVE  LET k == [j EXCEPT !.pc = "answered", !.answer = a]
           IN  /\ k \in Jobs /\ k.pc = "answered" /\ k.message = j.message
               /\ k.again = j.again /\ k.answer = a
BY DEF Jobs

\* One worker's memory changes.
LEMMA JobStep ==
    ASSUME TypeOK, NEW w \in Workers, NEW j \in Jobs, j.pc = "idle" => j = Idle,
           job' = [job EXCEPT ![w] = j]
    PROVE  /\ JobsOk' /\ job'[w] = j
           /\ \A v \in Workers \ {w} : job'[v] = job[v]
BY DEF TypeOK, JobsOk

LEMMA SendStep ==
    ASSUME TypeOK, NEW w \in Workers, Send(w), job[w].message \in Msgs
    PROVE  /\ JobsOk'
           /\ wire' \subseteq Requests
           /\ \A r \in wire' : r \in wire \/ r.message = job[w].message
           /\ job'[w].pc = "sending" /\ job'[w].message = job[w].message
           /\ job'[w].again = job[w].again /\ job'[w].answer = job[w].answer
           /\ \A v \in Workers \ {w} : job'[v] = job[v]
<1> DEFINE m == job[w].message
           p == PayloadOf(m)
           j == [job[w] EXCEPT !.pc = "sending", !.payload = p]
           r == [worker |-> w, message |-> m, payload |-> p]
<1>1. job[w] \in Jobs /\ p \in Payloads
  BY JobFacts DEF PayloadOf, Payloads
<1>2. r \in Requests /\ r.message = m /\ wire' = wire \union {r}
  BY <1>1 DEF Send, Requests
<1>3. job' = [job EXCEPT ![w] = j]
  BY DEF Send, TypeOK
<1>4. j \in Jobs /\ j.pc = "sending" /\ j.message = m /\ j.again = job[w].again
      /\ j.answer = job[w].answer
  BY <1>1, SendFacts
<1> HIDE DEF j, p
<1>5. JobsOk' /\ job'[w] = j /\ \A v \in Workers \ {w} : job'[v] = job[v]
  BY <1>3, <1>4, JobStep
<1> QED
  BY <1>2, <1>4, <1>5 DEF TypeOK

LEMMA AnsweredStep ==
    ASSUME TypeOK, NEW w \in Workers, NEW a \in Answers,
           job' = [job EXCEPT ![w].pc = "answered", ![w].answer = a]
    PROVE  /\ JobsOk'
           /\ job'[w].pc = "answered" /\ job'[w].message = job[w].message
           /\ job'[w].again = job[w].again /\ job'[w].answer = a
           /\ \A v \in Workers \ {w} : job'[v] = job[v]
<1> DEFINE j == [job[w] EXCEPT !.pc = "answered", !.answer = a]
<1>1. job[w] \in Jobs
  BY JobFacts
<1>2. job' = [job EXCEPT ![w] = j]
  BY DEF TypeOK
<1>3. j \in Jobs /\ j.pc = "answered" /\ j.message = job[w].message
      /\ j.again = job[w].again /\ j.answer = a
  BY <1>1, AnswerFacts
<1> HIDE DEF j
<1>4. JobsOk' /\ job'[w] = j /\ \A v \in Workers \ {w} : job'[v] = job[v]
  BY <1>2, <1>3, JobStep
<1> QED
  BY <1>3, <1>4

LEMMA AcceptFailsStep ==
    ASSUME TypeOK, NEW w \in Workers, AcceptFails(w)
    PROVE  /\ JobsOk'
           /\ job'[w].pc = "answered" /\ job'[w].message = job[w].message
           /\ job'[w].again = job[w].again /\ job'[w].answer = "retryable"
           /\ \A v \in Workers \ {w} : job'[v] = job[v]
<1> DEFINE j == [job[w] EXCEPT !.answer = "retryable"]
<1>1. job[w] \in Jobs /\ job[w].pc = "answered"
  BY JobFacts DEF AcceptFails
<1>2. job' = [job EXCEPT ![w] = j]
  BY DEF TypeOK, AcceptFails
<1>3. j \in Jobs /\ j.pc = "answered" /\ j.message = job[w].message
      /\ j.again = job[w].again /\ j.answer = "retryable"
  BY <1>1 DEF Jobs, Answers
<1> HIDE DEF j
<1>4. JobsOk' /\ job'[w] = j /\ \A v \in Workers \ {w} : job'[v] = job[v]
  BY <1>2, <1>3, JobStep
<1> QED
  BY <1>3, <1>4

LEMMA EndStep ==
    ASSUME TypeOK, NEW w \in Workers, EndJob(w)
    PROVE  /\ JobsOk' /\ job'[w] = Idle
           /\ \A v \in Workers \ {w} : job'[v] = job[v]
BY JobStep, IdleFacts DEF EndJob

\* An answer reaches the worker that waits for it, if it still does.
LEMMA ReplyStep ==
    ASSUME TypeOK, NEW r \in wire, NEW a \in Answers, Reply(r, a)
    PROVE  /\ JobsOk' /\ wire' \subseteq wire
           /\ \A w \in Workers :
                 \/ job'[w] = job[w]
                 \/ /\ job[w].pc = "sending" /\ job[w].message = r.message
                    /\ job'[w].pc = "answered" /\ job'[w].message = job[w].message
                    /\ job'[w].again = job[w].again /\ job'[w].answer = a
<1>1. r.worker \in Workers
  BY DEF TypeOK, Requests
<1>2. wire' \subseteq wire
  BY DEF Reply
<1>3. CASE Waiting(r)
  <2>1. job' = [job EXCEPT ![r.worker].pc = "answered", ![r.worker].answer = a]
    BY <1>3 DEF Reply
  <2> QED
    BY <1>1, <1>2, <1>3, <2>1, AnsweredStep DEF Waiting
<1>4. CASE ~Waiting(r)
  BY <1>2, <1>4 DEF Reply, TypeOK, JobsOk
<1> QED
  BY <1>3, <1>4

LEMMA SettleType ==
    ASSUME TypeOK, NEW w \in Workers, NEW o \in Settled, Settle(w, o)
    PROVE  TypeOK'
<1>1. PICK m \in Msgs : m = job[w].message /\ m \in entries
  BY DEF Settle, Owns, TypeOK
<1>2. state[m] = "PENDING"
  BY <1>1 DEF TypeOK
<1>3. state' = [state EXCEPT ![m] = o]
  BY <1>1, <1>2 DEF Settle
<1>4. state' \in [Msgs -> States] /\ entries' = {n \in Msgs : state'[n] = "PENDING"}
  BY <1>1, <1>3 DEF Settle, RemoveEntry, TypeOK, States, Settled
<1>5. JobsOk'
  BY EndStep DEF Settle
<1> QED
  BY <1>1, <1>4, <1>5 DEF Settle, RemoveEntry, TypeOK, JobsOk, providerVars

LEMMA ClaimStep ==
    ASSUME TypeOK, NEW w \in Workers, NEW m \in Msgs, Claim(w, m)
    PROVE  /\ JobsOk'
           /\ job'[w].pc = "claimed" /\ job'[w].message = m /\ job'[w].answer = "none"
           /\ job'[w].again = (m \in attempted)
           /\ \A v \in Workers \ {w} : job'[v] = job[v]
<1> DEFINE b == m \in attempted
           j == [Idle EXCEPT !.pc = "claimed", !.message = m, !.again = b]
<1>1. b \in BOOLEAN
  OBVIOUS
<1>2. job' = [job EXCEPT ![w] = j]
  BY DEF Claim
<1> HIDE DEF b
<1>3. /\ j \in Jobs /\ j.pc = "claimed" /\ j.message = m /\ j.again = b
      /\ j.answer = "none"
  BY <1>1 DEF Idle, Jobs, Payloads, Answers
<1> HIDE DEF j
<1>4. JobsOk' /\ job'[w] = j /\ \A v \in Workers \ {w} : job'[v] = job[v]
  BY <1>2, <1>3, JobStep
<1> QED
  BY <1>3, <1>4 DEF b

LEMMA TypeInit == Init => Types
<1> SUFFICES ASSUME Init PROVE Types
  OBVIOUS
<1> QED
  BY IdleFacts, LaneBounds DEF Init, Types, TypeOK, AtWork, States

LEMMA TypeStep == Types /\ [Next]_vars => Types'
<1> SUFFICES ASSUME Types, [Next]_vars
             PROVE  Types'
  OBVIOUS
<1> USE DEF entryVars, providerVars, Types
<1>1. ASSUME NEW m \in Msgs, Enqueue(m) PROVE Types'
  BY <1>1 DEF Enqueue, TypeOK, States, AtWork
<1>2. ASSUME NEW m \in Msgs, Delete(m) PROVE Types'
  BY <1>2 DEF Delete, RemoveEntry, TypeOK, States, AtWork
<1>3. ASSUME NEW w \in Workers, NEW m \in Msgs, Claim(w, m) PROVE Types'
  <2>1. entries' = entries
    BY <1>3 DEF Claim, Leftover, TypeOK
  <2>2. JobsOk' /\ AtWork'
    BY <1>3, ClaimStep DEF AtWork
  <2> QED
    BY <1>3, <2>1, <2>2 DEF Claim, TypeOK, JobsOk
<1>4. ASSUME NEW w \in Workers, Send(w) PROVE Types'
  <2>1. job[w].message \in Msgs /\ job[w].pc # "idle"
    BY <1>4 DEF Send, AtWork
  <2>2. UNCHANGED <<state, entryVars, expired, providerVars, crashes>>
    BY <1>4 DEF Send
  <2> QED
    BY <1>4, <2>1, <2>2, SendStep DEF TypeOK, JobsOk, AtWork
<1>5. ASSUME NEW w \in Workers, ReadFails(w) \/ StopWaiting(w) PROVE Types'
  <2>1. job[w].pc # "idle" /\ "retryable" \in Answers
    BY <1>5 DEF ReadFails, StopWaiting, Answers
  <2>2. job' = [job EXCEPT ![w].pc = "answered", ![w].answer = "retryable"]
    BY <1>5 DEF ReadFails, StopWaiting
  <2>3. /\ JobsOk' /\ job'[w].message = job[w].message
        /\ \A v \in Workers \ {w} : job'[v] = job[v]
    BY <2>1, <2>2, AnsweredStep
  <2>4. AtWork'
    BY <2>1, <2>3 DEF AtWork
  <2> QED
    BY <1>5, <2>3, <2>4 DEF ReadFails, StopWaiting, TypeOK, JobsOk
<1>6. ASSUME NEW r \in wire, ProviderMails(r) PROVE Types'
  <2>1. r \in Requests
    BY DEF TypeOK
  <2>2. bound' \in [Msgs -> SUBSET Payloads]
    BY <1>6, <2>1 DEF ProviderMails, TypeOK, Requests
  <2>3. mailed' \in [Msgs -> Nat] /\ bare' \subseteq Msgs
    BY <1>6, <2>1 DEF ProviderMails, TypeOK, Requests
  <2>4. JobsOk' /\ AtWork' /\ wire' \subseteq wire
    BY <1>6, ReplyStep DEF ProviderMails, Answers, AtWork
  <2> QED
    BY <1>6, <2>2, <2>3, <2>4 DEF ProviderMails, TypeOK, JobsOk
<1>7. ASSUME NEW r \in wire, ProviderReplays(r) PROVE Types'
  <2>1. JobsOk' /\ AtWork' /\ wire' \subseteq wire
    <3>1. Reply(r, "accepted") \/ Reply(r, "conflict")
      BY <1>7 DEF ProviderReplays
    <3> QED
      BY <3>1, ReplyStep DEF Answers, AtWork
  <2> QED
    BY <1>7, <2>1 DEF ProviderReplays, TypeOK, JobsOk
<1>8. ASSUME NEW r \in wire, ProviderRefuses(r) PROVE Types'
  <2>1. CASE wire' = wire \ {r} /\ UNCHANGED job
    BY <1>8, <2>1 DEF ProviderRefuses, TypeOK, AtWork
  <2>2. CASE Reply(r, "retryable") \/ Reply(r, "rejected")
    <3>1. JobsOk' /\ AtWork' /\ wire' \subseteq wire
      BY <2>2, ReplyStep DEF Answers, AtWork
    <3> QED
      BY <1>8, <3>1 DEF ProviderRefuses, TypeOK, JobsOk
  <2> QED
    BY <1>8, <2>1, <2>2 DEF ProviderRefuses
<1>9. ASSUME NEW m \in Msgs, ProviderForgets(m) PROVE Types'
  BY <1>9 DEF ProviderForgets, TypeOK, AtWork
<1>10. ASSUME NEW w \in Workers, NEW o \in Settled, Settle(w, o) PROVE Types'
  <2>1. AtWork'
    BY <1>10, EndStep, IdleFacts DEF Settle, AtWork
  <2> QED
    BY <1>10, <2>1, SettleType
<1>11. ASSUME NEW w \in Workers, AcceptFails(w) PROVE Types'
  <2>1. job[w].pc # "idle"
    BY <1>11 DEF AcceptFails
  <2>2. JobsOk' /\ AtWork'
    BY <1>11, <2>1, AcceptFailsStep DEF AtWork
  <2> QED
    BY <1>11, <2>2 DEF AcceptFails, TypeOK, JobsOk
<1>12. ASSUME NEW w \in Workers, ScheduleRetry(w) PROVE Types'
  <2>1. PICK m \in Msgs : m = job[w].message /\ m \in entries
    BY <1>12 DEF ScheduleRetry, Owns, TypeOK
  <2>2. JobsOk' /\ AtWork'
    BY <1>12, EndStep, IdleFacts DEF ScheduleRetry, AtWork
  <2> QED
    BY <1>12, <2>1, <2>2 DEF ScheduleRetry, TypeOK, JobsOk
<1>13. ASSUME NEW w \in Workers, Abort(w) \/ Crash(w) PROVE Types'
  <2>1. JobsOk' /\ AtWork'
    BY <1>13, EndStep, IdleFacts DEF Abort, Crash, AtWork
  <2> QED
    BY <1>13, <2>1, LaneBounds DEF Abort, Crash, TypeOK, JobsOk
<1>14. ASSUME NEW m \in Msgs, LeaseLapses(m) \/ RetryComesDue(m) \/ WindowExpires(m)
       PROVE  Types'
  BY <1>14 DEF LeaseLapses, RetryComesDue, WindowExpires, TypeOK, AtWork
<1>15. CASE UNCHANGED vars
  BY <1>15 DEF vars, TypeOK, AtWork
<1> QED
  BY <1>1, <1>2, <1>3, <1>4, <1>5, <1>6, <1>7, <1>8, <1>9, <1>10, <1>11, <1>12,
     <1>13, <1>14, <1>15
  DEF Next, Drain, Finish, Provider, Accept, FinalizeFailed, FinalizeIndeterminate, Settled

\* The variables keep to their types; above all a row of the lane lives exactly
\* as long as its message is PENDING.
THEOREM TypeCorrect == Spec => []TypeOK
<1>1. Types => TypeOK
  BY DEF Types
<1> QED
  BY <1>1, TypeInit, TypeStep, PTL DEF Spec

-----------------------------------------------------------------------------
(* The inductive invariant.                                                *)

\* What a drain works on or has posted was enqueued, and was counted as an
\* attempt before.
Begun ==
    /\ \A w \in Workers : job[w].pc # "idle" =>
            job[w].message \in attempted /\ state[job[w].message] # "ABSENT"
    /\ \A r \in wire : state[r.message] # "ABSENT"
    /\ expired \subseteq attempted

\* Nobody will post m again: its window is over, nothing is under way, and a drain
\* that has it knows it was attempted before.
Sealed(m) ==
    /\ m \in expired
    /\ \A r \in wire : r.message # m
    /\ \A w \in Workers : job[w].message = m /\ job[w].pc = "claimed" => job[w].again

\* A message was mailed at most once, and its key is bound as long as somebody
\* may post it.
MailInv ==
    \A m \in Msgs :
        \/ mailed[m] = 0 /\ bound[m] = {}
        \/ mailed[m] = 1 /\ (bound[m] # {} \/ Sealed(m))

\* What a drain heard to be accepted was mailed.
AckInv == \A w \in Workers : job[w].answer = "accepted" => mailed[job[w].message] = 1

IInv == Types /\ Begun /\ MailInv /\ AckInv

-----------------------------------------------------------------------------
(* What a step does.                                                       *)

\* A drain stays as it is, ends, claims a message, or goes on with the one it has;
\* it hears that a message is accepted only when the provider has its key.
Moves(w) ==
    \/ job'[w] = job[w]
    \/ job'[w] = Idle
    \/ /\ job'[w].pc = "claimed"
       /\ job'[w].message \in Msgs /\ state[job'[w].message] # "ABSENT"
       /\ job'[w].message \in attempted'
       /\ job'[w].again = (job'[w].message \in attempted)
       /\ job'[w].answer = "none"
    \/ /\ job[w].pc # "idle" /\ job'[w].pc \in {"sending", "answered"}
       /\ job'[w].message = job[w].message
       /\ \/ job'[w].answer = job[w].answer
          \/ job'[w].answer # "accepted"
          \/ bound'[job[w].message] # {}

\* A request is posted by a drain that claimed the message, in the window if it
\* was attempted before.
Posted(r) ==
    \E w \in Workers :
        /\ job[w].pc = "claimed" /\ job[w].message = r.message
        /\ ~(job[w].again /\ WindowOver(w))

\* The provider does nothing for m, mails it under a key it does not know, or
\* forgets its key after everyone has.
Provides(m) ==
    \/ mailed'[m] = mailed[m] /\ bound'[m] = bound[m]
    \/ /\ \E r \in wire : r.message = m
       /\ bound[m] = {} /\ bound'[m] # {} /\ mailed'[m] = mailed[m] + 1
    \/ bound[m] # {} /\ mailed'[m] = mailed[m] /\ Sealed(m)'

StepOk ==
    /\ \A w \in Workers : Moves(w)
    /\ \A r \in wire' : r \in wire \/ Posted(r)
    /\ \A m \in Msgs : state[m] # "ABSENT" => state'[m] # "ABSENT"
    /\ attempted \subseteq attempted' /\ expired \subseteq expired'
    /\ expired' \subseteq expired \union attempted
    /\ \A m \in Msgs : Provides(m)

LEMMA ReplyMoves ==
    ASSUME Types, NEW r \in wire, NEW a \in Answers, Reply(r, a),
           a = "accepted" => bound'[r.message] # {}
    PROVE  wire' \subseteq wire /\ \A w \in Workers : Moves(w)
<1>1. TypeOK
  BY DEF Types
<1>2. wire' \subseteq wire
  BY <1>1, ReplyStep
<1>3. ASSUME NEW w \in Workers PROVE Moves(w)
  <2>1. CASE job'[w] = job[w]
    BY <2>1 DEF Moves
  <2>2. CASE /\ job[w].pc = "sending" /\ job[w].message = r.message
             /\ job'[w].pc = "answered" /\ job'[w].message = job[w].message
             /\ job'[w].again = job[w].again /\ job'[w].answer = a
    BY <2>2 DEF Moves
  <2> QED
    BY <1>1, <2>1, <2>2, ReplyStep
<1> QED
  BY <1>2, <1>3

LEMMA StepFacts == Types /\ Begun /\ [Next]_vars => StepOk
<1> SUFFICES ASSUME Types, Begun, [Next]_vars
             PROVE  StepOk
  OBVIOUS
<1> USE DEF entryVars, providerVars
<1>0. TypeOK /\ AtWork
  BY DEF Types
<1>a. UNCHANGED job => \A w \in Workers : Moves(w)
  BY DEF Moves
<1>b. UNCHANGED <<mailed, bound>> => \A m \in Msgs : Provides(m)
  BY DEF Provides
<1>c. UNCHANGED wire => \A r \in wire' : r \in wire
  OBVIOUS
<1>d. ASSUME NEW w \in Workers, EndJob(w) PROVE \A v \in Workers : Moves(v)
  BY <1>0, <1>d, EndStep DEF Moves
<1>1. ASSUME NEW m \in Msgs, Enqueue(m) PROVE StepOk
  <2>1. \A n \in Msgs : state[n] # "ABSENT" => state'[n] # "ABSENT"
    BY <1>0, <1>1 DEF Enqueue, TypeOK
  <2> QED
    BY <1>1, <1>a, <1>b, <1>c, <2>1 DEF Enqueue, StepOk
<1>2. ASSUME NEW m \in Msgs, Delete(m) PROVE StepOk
  <2>1. \A n \in Msgs : state[n] # "ABSENT" => state'[n] # "ABSENT"
    BY <1>0, <1>2 DEF Delete, TypeOK
  <2> QED
    BY <1>2, <1>a, <1>b, <1>c, <2>1 DEF Delete, RemoveEntry, StepOk
<1>3. ASSUME NEW w \in Workers, NEW m \in Msgs, Claim(w, m) PROVE StepOk
  <2>1. state[m] = "PENDING" /\ attempted' = attempted \union {m}
    BY <1>3 DEF Claim, Ready
  <2>2. \A v \in Workers : Moves(v)
    BY <1>0, <1>3, <2>1, ClaimStep DEF Moves
  <2> QED
    BY <1>3, <1>b, <1>c, <2>1, <2>2 DEF Claim, StepOk
<1>4. ASSUME NEW w \in Workers, Send(w) PROVE StepOk
  <2>1. job[w].pc = "claimed" /\ job[w].message \in Msgs /\ ~(job[w].again /\ WindowOver(w))
    BY <1>0, <1>4 DEF Send, AtWork
  <2>2. \A v \in Workers : Moves(v)
    BY <1>0, <1>4, <2>1, SendStep DEF Moves
  <2>3. \A r \in wire' : r \in wire \/ Posted(r)
    BY <1>0, <1>4, <2>1, SendStep DEF Posted
  <2> QED
    BY <1>4, <1>b, <2>2, <2>3 DEF Send, StepOk
<1>5. ASSUME NEW w \in Workers, ReadFails(w) \/ StopWaiting(w) PROVE StepOk
  <2>1. job[w].pc # "idle" /\ "retryable" \in Answers
    BY <1>5 DEF ReadFails, StopWaiting, Answers
  <2>2. job' = [job EXCEPT ![w].pc = "answered", ![w].answer = "retryable"]
    BY <1>5 DEF ReadFails, StopWaiting
  <2>3. /\ job'[w].pc = "answered" /\ job'[w].message = job[w].message
        /\ job'[w].answer = "retryable"
        /\ \A v \in Workers \ {w} : job'[v] = job[v]
    BY <1>0, <2>1, <2>2, AnsweredStep
  <2>4. \A v \in Workers : Moves(v)
    BY <2>1, <2>3 DEF Moves
  <2> QED
    BY <1>5, <1>b, <1>c, <2>4 DEF ReadFails, StopWaiting, StepOk
<1>6. ASSUME NEW r \in wire, ProviderMails(r) PROVE StepOk
  <2>1. r.message \in Msgs
    BY <1>0 DEF TypeOK, Requests
  <2>2. bound'[r.message] # {}
    BY <1>0, <1>6, <2>1 DEF ProviderMails, TypeOK
  <2>3. wire' \subseteq wire /\ \A w \in Workers : Moves(w)
    BY <1>6, <2>2, ReplyMoves DEF ProviderMails, Answers
  <2>4. \A m \in Msgs : Provides(m)
    BY <1>0, <1>6, <2>1, <2>2 DEF ProviderMails, TypeOK, Provides
  <2> QED
    BY <1>6, <2>3, <2>4 DEF ProviderMails, StepOk
<1>7. ASSUME NEW r \in wire, ProviderReplays(r) PROVE StepOk
  <2>1. wire' \subseteq wire /\ \A w \in Workers : Moves(w)
    <3>1. bound'[r.message] # {} /\ (Reply(r, "accepted") \/ Reply(r, "conflict"))
      BY <1>7 DEF ProviderReplays
    <3> QED
      BY <3>1, ReplyMoves DEF Answers
  <2> QED
    BY <1>7, <1>b, <2>1 DEF ProviderReplays, StepOk
<1>8. ASSUME NEW r \in wire, ProviderRefuses(r) PROVE StepOk
  <2>1. wire' \subseteq wire /\ \A w \in Workers : Moves(w)
    BY <1>8, <1>a, ReplyMoves DEF ProviderRefuses, Answers
  <2> QED
    BY <1>8, <1>b, <2>1 DEF ProviderRefuses, StepOk
<1>9. ASSUME NEW m \in Msgs, ProviderForgets(m) PROVE StepOk
  <2>1. Sealed(m)'
    BY <1>9 DEF ProviderForgets, Sealed
  <2>2. \A n \in Msgs : Provides(n)
    BY <1>0, <1>9, <2>1 DEF ProviderForgets, Provides, TypeOK
  <2> QED
    BY <1>9, <1>a, <1>c, <2>2 DEF ProviderForgets, StepOk
<1>10. ASSUME NEW w \in Workers, NEW o \in Settled, Settle(w, o) PROVE StepOk
  <2>1. \A n \in Msgs : state[n] # "ABSENT" => state'[n] # "ABSENT"
    BY <1>0, <1>10 DEF Settle, TypeOK, Settled
  <2> QED
    BY <1>10, <1>b, <1>c, <1>d, <2>1 DEF Settle, RemoveEntry, StepOk
<1>11. ASSUME NEW w \in Workers, AcceptFails(w) PROVE StepOk
  <2>1. job[w].pc # "idle"
    BY <1>11 DEF AcceptFails
  <2>2. \A v \in Workers : Moves(v)
    BY <1>0, <1>11, <2>1, AcceptFailsStep DEF Moves
  <2> QED
    BY <1>11, <1>b, <1>c, <2>2 DEF AcceptFails, StepOk
<1>12. ASSUME NEW w \in Workers, ScheduleRetry(w) \/ Abort(w) \/ Crash(w) PROVE StepOk
  BY <1>12, <1>b, <1>c, <1>d DEF ScheduleRetry, Abort, Crash, StepOk
<1>13. ASSUME NEW m \in Msgs, LeaseLapses(m) \/ RetryComesDue(m) \/ WindowExpires(m)
       PROVE  StepOk
  BY <1>13, <1>a, <1>b, <1>c DEF LeaseLapses, RetryComesDue, WindowExpires, StepOk
<1>14. CASE UNCHANGED vars
  BY <1>14, <1>a, <1>b, <1>c DEF vars, StepOk
<1> QED
  BY <1>1, <1>2, <1>3, <1>4, <1>5, <1>6, <1>7, <1>8, <1>9, <1>10, <1>11, <1>12,
     <1>13, <1>14
  DEF Next, Drain, Finish, Provider, Accept, FinalizeFailed, FinalizeIndeterminate, Settled

-----------------------------------------------------------------------------
(* The invariant is kept.                                                  *)

LEMMA BegunStep == Types /\ Begun /\ StepOk => Begun'
<1> SUFFICES ASSUME Types, Begun, StepOk
             PROVE  Begun'
  OBVIOUS
<1>1. ASSUME NEW w \in Workers, job'[w].pc # "idle"
      PROVE  job'[w].message \in attempted' /\ state'[job'[w].message] # "ABSENT"
  BY <1>1, IdleFacts DEF Types, AtWork, Begun, StepOk, Moves
<1>2. ASSUME NEW r \in wire' PROVE state'[r.message] # "ABSENT"
  BY <1>2 DEF Types, TypeOK, Requests, AtWork, Begun, StepOk, Posted
<1> QED
  BY <1>1, <1>2 DEF Begun, StepOk

\* Who is sealed stays sealed: a new claim knows of the earlier attempt, and no
\* drain posts the message.
LEMMA SealedStep ==
    ASSUME Types, Begun, StepOk, NEW m \in Msgs, Sealed(m)
    PROVE  Sealed(m)'
<1>1. m \in expired' /\ m \in attempted
  BY DEF Sealed, StepOk, Begun
<1>2. ASSUME NEW r \in wire', r.message = m PROVE FALSE
  <2>1. r \notin wire
    BY <1>2 DEF Sealed
  <2> QED
    BY <1>2, <2>1 DEF StepOk, Posted, Sealed, WindowOver
<1>3. ASSUME NEW w \in Workers, job'[w].message = m, job'[w].pc = "claimed"
      PROVE  job'[w].again
  BY <1>1, <1>3, IdleFacts DEF StepOk, Moves, Sealed
<1> QED
  BY <1>1, <1>2, <1>3 DEF Sealed

LEMMA MailStep == Types /\ Types' /\ Begun /\ MailInv /\ StepOk => MailInv'
<1> SUFFICES ASSUME Types, Types', Begun, MailInv, StepOk, NEW m \in Msgs
             PROVE  \/ mailed'[m] = 0 /\ bound'[m] = {}
                    \/ mailed'[m] = 1 /\ (bound'[m] # {} \/ Sealed(m)')
  BY DEF MailInv
<1>1. CASE mailed'[m] = mailed[m] /\ bound'[m] = bound[m]
  BY <1>1, SealedStep DEF MailInv
<1>2. CASE /\ \E r \in wire : r.message = m
           /\ bound[m] = {} /\ bound'[m] # {} /\ mailed'[m] = mailed[m] + 1
  BY <1>2 DEF MailInv, Sealed
<1>3. CASE bound[m] # {} /\ mailed'[m] = mailed[m] /\ Sealed(m)'
  BY <1>3 DEF MailInv
<1> QED
  BY <1>1, <1>2, <1>3 DEF StepOk, Provides

LEMMA AckStep == IInv /\ StepOk /\ MailInv' => AckInv'
<1> SUFFICES ASSUME IInv, StepOk, MailInv', NEW w \in Workers, job'[w].answer = "accepted"
             PROVE  mailed'[job'[w].message] = 1
  BY DEF AckInv
<1>1. \A m \in Msgs : mailed[m] = 1 => mailed'[m] = 1
  BY DEF IInv, MailInv, StepOk, Provides, Sealed
<1>2. job[w].answer = "accepted" => job[w].message \in Msgs /\ mailed[job[w].message] = 1
  BY JobFacts, IdleFacts DEF IInv, Types, AtWork, AckInv
<1>3. \A m \in Msgs : bound'[m] # {} => mailed'[m] = 1
  BY DEF MailInv
<1>4. CASE job'[w] = job[w]
  BY <1>1, <1>2, <1>4
<1>5. CASE /\ job[w].pc # "idle" /\ job'[w].message = job[w].message
           /\ job'[w].answer = job[w].answer \/ bound'[job[w].message] # {}
  BY <1>1, <1>2, <1>3, <1>5 DEF IInv, Types, AtWork
<1> QED
  BY <1>4, <1>5, IdleFacts DEF StepOk, Moves

LEMMA IInvInit == Init => IInv
BY TypeInit, IdleFacts DEF IInv, Begun, MailInv, AckInv, Init

LEMMA IInvStep == IInv /\ [Next]_vars => IInv'
<1> SUFFICES ASSUME IInv, [Next]_vars
             PROVE  IInv'
  OBVIOUS
<1>1. Types' /\ StepOk
  BY TypeStep, StepFacts DEF IInv
<1>2. Begun' /\ MailInv'
  BY <1>1, BegunStep, MailStep DEF IInv
<1> QED
  BY <1>1, <1>2, AckStep DEF IInv

-----------------------------------------------------------------------------
(* The lane implements SendOutcome.                                        *)

LEMMA SettlePromised ==
    ASSUME IInv, NEW w \in Workers, NEW o \in {"ACCEPTED", "FAILED", "INDETERMINATE"},
           o = "ACCEPTED" => job[w].answer = "accepted", Settle(w, o)
    PROVE  Promise!Next
<1>1. PICK m \in Msgs : m = job[w].message /\ m \in entries
  BY DEF Settle, Owns, IInv, Types, TypeOK
<1>2. state[m] = "PENDING" /\ state \in [Msgs -> States]
  BY <1>1 DEF IInv, Types, TypeOK
<1>3. state' = [n \in Msgs |-> IF n \in {m} THEN o ELSE state[n]]
  BY <1>1, <1>2 DEF Settle
<1>4. o = "ACCEPTED" => mailed[m] = 1
  BY <1>1 DEF IInv, AckInv
<1>5. Promise!Settle({m}, o)
  BY <1>2, <1>3, <1>4 DEF Settle, providerVars, Promise!Settle
<1> QED
  BY <1>5 DEF Promise!Next

LEMMA MailPromised ==
    ASSUME IInv, NEW r \in wire, ProviderMails(r)
    PROVE  Promise!Next
<1>1. PICK m \in Msgs : m = r.message
  BY DEF IInv, Types, TypeOK, Requests
<1>2. state[m] # "ABSENT" /\ mailed[m] = 0
  BY <1>1 DEF IInv, Begun, MailInv, Sealed, ProviderMails
<1>3. mailed' = [n \in Msgs |-> IF n \in {m} THEN 1 ELSE mailed[n]]
  <2>1. mailed' = [mailed EXCEPT ![m] = mailed[m] + 1] /\ mailed \in [Msgs -> Nat]
    BY <1>1 DEF ProviderMails, IInv, Types, TypeOK
  <2>2. mailed[m] + 1 = 1
    BY <1>2
  <2>3. mailed' = [mailed EXCEPT ![m] = 1]
    BY <2>1, <2>2
  <2> QED
    BY <2>1, <2>3
<1>4. Promise!Mail({m})
  BY <1>2, <1>3 DEF ProviderMails, Promise!Mail
<1> QED
  BY <1>4 DEF Promise!Next

LEMMA StepPromised == IInv /\ [Next]_vars => [Promise!Next]_Promise!vars
<1> SUFFICES ASSUME IInv, [Next]_vars
             PROVE  Promise!Next \/ UNCHANGED <<state, mailed>>
  BY DEF Promise!vars
<1>0. state \in [Msgs -> States]
  BY DEF IInv, Types, TypeOK
<1> USE DEF entryVars, providerVars
<1>1. ASSUME NEW m \in Msgs, Enqueue(m) PROVE Promise!Next
  BY <1>1 DEF Enqueue, Promise!Next, Promise!Accept
<1>2. ASSUME NEW m \in Msgs, Delete(m) PROVE Promise!Next
  <2>1. state' = [n \in Msgs |-> IF n \in {m} THEN "DELETED" ELSE state[n]]
    BY <1>0, <1>2 DEF Delete
  <2>2. Promise!Delete({m})
    BY <1>2, <2>1 DEF Delete, Promise!Delete
  <2> QED
    BY <2>2 DEF Promise!Next
<1>3. ASSUME NEW r \in wire, ProviderMails(r) PROVE Promise!Next
  BY <1>3, MailPromised
<1>4. ASSUME NEW w \in Workers, Accept(w) \/ FinalizeFailed(w) \/ FinalizeIndeterminate(w)
      PROVE  Promise!Next
  BY <1>4, SettlePromised DEF Accept, FinalizeFailed, FinalizeIndeterminate
<1> QED
  BY <1>1, <1>2, <1>3, <1>4
  DEF Next, Drain, Finish, Provider, Claim, Send, ReadFails, StopWaiting, ProviderReplays,
      ProviderRefuses, ProviderForgets, AcceptFails, ScheduleRetry, Abort, Crash,
      LeaseLapses, RetryComesDue, WindowExpires, vars

\* One mail, one outcome that stays, and ACCEPTED only for what was mailed: every
\* step of the lane is one SendOutcome allows, or changes nothing it sees.
THEOREM Implements == Spec => KeepsPromise
<1>1. Init => Promise!Init
  BY DEF Init, Promise!Init
<1> QED
  BY <1>1, IInvInit, IInvStep, StepPromised, PTL DEF Spec, KeepsPromise, Promise!Spec

-----------------------------------------------------------------------------
(* One mail, and ACCEPTED only for what was mailed.                        *)

\* What is recorded in a message's row was the case at the provider.
OneMail == \A m \in Msgs : mailed[m] <= 1 /\ (state[m] = "ACCEPTED" => mailed[m] = 1)

\* A message becomes ACCEPTED only by a drain that heard so.
LEMMA AcceptedStep ==
    ASSUME IInv, Next, NEW m \in Msgs, state'[m] = "ACCEPTED"
    PROVE  state[m] = "ACCEPTED" \/ mailed'[m] = 1
<1>0. state \in [Msgs -> States]
  BY DEF IInv, Types, TypeOK
<1>1. ASSUME NEW n \in Msgs, Enqueue(n) \/ Delete(n) PROVE state[m] = "ACCEPTED"
  BY <1>0, <1>1 DEF Enqueue, Delete
<1>2. ASSUME NEW w \in Workers, Accept(w) PROVE state[m] = "ACCEPTED" \/ mailed'[m] = 1
  <2>1. mailed' = mailed /\ mailed[job[w].message] = 1
    BY <1>2 DEF Accept, Settle, providerVars, IInv, AckInv
  <2>2. m # job[w].message => state'[m] = state[m]
    BY <1>0, <1>2 DEF Accept, Settle
  <2> QED
    BY <2>1, <2>2
<1>3. ASSUME NEW w \in Workers, FinalizeFailed(w) \/ FinalizeIndeterminate(w)
      PROVE  state[m] = "ACCEPTED"
  BY <1>0, <1>3 DEF FinalizeFailed, FinalizeIndeterminate, Settle
<1>4. CASE UNCHANGED state
  BY <1>4
<1> QED
  BY <1>1, <1>2, <1>3, <1>4
  DEF Next, Drain, Finish, Provider, Claim, Send, ReadFails, StopWaiting, ProviderMails,
      ProviderReplays, ProviderRefuses, ProviderForgets, AcceptFails, ScheduleRetry, Abort,
      Crash, LeaseLapses, RetryComesDue, WindowExpires, entryVars, vars

LEMMA OneMailStep == IInv /\ OneMail /\ [Next]_vars => OneMail'
<1> SUFFICES ASSUME IInv, OneMail, [Next]_vars, NEW m \in Msgs
             PROVE  mailed'[m] <= 1 /\ (state'[m] = "ACCEPTED" => mailed'[m] = 1)
  BY DEF OneMail
<1>1. IInv' /\ StepOk
  BY IInvStep, StepFacts DEF IInv
<1>2. mailed'[m] \in {0, 1}
  BY <1>1 DEF IInv, MailInv
<1>3. mailed[m] = 1 => mailed'[m] = 1
  BY <1>1 DEF IInv, MailInv, StepOk, Provides, Sealed
<1>4. state'[m] = "ACCEPTED" => state[m] = "ACCEPTED" \/ mailed'[m] = 1
  BY AcceptedStep DEF vars
<1> QED
  BY <1>2, <1>3, <1>4 DEF OneMail

\* The provider mails each message at most once, and a message recorded as ACCEPTED
\* was mailed.
THEOREM MailsOnce == Spec => []OneMail
<1>1. Init => OneMail
  <2> SUFFICES ASSUME Init, NEW m \in Msgs
               PROVE  mailed[m] <= 1 /\ (state[m] = "ACCEPTED" => mailed[m] = 1)
    BY DEF OneMail
  <2>1. mailed[m] = 0 /\ state[m] = "ABSENT"
    BY DEF Init
  <2> QED
    BY <2>1
<1> QED
  BY <1>1, IInvInit, IInvStep, OneMailStep, PTL DEF Spec
=============================================================================
