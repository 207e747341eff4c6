-------------------------- MODULE SendRequestsProofs --------------------------
(***************************************************************************)
(* Proofs about the send endpoints and their deliveries, for any messages, *)
(* requests, keys and topics.                                              *)
(***************************************************************************)
EXTENDS SendRequests, FiniteSetTheorems, TLAPS

-----------------------------------------------------------------------------
(* The inductive invariant.                                                *)

\* What a delivery is about: a stored message of its lane.  It has not been
\* mailed in a way the provider has forgotten, an acceptance was a mail, and
\* while the request holds the lock nobody else records an outcome but to give
\* the message up or to delete it.
JobInv ==
    \A r \in Requests :
        LET m == job[r].message
        IN  job[r].pc # "idle" =>
              /\ m \in Msgs /\ state[m] # "ABSENT" /\ bodyOf[m].lane = "sync"
              /\ job[r].pc = "deliver" /\ mailed[m] = 1 => m \in known
              /\ job[r].answer = "accepted" => mailed[m] = 1
              /\ job[r].pc \in {"sending", "answered"} =>
                   lock[m] = {r} /\ state[m] \in {"PENDING", "INDETERMINATE", "DELETED"}

\* A call that may still arrive finds the key of a mail that was sent.
WireInv ==
    \A r \in Requests, m \in Msgs :
        <<r, m>> \in wire =>
            /\ state[m] # "ABSENT" /\ bodyOf[m].lane = "sync"
            /\ mailed[m] = 1 => m \in known

\* The provider forgets a key only when the message is too old to be sent, and
\* each message is mailed by its own lane.
MailInv ==
    \A m \in Msgs :
        /\ state[m] = "ABSENT" => mailed[m] = 0 /\ m \notin aged /\ bodyOf[m] = NoBody
        /\ bodyOf[m].lane = "sync" =>
              /\ m \notin queueMailed
              /\ m \in known => mailed[m] = 1
              /\ mailed[m] = 1 /\ m \notin known => m \in aged
        /\ bodyOf[m].lane # "sync" =>
              m \notin known /\ mailed[m] = IF m \in queueMailed THEN 1 ELSE 0

Openings(t) == {m \in Msgs : /\ Exists(m) /\ bodyOf[m].kind = "opening"
                             /\ bodyOf[m].on = t}

\* The openings of a topic are in the conversation that has it, and of those all
\* but one have FAILED.
OpeningInv ==
    \A t \in Topics :
        /\ \A m \in Openings(t) : home[m] \in Msgs /\ opened[t] = home[m]
        /\ \A m, n \in Openings(t) : m # n => state[m] = "FAILED" \/ state[n] = "FAILED"
        /\ opened[t] # NoMessage => state[opened[t]] # "ABSENT"

\* A request that looks for its topic's conversation is an opening, and what it
\* found still has the topic or is deleted.
SeeksWell(q) ==
    /\ q.pc # "idle" => q.body \in Bodies
    /\ q.pc \in {"seek", "reopen", "racedAgain"} => q.body.kind = "opening"
    /\ q.pc \in {"reopen", "racedAgain"} =>
         /\ q.conv \in Msgs /\ state[q.conv] # "ABSENT"
         /\ Of(q.conv) # {} => opened[q.body.on] = q.conv

SeekInv == \A r \in Requests : SeeksWell(request[r])

SendInv == TypeOK /\ JobInv /\ WireInv /\ MailInv /\ MailedAsRecorded

IInv == AdmissionTypeOK /\ SendInv /\ OpeningInv /\ SeekInv

-----------------------------------------------------------------------------
(* Records.                                                                *)

LEMMA Names ==
    /\ NoMessage \notin Msgs /\ NoKey \notin Keys
    /\ NoMessage \notin Topics /\ Topics \cap Msgs = {}
BY SendNames, RequestNames

LEMMA BodyTypes ==
    /\ NoBody.lane = "sync" /\ NoBody.kind = "none" /\ NoBody \notin Bodies
    /\ \A b \in Bodies :
          /\ b.lane \in Lanes /\ b.kind \in {"opening", "reply", "direct"}
          /\ b.kind = "opening" => b.on \in Topics
          /\ b.kind = "reply" => b.on \in Msgs
BY DEF NoBody, Bodies

LEMMA IdleJob ==
    /\ Idle \in Jobs /\ Idle.pc = "idle" /\ Idle.message = NoMessage
    /\ Idle.answer = "none"
BY DEF Idle, Jobs, Answers

LEMMA Started ==
    ASSUME TypeOK, NEW r \in Requests, NEW m \in Msgs, NEW pc \in {"deliver", "giveUp"},
           NEW replay \in BOOLEAN, Start(r, m, pc, replay)
    PROVE  /\ job' \in [Requests -> Jobs] /\ job[r].pc = "idle"
           /\ job'[r].pc = pc /\ job'[r].message = m /\ job'[r].answer = "none"
           /\ \A q \in Requests : q # r => job'[q] = job[q]
<1> DEFINE j == [Idle EXCEPT !.pc = pc, !.message = m, !.replay = replay]
<1>1. j \in Jobs /\ j.pc = pc /\ j.message = m /\ j.answer = "none"
  BY IdleJob DEF Jobs
<1>2. job' = [job EXCEPT ![r] = j] /\ job[r].pc = "idle" /\ job \in [Requests -> Jobs]
  BY DEF Start, TypeOK
<1> HIDE DEF j
<1> QED
  BY <1>1, <1>2

LEMMA EndedJob ==
    ASSUME TypeOK, NEW r \in Requests, End(r)
    PROVE  /\ job' \in [Requests -> Jobs] /\ job'[r] = Idle
           /\ \A q \in Requests : q # r => job'[q] = job[q]
BY IdleJob DEF TypeOK, End

\* A delivery goes on: with a new place, a new answer, or both.
GoesOn(r, pc, answer) ==
    /\ job' \in [Requests -> Jobs]
    /\ job'[r].pc = pc /\ job'[r].message = job[r].message /\ job'[r].answer = answer
    /\ \A q \in Requests : q # r => job'[q] = job[q]

LEMMA Sending ==
    ASSUME TypeOK, NEW r \in Requests, job' = [job EXCEPT ![r].pc = "sending"]
    PROVE  GoesOn(r, "sending", job[r].answer)
<1> DEFINE j == [job[r] EXCEPT !.pc = "sending"]
<1>1. /\ j \in Jobs /\ j.pc = "sending" /\ j.message = job[r].message
      /\ j.answer = job[r].answer
  BY DEF TypeOK, Jobs
<1>2. job' = [job EXCEPT ![r] = j] /\ job \in [Requests -> Jobs]
  BY DEF TypeOK
<1> HIDE DEF j
<1> QED
  BY <1>1, <1>2 DEF GoesOn

LEMMA Answering ==
    ASSUME TypeOK, NEW r \in Requests, NEW answer \in Answers,
           \/ job' = [job EXCEPT ![r].pc = "answered", ![r].answer = answer]
           \/ job[r].pc = "answered" /\ job' = [job EXCEPT ![r].answer = answer]
    PROVE  GoesOn(r, "answered", answer)
<1>1. PICK mid \in [Requests -> Jobs] :
          /\ mid[r].pc = "answered" /\ mid[r].message = job[r].message
          /\ \A q \in Requests : q # r => mid[q] = job[q]
          /\ job' = [mid EXCEPT ![r].answer = answer]
  <2>1. CASE job' = [job EXCEPT ![r].pc = "answered", ![r].answer = answer]
    <3> DEFINE j == [job[r] EXCEPT !.pc = "answered"]
               mid == [job EXCEPT ![r] = j]
    <3>1. j \in Jobs /\ j.pc = "answered" /\ j.message = job[r].message
      BY DEF TypeOK, Jobs
    <3>2. job' = [mid EXCEPT ![r].answer = answer]
      BY <2>1
    <3> HIDE DEF j
    <3>3. /\ mid \in [Requests -> Jobs] /\ mid[r] = j
          /\ \A q \in Requests : q # r => mid[q] = job[q]
      BY <3>1 DEF TypeOK
    <3> HIDE DEF mid
    <3> QED
      BY <3>1, <3>2, <3>3
  <2>2. CASE job[r].pc = "answered" /\ job' = [job EXCEPT ![r].answer = answer]
    BY <2>2 DEF TypeOK
  <2> QED
    BY <2>1, <2>2
<1> DEFINE k == [mid[r] EXCEPT !.answer = answer]
<1>2. k \in Jobs /\ k.pc = "answered" /\ k.message = job[r].message /\ k.answer = answer
  BY <1>1 DEF Jobs
<1>3. job' = [mid EXCEPT ![r] = k]
  BY <1>1
<1> HIDE DEF k
<1> QED
  BY <1>1, <1>2, <1>3 DEF GoesOn

-----------------------------------------------------------------------------
(* Deliveries: each step keeps SendInv.                                    *)

\* A request starts to deliver or to give up a message of its lane that has not
\* been mailed but under a key the provider knows.
LEMMA StartsWell ==
    ASSUME SendInv, NEW r \in Requests, NEW m \in Msgs,
           NEW pc \in {"deliver", "giveUp"}, NEW replay \in BOOLEAN, Start(r, m, pc, replay),
           state'[m] # "ABSENT", bodyOf'[m].lane = "sync",
           pc = "deliver" /\ mailed[m] = 1 => m \in known,
           UNCHANGED <<lock, wire, known, mailed>>,
           \A n \in Msgs : state[n] # "ABSENT" => state'[n] = state[n] /\ bodyOf'[n] = bodyOf[n]
    PROVE  /\ job' \in [Requests -> Jobs] /\ JobInv' /\ WireInv'
           /\ \A n \in Msgs, q \in Requests :
                 q \in lock'[n] => /\ job'[q].message = n
                                  /\ job'[q].pc \in {"sending", "answered"}
<1>1. /\ job' \in [Requests -> Jobs] /\ job[r].pc = "idle"
      /\ job'[r].pc = pc /\ job'[r].message = m /\ job'[r].answer = "none"
      /\ \A q \in Requests : q # r => job'[q] = job[q]
  BY Started DEF SendInv
<1>2. JobInv'
  BY <1>1 DEF SendInv, JobInv
<1>3. WireInv'
  BY DEF SendInv, WireInv
<1> QED
  BY <1>1, <1>2, <1>3 DEF SendInv, TypeOK

LEMMA ReplaySend ==
    ASSUME SendInv, NEW r \in Requests, NEW m \in Msgs, Replay(r, m),
           bodyOf[m].lane = "sync", UNCHANGED <<bodyOf, queueMailed>>
    PROVE  SendInv'
<1>1. /\ state[m] = "PENDING" /\ UNCHANGED <<state, aged, lock, wire, known, mailed>>
      /\ Start(r, m, IF m \in aged THEN "giveUp" ELSE "deliver", TRUE)
  BY DEF Replay, providerVars
<1>2. m \notin aged /\ mailed[m] = 1 => m \in known
  BY DEF SendInv, MailInv
<1>3. \E pc \in {"deliver", "giveUp"} :
          Start(r, m, pc, TRUE) /\ (pc = "deliver" => m \notin aged)
  BY <1>1
<1>4. /\ job' \in [Requests -> Jobs] /\ JobInv' /\ WireInv'
      /\ \A n \in Msgs, q \in Requests :
            q \in lock'[n] => /\ job'[q].message = n
                             /\ job'[q].pc \in {"sending", "answered"}
  BY <1>1, <1>2, <1>3, StartsWell
<1> QED
  BY <1>1, <1>4 DEF SendInv, TypeOK, MailInv, MailedAsRecorded

\* A request stores a message; of its lane, it goes on to deliver it.
LEMMA StoreSend ==
    ASSUME AdmissionTypeOK, SendInv, NEW r \in Requests, NEW m \in Msgs, NEW c,
           Store(r, m, c), request[r].body \in Bodies
    PROVE  SendInv'
<1> DEFINE b == request[r].body
<1>1. /\ state[m] = "ABSENT" /\ state' = [state EXCEPT ![m] = "PENDING"]
      /\ bodyOf' = [bodyOf EXCEPT ![m] = b]
      /\ IF b.lane = "sync" THEN Start(r, m, "deliver", FALSE) ELSE UNCHANGED job
      /\ UNCHANGED <<aged, lock, wire, known, mailed, queueMailed>>
  BY DEF Store, providerVars
<1> HIDE DEF b
<1>2. state \in [Msgs -> States] /\ bodyOf \in [Msgs -> Bodies \union {NoBody}]
  BY DEF AdmissionTypeOK, SendInv, TypeOK
<1>3. /\ state' \in [Msgs -> States] /\ state'[m] = "PENDING" /\ bodyOf'[m] = b
      /\ \A n \in Msgs : n # m => state'[n] = state[n] /\ bodyOf'[n] = bodyOf[n]
  BY <1>1, <1>2 DEF States
<1>4. /\ bodyOf[m].lane = "sync" /\ mailed[m] = 0 /\ m \notin aged
      /\ m \notin queueMailed /\ m \notin known
  BY <1>1, BodyTypes DEF SendInv, MailInv
<1>5. MailInv'
  BY <1>1, <1>3, <1>4 DEF SendInv, MailInv
<1>6. MailedAsRecorded'
  BY <1>1, <1>3 DEF SendInv, MailedAsRecorded
<1>7. CASE b.lane = "sync"
  <2>1. Start(r, m, "deliver", FALSE) /\ UNCHANGED <<lock, wire, known, mailed>>
    BY <1>1, <1>7
  <2>2. state'[m] # "ABSENT" /\ bodyOf'[m].lane = "sync" /\ mailed[m] # 1
    BY <1>3, <1>4, <1>7
  <2>3. \A n \in Msgs : state[n] # "ABSENT" => state'[n] = state[n] /\ bodyOf'[n] = bodyOf[n]
    BY <1>1, <1>3
  <2>4. /\ job' \in [Requests -> Jobs] /\ JobInv' /\ WireInv'
        /\ \A n \in Msgs, q \in Requests :
              q \in lock'[n] => /\ job'[q].message = n
                               /\ job'[q].pc \in {"sending", "answered"}
    BY <2>1, <2>2, <2>3, StartsWell
  <2> QED
    BY <1>1, <1>3, <1>5, <1>6, <2>4 DEF SendInv, TypeOK
<1>8. CASE b.lane # "sync"
  <2>1. JobInv' /\ WireInv'
    BY <1>1, <1>3, <1>8 DEF SendInv, JobInv, WireInv
  <2> QED
    BY <1>1, <1>3, <1>5, <1>6, <1>8, <2>1 DEF SendInv, TypeOK
<1> QED
  BY <1>7, <1>8

LEMMA GiveUpSend ==
    ASSUME SendInv, NEW r \in Requests, GiveUp(r), UNCHANGED <<bodyOf, queueMailed>>
    PROVE  SendInv'
<1> DEFINE m == job[r].message
<1>1. /\ job[r].pc = "giveUp" /\ UNCHANGED <<aged, lock, wire, known, mailed>>
      /\ state' = [state EXCEPT ![m] = IF @ = "PENDING" THEN "INDETERMINATE" ELSE @]
      /\ End(r)
  BY DEF GiveUp, providerVars
<1>2. /\ job' \in [Requests -> Jobs] /\ job'[r] = Idle
      /\ \A q \in Requests : q # r => job'[q] = job[q]
  BY <1>1, EndedJob DEF SendInv
<1>3. /\ state' \in [Msgs -> States]
      /\ \A n \in Msgs : \/ state'[n] = state[n]
                         \/ state[n] = "PENDING" /\ state'[n] = "INDETERMINATE"
  BY <1>1 DEF SendInv, TypeOK, States
<1>4. TypeOK'
  BY <1>1, <1>2, <1>3, IdleJob DEF SendInv, TypeOK
<1>5. JobInv'
  BY <1>1, <1>2, <1>3, IdleJob DEF SendInv, JobInv
<1>6. WireInv' /\ MailInv' /\ MailedAsRecorded'
  BY <1>1, <1>3 DEF SendInv, WireInv, MailInv, MailedAsRecorded
<1> QED
  BY <1>4, <1>5, <1>6 DEF SendInv

LEMMA SendSend ==
    ASSUME SendInv, NEW r \in Requests, Send(r), UNCHANGED <<bodyOf, queueMailed>>
    PROVE  SendInv'
<1> DEFINE m == job[r].message
<1>1. /\ job[r].pc = "deliver" /\ lock[m] = {} /\ state[m] = "PENDING"
      /\ lock' = [lock EXCEPT ![m] = {r}] /\ wire' = wire \union {<<r, m>>}
      /\ job' = [job EXCEPT ![r].pc = "sending"]
      /\ UNCHANGED <<state, aged, known, mailed>>
  BY DEF Send, providerVars
<1>2. GoesOn(r, "sending", job[r].answer)
  BY <1>1, Sending DEF SendInv
<1>3. m \in Msgs /\ bodyOf[m].lane = "sync" /\ (mailed[m] = 1 => m \in known)
  BY <1>1 DEF SendInv, JobInv
<1>4. TypeOK'
  BY <1>1, <1>2, <1>3 DEF SendInv, TypeOK, GoesOn
<1>5. JobInv'
  BY <1>1, <1>2, <1>3 DEF SendInv, TypeOK, JobInv, GoesOn
<1>6. WireInv' /\ MailInv' /\ MailedAsRecorded'
  BY <1>1, <1>3 DEF SendInv, WireInv, MailInv, MailedAsRecorded
<1> QED
  BY <1>4, <1>5, <1>6 DEF SendInv

LEMMA SendNothingSend ==
    ASSUME SendInv, NEW r \in Requests, SendNothing(r), UNCHANGED <<bodyOf, queueMailed>>
    PROVE  SendInv'
<1>1. /\ job[r].pc = "deliver" /\ End(r)
      /\ UNCHANGED <<state, aged, lock, wire, known, mailed>>
  BY DEF SendNothing, providerVars
<1>2. /\ job' \in [Requests -> Jobs] /\ job'[r] = Idle
      /\ \A q \in Requests : q # r => job'[q] = job[q]
  BY <1>1, EndedJob DEF SendInv
<1>3. TypeOK' /\ JobInv'
  BY <1>1, <1>2, IdleJob DEF SendInv, TypeOK, JobInv
<1>4. WireInv' /\ MailInv' /\ MailedAsRecorded'
  BY <1>1 DEF SendInv, WireInv, MailInv, MailedAsRecorded
<1> QED
  BY <1>3, <1>4 DEF SendInv

\* A delivery in its transaction gets an answer, an acceptance only of a mail.
LEMMA AnswerSend ==
    ASSUME SendInv, NEW r \in Requests, NEW answer \in Answers,
           job[r].pc \in {"sending", "answered"}, GoesOn(r, "answered", answer),
           answer = "accepted" => mailed[job[r].message] = 1,
           UNCHANGED <<state, aged, lock, wire, known, mailed, bodyOf, queueMailed>>
    PROVE  SendInv'
<1>1. TypeOK' /\ JobInv'
  BY DEF SendInv, TypeOK, JobInv, GoesOn
<1>2. WireInv' /\ MailInv' /\ MailedAsRecorded'
  BY DEF SendInv, WireInv, MailInv, MailedAsRecorded
<1> QED
  BY <1>1, <1>2 DEF SendInv

LEMMA StopWaitingSend ==
    ASSUME SendInv, NEW r \in Requests, StopWaiting(r) \/ ReconcileFails(r),
           UNCHANGED <<bodyOf, queueMailed>>
    PROVE  SendInv'
<1>1. /\ job[r].pc \in {"sending", "answered"} /\ "ambiguous" \in Answers
      /\ UNCHANGED <<state, aged, lock, wire, known, mailed>>
  BY DEF StopWaiting, ReconcileFails, providerVars, Answers
<1>2. GoesOn(r, "answered", "ambiguous")
  BY <1>1, Answering DEF StopWaiting, ReconcileFails, SendInv
<1> QED
  BY <1>1, <1>2, AnswerSend

\* A transaction ends: its lock is free, and nobody has it.
LEMMA LockFreed ==
    ASSUME SendInv, NEW r \in Requests, job[r].pc \in {"sending", "answered"}, End(r),
           lock' = [lock EXCEPT ![job[r].message] = @ \ {r}]
    PROVE  LET m == job[r].message
           IN  /\ m \in Msgs /\ job' \in [Requests -> Jobs] /\ job'[r] = Idle
               /\ \A q \in Requests : q # r => job'[q] = job[q]
               /\ \A q \in Requests : q # r /\ job[q].pc \in {"sending", "answered"} =>
                                         job[q].message # m
               /\ lock' \in [Msgs -> SUBSET Requests] /\ lock'[m] = {}
               /\ \A n \in Msgs : n # m => lock'[n] = lock[n]
<1> DEFINE m == job[r].message
<1>1. m \in Msgs /\ lock[m] = {r}
  BY DEF SendInv, JobInv
<1>2. /\ job' \in [Requests -> Jobs] /\ job'[r] = Idle
      /\ \A q \in Requests : q # r => job'[q] = job[q]
  BY EndedJob DEF SendInv
<1>3. \A q \in Requests : q # r /\ job[q].pc \in {"sending", "answered"} =>
                               job[q].message # m
  BY <1>1 DEF SendInv, JobInv
<1> QED
  BY <1>1, <1>2, <1>3 DEF SendInv, TypeOK

LEMMA CommitSend ==
    ASSUME SendInv, NEW r \in Requests, Commit(r), UNCHANGED <<bodyOf, queueMailed>>
    PROVE  SendInv'
<1> DEFINE m == job[r].message
<1>1. /\ job[r].pc = "answered" /\ state[m] # "DELETED" /\ End(r)
      /\ state' = [state EXCEPT ![m] = Outcome(r)]
      /\ lock' = [lock EXCEPT ![m] = @ \ {r}]
      /\ UNCHANGED <<aged, wire, known, mailed>>
  BY DEF Commit, providerVars
<1>2. /\ m \in Msgs /\ job' \in [Requests -> Jobs] /\ job'[r] = Idle
      /\ \A q \in Requests : q # r => job'[q] = job[q]
      /\ \A q \in Requests : q # r /\ job[q].pc \in {"sending", "answered"} =>
                                job[q].message # m
      /\ lock' \in [Msgs -> SUBSET Requests] /\ lock'[m] = {}
      /\ \A n \in Msgs : n # m => lock'[n] = lock[n]
  BY <1>1, LockFreed
<1>3. /\ Outcome(r) \in {"ACCEPTED", "FAILED", "INDETERMINATE"}
      /\ Outcome(r) = "ACCEPTED" => mailed[m] = 1
  BY <1>1 DEF Outcome, SendInv, JobInv
<1>4. /\ state' \in [Msgs -> States] /\ state'[m] = Outcome(r) /\ state[m] # "ABSENT"
      /\ \A n \in Msgs : n # m => state'[n] = state[n]
  BY <1>1, <1>2, <1>3 DEF SendInv, TypeOK, States, JobInv
<1>5. TypeOK'
  BY <1>1, <1>2, <1>4 DEF SendInv, TypeOK
<1>6. JobInv'
  BY <1>1, <1>2, <1>3, <1>4, IdleJob DEF SendInv, JobInv
<1>7. WireInv' /\ MailInv' /\ MailedAsRecorded'
  BY <1>1, <1>3, <1>4 DEF SendInv, WireInv, MailInv, MailedAsRecorded
<1> QED
  BY <1>5, <1>6, <1>7 DEF SendInv

LEMMA RollbackSend ==
    ASSUME SendInv, NEW r \in Requests, Rollback(r), UNCHANGED <<bodyOf, queueMailed>>
    PROVE  SendInv'
<1> DEFINE m == job[r].message
<1>1. /\ job[r].pc \in {"sending", "answered"} /\ End(r)
      /\ lock' = [lock EXCEPT ![m] = @ \ {r}]
      /\ UNCHANGED <<state, aged, wire, known, mailed>>
  BY DEF Rollback, providerVars
<1>2. /\ m \in Msgs /\ job' \in [Requests -> Jobs] /\ job'[r] = Idle
      /\ \A q \in Requests : q # r => job'[q] = job[q]
      /\ \A q \in Requests : q # r /\ job[q].pc \in {"sending", "answered"} =>
                                job[q].message # m
      /\ lock' \in [Msgs -> SUBSET Requests] /\ lock'[m] = {}
      /\ \A n \in Msgs : n # m => lock'[n] = lock[n]
  BY <1>1, LockFreed
<1>3. TypeOK'
  BY <1>1, <1>2 DEF SendInv, TypeOK
<1>4. JobInv'
  BY <1>1, <1>2, IdleJob DEF SendInv, JobInv
<1>5. WireInv' /\ MailInv' /\ MailedAsRecorded'
  BY <1>1 DEF SendInv, WireInv, MailInv, MailedAsRecorded
<1> QED
  BY <1>3, <1>4, <1>5 DEF SendInv

LEMMA AgesSend ==
    ASSUME SendInv, NEW m \in Msgs, Ages(m), UNCHANGED <<bodyOf, queueMailed>>
    PROVE  SendInv'
<1>1. /\ state[m] # "ABSENT" /\ aged' = aged \union {m}
      /\ UNCHANGED <<state, job, lock, wire, known, mailed>>
  BY DEF Ages, providerVars
<1>2. TypeOK' /\ JobInv' /\ WireInv' /\ MailedAsRecorded'
  BY <1>1 DEF SendInv, TypeOK, JobInv, WireInv, MailedAsRecorded
<1>3. MailInv'
  BY <1>1 DEF SendInv, MailInv
<1> QED
  BY <1>2, <1>3 DEF SendInv

\* What a reply to the call of request r for message m does to the requests.
LEMMA Replied ==
    ASSUME SendInv, NEW r \in Requests, NEW m \in Msgs, NEW answer \in Answers,
           Reply(r, m, answer)
    PROVE  /\ wire' \subseteq wire
           /\ \/ UNCHANGED job
              \/ /\ job[r].pc = "sending" /\ job[r].message = m
                 /\ GoesOn(r, "answered", answer)
<1>1. \/ UNCHANGED job
      \/ /\ job[r].pc = "sending" /\ job[r].message = m
         /\ job' = [job EXCEPT ![r].pc = "answered", ![r].answer = answer]
  BY DEF Reply
<1> QED
  BY <1>1, Answering DEF Reply, SendInv

LEMMA ProviderMailsSend ==
    ASSUME SendInv, NEW r \in Requests, NEW m \in Msgs, <<r, m>> \in wire,
           ProviderMails(r, m), UNCHANGED <<bodyOf, queueMailed>>
    PROVE  SendInv'
<1>1. /\ m \notin known /\ known' = known \union {m}
      /\ mailed' = [mailed EXCEPT ![m] = @ + 1] /\ UNCHANGED <<state, aged, lock>>
      /\ Reply(r, m, "accepted") \/ Reply(r, m, "ambiguous")
  BY DEF ProviderMails
<1>2. state[m] # "ABSENT" /\ bodyOf[m].lane = "sync" /\ mailed[m] # 1
  BY <1>1 DEF SendInv, WireInv
<1>3. mailed[m] = 0
  BY <1>2 DEF SendInv, MailedAsRecorded, TypeOK
<1>4. /\ mailed' \in [Msgs -> Nat] /\ mailed'[m] = 1
      /\ \A n \in Msgs : n # m => mailed'[n] = mailed[n]
  BY <1>1, <1>3 DEF SendInv, TypeOK
<1>5. PICK answer \in Answers :
          /\ wire' \subseteq wire
          /\ \/ UNCHANGED job
             \/ /\ job[r].pc = "sending" /\ job[r].message = m
                /\ GoesOn(r, "answered", answer)
  <2>1. {"accepted", "ambiguous"} \subseteq Answers
    BY DEF Answers
  <2> QED
    BY <1>1, <2>1, Replied
<1>6. TypeOK'
  BY <1>1, <1>4, <1>5 DEF SendInv, TypeOK, GoesOn
<1>7. JobInv'
  BY <1>1, <1>4, <1>5 DEF SendInv, JobInv, GoesOn
<1>8. WireInv'
  BY <1>1, <1>4, <1>5 DEF SendInv, WireInv
<1>9. MailInv' /\ MailedAsRecorded'
  BY <1>1, <1>2, <1>4 DEF SendInv, MailInv, MailedAsRecorded
<1> QED
  BY <1>6, <1>7, <1>8, <1>9 DEF SendInv

LEMMA ProviderRepliesSend ==
    ASSUME SendInv, NEW r \in Requests, NEW m \in Msgs, <<r, m>> \in wire,
           ProviderReplays(r, m) \/ ProviderRefuses(r, m),
           UNCHANGED <<bodyOf, queueMailed>>
    PROVE  SendInv'
<1>1. UNCHANGED <<state, aged, lock, known, mailed>>
  BY DEF ProviderReplays, ProviderRefuses, providerVars
<1>2. \E answer \in Answers :
          /\ wire' \subseteq wire
          /\ answer = "accepted" => mailed[m] = 1
          /\ \/ UNCHANGED job
             \/ /\ job[r].pc = "sending" /\ job[r].message = m
                /\ GoesOn(r, "answered", answer)
  <2>1. {"accepted", "knownFailure"} \subseteq Answers
    BY DEF Answers
  <2>2. CASE ProviderReplays(r, m)
    <3>1. Reply(r, m, "accepted") /\ mailed[m] = 1
      BY <2>2 DEF ProviderReplays, SendInv, WireInv, MailInv
    <3> QED
      BY <2>1, <3>1, Replied
  <2>3. CASE Reply(r, m, "knownFailure")
    BY <2>1, <2>3, Replied
  <2>4. CASE wire' = wire \ {<<r, m>>} /\ UNCHANGED job
    BY <2>1, <2>4
  <2> QED
    BY <2>2, <2>3, <2>4 DEF ProviderRefuses
<1>3. CASE UNCHANGED job
  <2>1. TypeOK' /\ JobInv'
    BY <1>1, <1>2, <1>3 DEF SendInv, TypeOK, JobInv
  <2>2. WireInv' /\ MailInv' /\ MailedAsRecorded'
    BY <1>1, <1>2 DEF SendInv, WireInv, MailInv, MailedAsRecorded
  <2> QED
    BY <2>1, <2>2 DEF SendInv
<1>4. CASE ~ UNCHANGED job
  <2>1. PICK answer \in Answers :
            /\ wire' \subseteq wire /\ (answer = "accepted" => mailed[m] = 1)
            /\ job[r].pc = "sending" /\ job[r].message = m
            /\ GoesOn(r, "answered", answer)
    BY <1>2, <1>4
  <2>2. TypeOK' /\ JobInv'
    BY <1>1, <2>1 DEF SendInv, TypeOK, JobInv, GoesOn
  <2>3. WireInv' /\ MailInv' /\ MailedAsRecorded'
    BY <1>1, <2>1 DEF SendInv, WireInv, MailInv, MailedAsRecorded
  <2> QED
    BY <2>2, <2>3 DEF SendInv
<1> QED
  BY <1>3, <1>4

LEMMA ProviderForgetsSend ==
    ASSUME SendInv, NEW m \in Msgs, ProviderForgets(m), UNCHANGED <<bodyOf, queueMailed>>
    PROVE  SendInv'
<1>1. /\ m \in known /\ m \in aged /\ known' = known \ {m}
      /\ \A r \in Requests : <<r, m>> \notin wire
      /\ \A r \in Requests : job[r].message = m => job[r].pc # "deliver"
      /\ UNCHANGED <<state, aged, job, lock, wire, mailed>>
  BY DEF ProviderForgets
<1>2. TypeOK' /\ JobInv'
  BY <1>1 DEF SendInv, TypeOK, JobInv
<1>3. WireInv' /\ MailInv' /\ MailedAsRecorded'
  BY <1>1 DEF SendInv, WireInv, MailInv, MailedAsRecorded
<1> QED
  BY <1>2, <1>3 DEF SendInv

LEMMA QueueMailsSend ==
    ASSUME AdmissionTypeOK, SendInv, NEW m \in Msgs, QueueMails(m)
    PROVE  SendInv'
<1>1. /\ state[m] # "ABSENT" /\ bodyOf[m].lane = "outbox" /\ m \notin queueMailed
      /\ queueMailed' = queueMailed \union {m} /\ mailed' = [mailed EXCEPT ![m] = @ + 1]
      /\ UNCHANGED <<state, aged, job, lock, wire, known, bodyOf>>
  BY DEF QueueMails, rowVars
<1>2. mailed[m] = 0 /\ m \notin known
  BY <1>1 DEF SendInv, MailInv
<1>3. /\ mailed' \in [Msgs -> Nat] /\ mailed'[m] = 1
      /\ \A n \in Msgs : n # m => mailed'[n] = mailed[n]
  BY <1>1, <1>2 DEF SendInv, TypeOK
<1>4. TypeOK' /\ JobInv'
  BY <1>1, <1>3 DEF SendInv, TypeOK, JobInv
<1>5. WireInv'
  BY <1>1, <1>3 DEF SendInv, WireInv
<1>6. MailInv' /\ MailedAsRecorded'
  BY <1>1, <1>2, <1>3 DEF SendInv, MailInv, MailedAsRecorded
<1> QED
  BY <1>4, <1>5, <1>6 DEF SendInv

LEMMA QueueSettlesSend ==
    ASSUME AdmissionTypeOK, SendInv, NEW m \in Msgs,
           NEW o \in {"ACCEPTED", "FAILED", "INDETERMINATE"}, QueueSettles(m, o)
    PROVE  SendInv'
<1>1. /\ state[m] = "PENDING" /\ bodyOf[m].lane = "outbox"
      /\ o = "ACCEPTED" => m \in queueMailed
      /\ state' = [state EXCEPT ![m] = o]
      /\ UNCHANGED <<aged, job, lock, wire, known, mailed, bodyOf, queueMailed>>
  BY DEF QueueSettles, providerVars, admissionVars, rowVars
<1>2. /\ state' \in [Msgs -> States] /\ state'[m] = o
      /\ \A n \in Msgs : n # m => state'[n] = state[n]
  BY <1>1 DEF SendInv, TypeOK, States
<1>3. o = "ACCEPTED" => mailed[m] = 1
  BY <1>1 DEF SendInv, MailInv
<1>4. TypeOK' /\ JobInv'
  BY <1>1, <1>2 DEF SendInv, TypeOK, JobInv
<1>5. WireInv' /\ MailInv' /\ MailedAsRecorded'
  BY <1>1, <1>2, <1>3 DEF SendInv, WireInv, MailInv, MailedAsRecorded
<1> QED
  BY <1>4, <1>5 DEF SendInv

LEMMA DeleteSend ==
    ASSUME AdmissionTypeOK, SendInv, NEW c \in Msgs, DeleteConversation(c)
    PROVE  SendInv'
<1>1. /\ state' = [m \in Msgs |-> IF m \in Of(c) THEN "DELETED" ELSE state[m]]
      /\ UNCHANGED <<aged, job, lock, wire, known, mailed, bodyOf, queueMailed>>
  BY DEF DeleteConversation, providerVars
<1>2. /\ state' \in [Msgs -> States]
      /\ \A m \in Msgs : \/ state'[m] = state[m]
                         \/ state'[m] = "DELETED" /\ state[m] # "ABSENT"
  BY <1>1 DEF SendInv, TypeOK, States, Of, Exists
<1>3. TypeOK' /\ JobInv'
  BY <1>1, <1>2 DEF SendInv, TypeOK, JobInv
<1>4. WireInv' /\ MailInv' /\ MailedAsRecorded'
  BY <1>1, <1>2 DEF SendInv, WireInv, MailInv, MailedAsRecorded
<1> QED
  BY <1>3, <1>4 DEF SendInv

-----------------------------------------------------------------------------
(* Requests and rows.                                                      *)

Places == {"idle", "insert", "raced", "seek", "reopen", "racedAgain"}

Asked == [pc : Places, key : Keys \union {NoKey}, body : Bodies \union {NoBody},
          conv : Msgs \union {NoMessage}]

RowTypes ==
    /\ request \in [Requests -> Asked]
    /\ keyOf \in [Msgs -> Keys \union {NoKey}]
    /\ bodyOf \in [Msgs -> Bodies \union {NoBody}]
    /\ home \in [Msgs -> Msgs \union {NoMessage}]
    /\ opened \in [Topics -> Msgs \union {NoMessage}]
    /\ queueMailed \subseteq Msgs
    /\ \A t \in Topics : opened[t] # NoMessage => Of(opened[t]) # {}
    /\ \A m \in Msgs : Exists(m) /\ home[m] # NoMessage =>
                           \E t \in Topics : opened[t] = home[m]

LEMMA TypesSplit == AdmissionTypeOK <=> TypeOK /\ RowTypes
BY DEF AdmissionTypeOK, RowTypes, Asked, Places

RowInv == RowTypes /\ OpeningInv /\ SeekInv

\* The requests after a step, seen from before it.
RequestsGo ==
    /\ request' \in [Requests -> Asked]
    /\ \A r \in Requests : SeeksWell(request'[r])

LEMMA LeaveGoes ==
    ASSUME RowInv, NEW r \in Requests, Leave(r)
    PROVE  RequestsGo /\ request'[r].pc = "idle"
<1>1. NoRequest \in Asked /\ NoRequest.pc = "idle"
  BY DEF NoRequest, Asked, Places
<1>2. request' = [request EXCEPT ![r] = NoRequest] /\ request \in [Requests -> Asked]
  BY DEF Leave, RowInv, RowTypes
<1>3. \A p \in Requests : request'[p] = IF p = r THEN NoRequest ELSE request[p]
  BY <1>2
<1>4. SeeksWell(NoRequest)
  BY <1>1 DEF SeeksWell
<1>5. \A p \in Requests : SeeksWell(request[p])
  BY DEF RowInv, SeekInv
<1>6. \A p \in Requests : SeeksWell(request'[p])
  BY <1>3, <1>4, <1>5
<1> QED
  BY <1>1, <1>2, <1>3, <1>6 DEF RequestsGo

LEMMA GotoGoes ==
    ASSUME RowInv, NEW r \in Requests, NEW pc \in Places, Goto(r, pc),
           request[r].pc # "idle", pc = "seek" => request[r].body.kind = "opening",
           pc # "reopen", pc = "racedAgain" => request[r].pc = "reopen"
    PROVE  RequestsGo
<1> DEFINE q == [request[r] EXCEPT !.pc = pc]
<1>1. request \in [Requests -> Asked]
  BY DEF RowInv, RowTypes
<1>2. /\ q \in Asked /\ q.pc = pc /\ q.body = request[r].body
      /\ q.conv = request[r].conv
  BY <1>1 DEF Asked
<1>3. request' = [request EXCEPT ![r] = q]
  BY DEF Goto
<1> HIDE DEF q
<1>4. \A p \in Requests : request'[p] = IF p = r THEN q ELSE request[p]
  BY <1>1, <1>3
<1>5. \A p \in Requests : SeeksWell(request[p])
  BY DEF RowInv, SeekInv
<1>6. SeeksWell(q)
  BY <1>2, <1>5 DEF SeeksWell
<1>7. \A p \in Requests : SeeksWell(request'[p])
  BY <1>4, <1>5, <1>6
<1> QED
  BY <1>1, <1>2, <1>3, <1>7 DEF RequestsGo

\* A step that stores no message: the request replays one, or only goes on.
Quiet(r) ==
    /\ \/ UNCHANGED vars
       \/ \E m \in Msgs : bodyOf[m].lane = "sync" /\ Replay(r, m)
    /\ UNCHANGED <<rowVars, queueMailed>>
    /\ RequestsGo

LEMMA Unasked ==
    ASSUME RowInv, UNCHANGED request
    PROVE  RequestsGo
BY DEF RowInv, RowTypes, SeekInv, RequestsGo

LEMMA Answered ==
    ASSUME NEW r \in Requests, NEW m \in Msgs, NEW body \in Bodies, AnswerWith(r, m, body)
    PROVE  UNCHANGED vars \/ (bodyOf[m].lane = "sync" /\ Replay(r, m))
<1> DEFINE sync == bodyOf[m] = body /\ body.lane = "sync" /\ state[m] = "PENDING"
<1>1. IF sync THEN Replay(r, m) ELSE UNCHANGED vars
  BY DEF AnswerWith, SameRequest
<1>2. CASE sync
  BY <1>1, <1>2
<1>3. CASE ~ sync
  BY <1>1, <1>3
<1> QED
  BY <1>2, <1>3

LEMMA LookQuiet ==
    ASSUME RowInv, NEW r \in Requests, NEW key \in Keys, NEW body \in Bodies,
           Look(r, key, body)
    PROVE  Quiet(r)
<1>1. UNCHANGED <<rowVars, queueMailed>>
  BY DEF Look
<1>2. CASE (\E m \in Found(key) : AnswerWith(r, m, body)) /\ UNCHANGED request
  BY <1>1, <1>2, Unasked, Answered DEF Quiet, Found
<1>3. CASE UNCHANGED vars /\ request' = [request EXCEPT ![r] =
              [pc |-> "insert", key |-> key, body |-> body, conv |-> NoMessage]]
  <2> DEFINE q == [pc |-> "insert", key |-> key, body |-> body, conv |-> NoMessage]
  <2>1. q \in Asked /\ q.pc = "insert" /\ q.body = body
    BY DEF Asked, Places
  <2>2. request' = [request EXCEPT ![r] = q] /\ request \in [Requests -> Asked]
    BY <1>3 DEF RowInv, RowTypes
  <2> HIDE DEF q
  <2>3. \A p \in Requests : request'[p] = IF p = r THEN q ELSE request[p]
    BY <2>2
  <2>4. SeeksWell(q)
    BY <2>1 DEF SeeksWell
  <2>5. \A p \in Requests : SeeksWell(request[p])
    BY DEF RowInv, SeekInv
  <2>6. \A p \in Requests : SeeksWell(request'[p])
    BY <2>3, <2>4, <2>5
  <2> QED
    BY <1>1, <1>3, <2>1, <2>2, <2>6 DEF Quiet, RequestsGo
<1> QED
  BY <1>2, <1>3 DEF Look

LEMMA LoseQuiet ==
    ASSUME RowInv, NEW r \in Requests, NEW pc \in Places, LoseRace(r, pc),
           request[r].pc # "idle", pc = "seek" => request[r].body.kind = "opening",
           pc # "reopen", pc = "racedAgain" => request[r].pc = "reopen"
    PROVE  Quiet(r)
BY GotoGoes DEF LoseRace, Quiet

LEMMA GiveQuiet ==
    ASSUME RowInv, NEW r \in Requests, GiveAnswer(r)
    PROVE  Quiet(r)
BY LeaveGoes DEF GiveAnswer, Quiet

LEMMA AnswerQuiet ==
    ASSUME RowInv, NEW r \in Requests, request[r].pc # "idle",
           \E m \in Found(request[r].key) : AnswerWith(r, m, request[r].body),
           Leave(r), UNCHANGED <<rowVars, queueMailed>>
    PROVE  Quiet(r)
<1>1. request[r].body \in Bodies
  BY DEF RowInv, SeekInv, SeeksWell
<1>2. PICK m \in Msgs : AnswerWith(r, m, request[r].body)
  BY DEF Found
<1>3. UNCHANGED vars \/ (bodyOf[m].lane = "sync" /\ Replay(r, m))
  BY <1>1, <1>2, Answered
<1> QED
  BY <1>3, LeaveGoes DEF Quiet

LEMMA SeekQuiet ==
    ASSUME RowInv, NEW r \in Requests, Seek(r)
    PROVE  Quiet(r)
<1> DEFINE q == request[r]
           c == opened[q.body.on]
<1>1. /\ q.pc = "seek" /\ UNCHANGED <<vars, rowVars, queueMailed>>
      /\ request' = [request EXCEPT ![r] = IF c = NoMessage THEN NoRequest
                                          ELSE [q EXCEPT !.pc = "reopen", !.conv = c]]
  BY DEF Seek
<1>2. CASE c = NoMessage
  BY <1>1, <1>2, LeaveGoes DEF Leave, Quiet
<1>3. CASE c # NoMessage
  <2>1. request \in [Requests -> Asked] /\ SeeksWell(q)
    BY DEF RowInv, RowTypes, SeekInv
  <2>2. q.body.kind = "opening" /\ q.body.on \in Topics
    BY <1>1, <2>1, BodyTypes DEF SeeksWell
  <2>3. c \in Msgs /\ state[c] # "ABSENT"
    BY <1>3, <2>2 DEF RowInv, RowTypes, OpeningInv
  <2> DEFINE p == [q EXCEPT !.pc = "reopen", !.conv = c]
  <2>4. p \in Asked /\ p.pc = "reopen" /\ p.body = q.body /\ p.conv = c
    <3>1. q \in Asked
      BY <2>1
    <3> HIDE DEF q, c
    <3> QED
      BY <2>3, <3>1 DEF Asked, Places
  <2>5. request' = [request EXCEPT ![r] = p]
    BY <1>1, <1>3
  <2>6. SeeksWell(p)
    <3>1. p.body \in Bodies /\ p.body.kind = "opening"
      BY <1>1, <2>1, <2>2, <2>4 DEF SeeksWell
    <3>2. opened[p.body.on] = p.conv
      BY <2>4
    <3> HIDE DEF p
    <3> QED
      BY <2>3, <2>4, <3>1, <3>2 DEF SeeksWell
  <2> HIDE DEF p
  <2>7. \A x \in Requests : request'[x] = IF x = r THEN p ELSE request[x]
    BY <2>1, <2>5
  <2>8. \A x \in Requests : SeeksWell(request[x])
    BY DEF RowInv, SeekInv
  <2>9. \A x \in Requests : SeeksWell(request'[x])
    BY <2>6, <2>7, <2>8
  <2> QED
    BY <1>1, <2>1, <2>4, <2>5, <2>9 DEF Quiet, RequestsGo
<1> QED
  BY <1>2, <1>3

\* Where a request stores its message m.
Opens(r, m) ==
    LET b == request[r].body
    IN  /\ Store(r, m, m) /\ b \in Bodies /\ b.kind = "opening"
        /\ opened[b.on] = NoMessage /\ opened' = [opened EXCEPT ![b.on] = m]

Joins(r, m, c) ==
    LET b == request[r].body
    IN  /\ Store(r, m, c) /\ b \in Bodies /\ UNCHANGED opened
        /\ c = NoMessage \/ Of(c) # {}
        /\ b.kind = "opening" =>
              opened[b.on] = c /\ c # NoMessage /\ \A n \in Of(c) : state[n] = "FAILED"

Stores(r) ==
    \E m \in Msgs : Opens(r, m) \/ \E c \in Msgs \union {NoMessage} : Joins(r, m, c)

LEMMA AdmitSteps ==
    ASSUME RowInv, NEW r \in Requests, Admit(r)
    PROVE  Quiet(r) \/ Stores(r)
<1> DEFINE q == request[r]
<1>1. q.pc # "idle" => q.body \in Bodies
  BY DEF RowInv, SeekInv, SeeksWell
<1>2. {"raced", "seek", "racedAgain"} \subseteq Places
  BY DEF Places
<1>3. ASSUME NEW key \in Keys, NEW body \in Bodies, Look(r, key, body)
      PROVE  Quiet(r)
  BY <1>3, LookQuiet
<1>4. CASE InsertOpening(r)
  <2>1. /\ q.pc = "insert" /\ q.body.kind = "opening"
        /\ \/ /\ opened[q.body.on] = NoMessage
              /\ \E m \in Msgs :
                    Store(r, m, m) /\ opened' = [opened EXCEPT ![q.body.on] = m]
           \/ LoseRace(r, "raced")
    BY <1>4 DEF InsertOpening
  <2>2. CASE LoseRace(r, "raced")
    BY <1>2, <2>1, <2>2, LoseQuiet
  <2>3. CASE ~ LoseRace(r, "raced")
    BY <1>1, <2>1, <2>3 DEF Stores, Opens
  <2> QED
    BY <2>2, <2>3
<1>5. CASE InsertReply(r)
  <2>1. /\ q.pc = "insert" /\ q.body.kind = "reply"
        /\ \/ /\ Of(q.body.on) # {} /\ UNCHANGED opened
              /\ \E m \in Msgs : Store(r, m, q.body.on)
           \/ LoseRace(r, "raced")
           \/ GiveAnswer(r)
    BY <1>5 DEF InsertReply
  <2>2. CASE LoseRace(r, "raced")
    BY <1>2, <2>1, <2>2, LoseQuiet
  <2>3. CASE GiveAnswer(r)
    BY <2>3, GiveQuiet
  <2>4. CASE ~ LoseRace(r, "raced") /\ ~ GiveAnswer(r)
    BY <1>1, <2>1, <2>4, BodyTypes DEF Stores, Joins
  <2> QED
    BY <2>2, <2>3, <2>4
<1>6. CASE InsertDirect(r)
  <2>1. /\ q.pc = "insert" /\ q.body.kind = "direct"
        /\ \/ UNCHANGED opened /\ \E m \in Msgs : Store(r, m, NoMessage)
           \/ LoseRace(r, "raced")
    BY <1>6 DEF InsertDirect
  <2>2. CASE LoseRace(r, "raced")
    BY <1>2, <2>1, <2>2, LoseQuiet
  <2>3. CASE ~ LoseRace(r, "raced")
    BY <1>1, <2>1, <2>3 DEF Stores, Joins
  <2> QED
    BY <2>2, <2>3
<1>7. CASE Raced(r)
  <2>1. /\ q.pc = "raced"
        /\ \/ /\ \E m \in Found(q.key) : AnswerWith(r, m, q.body)
              /\ Leave(r) /\ UNCHANGED <<rowVars, queueMailed>>
           \/ q.body.kind = "opening" /\ LoseRace(r, "seek")
           \/ GiveAnswer(r)
    BY <1>7 DEF Raced
  <2>2. CASE /\ \E m \in Found(q.key) : AnswerWith(r, m, q.body)
             /\ Leave(r) /\ UNCHANGED <<rowVars, queueMailed>>
    BY <2>1, <2>2, AnswerQuiet
  <2>3. CASE q.body.kind = "opening" /\ LoseRace(r, "seek")
    BY <1>2, <2>1, <2>3, LoseQuiet
  <2>4. CASE GiveAnswer(r)
    BY <2>4, GiveQuiet
  <2> QED
    BY <2>1, <2>2, <2>3, <2>4
<1>8. CASE Seek(r)
  BY <1>8, SeekQuiet
<1>9. CASE Reopen(r)
  <2>1. /\ q.pc = "reopen"
        /\ \/ GiveAnswer(r)
           \/ LoseRace(r, "racedAgain")
           \/ /\ Of(q.conv) # {} /\ ~ LiveIn(q.conv) /\ UNCHANGED opened
              /\ \E m \in Msgs : Store(r, m, q.conv)
    BY <1>9 DEF Reopen
  <2>2. CASE LoseRace(r, "racedAgain")
    BY <1>2, <2>1, <2>2, LoseQuiet
  <2>3. CASE GiveAnswer(r)
    BY <2>3, GiveQuiet
  <2>4. CASE ~ LoseRace(r, "racedAgain") /\ ~ GiveAnswer(r)
    <3>1. PICK m \in Msgs : Store(r, m, q.conv)
      BY <2>1, <2>4
    <3>2. /\ Of(q.conv) # {} /\ UNCHANGED opened
          /\ \A n \in Of(q.conv) : state[n] = "FAILED"
      BY <2>1, <2>4 DEF LiveIn
    <3>3. q.conv \in Msgs /\ opened[q.body.on] = q.conv
      BY <2>1, <3>2 DEF RowInv, SeekInv, SeeksWell
    <3>4. Joins(r, m, q.conv)
      BY <1>1, <2>1, <3>1, <3>2, <3>3, Names DEF Joins
    <3> QED
      BY <3>3, <3>4 DEF Stores
  <2> QED
    BY <2>2, <2>3, <2>4
<1>10. CASE RacedAgain(r)
  <2>1. /\ q.pc = "racedAgain"
        /\ \/ /\ \E m \in Found(q.key) : AnswerWith(r, m, q.body)
              /\ Leave(r) /\ UNCHANGED <<rowVars, queueMailed>>
           \/ GiveAnswer(r)
    BY <1>10 DEF RacedAgain
  <2>2. CASE GiveAnswer(r)
    BY <2>2, GiveQuiet
  <2>3. CASE ~ GiveAnswer(r)
    BY <2>1, <2>3, AnswerQuiet
  <2> QED
    BY <2>2, <2>3
<1> QED
  BY <1>3, <1>4, <1>5, <1>6, <1>7, <1>8, <1>9, <1>10 DEF Admit

-----------------------------------------------------------------------------
(* Each step keeps RowInv.                                                 *)

\* No row comes or goes, and no outcome but an open one changes.
Settling ==
    \A m \in Msgs :
        \/ state'[m] = state[m]
        \/ /\ state[m] \in {"PENDING", "INDETERMINATE"}
           /\ state'[m] \in {"ACCEPTED", "FAILED", "INDETERMINATE"}

LEMMA SettlingRows ==
    ASSUME RowInv, Settling, UNCHANGED rowVars, queueMailed' \subseteq Msgs, RequestsGo
    PROVE  RowInv'
<1>1. /\ UNCHANGED <<keyOf, bodyOf, home, opened>>
      /\ \A m \in Msgs : /\ Exists(m)' <=> Exists(m)
                         /\ state[m] = "FAILED" => state'[m] = "FAILED"
                         /\ state[m] # "ABSENT" => state'[m] # "ABSENT"
  BY DEF Settling, rowVars, Exists
<1>2. \A c : Of(c)' = Of(c)
  BY <1>1 DEF Of
<1>3. \A t : Openings(t)' = Openings(t)
  BY <1>1 DEF Openings
<1>4. RowTypes'
  BY <1>1, <1>2 DEF RowInv, RowTypes, RequestsGo
<1>5. OpeningInv'
  <2>1. Openings(NoMessage) \subseteq Msgs /\ \A t : Openings(t) \subseteq Msgs
    BY DEF Openings
  <2>2. \A t \in Topics : opened[t] \in Msgs \union {NoMessage}
    BY DEF RowInv, RowTypes
  <2> QED
    BY <1>1, <1>3, <2>1, <2>2 DEF RowInv, OpeningInv
<1>6. SeekInv'
  BY <1>1, <1>2 DEF RequestsGo, SeekInv, SeeksWell
<1> QED
  BY <1>4, <1>5, <1>6 DEF RowInv

LEMMA Stored ==
    ASSUME RowInv, NEW r \in Requests, NEW m \in Msgs, NEW c \in Msgs \union {NoMessage},
           state \in [Msgs -> States], Store(r, m, c)
    PROVE  LET b == request[r].body
           IN  /\ state[m] = "ABSENT" /\ state'[m] = "PENDING"
               /\ bodyOf'[m] = b /\ home'[m] = c
               /\ keyOf' \in [Msgs -> Keys \union {NoKey}]
               /\ bodyOf' \in [Msgs -> Bodies \union {NoBody}]
               /\ home' \in [Msgs -> Msgs \union {NoMessage}]
               /\ queueMailed' = queueMailed
               /\ \A n \in Msgs : n # m => /\ state'[n] = state[n]
                                          /\ bodyOf'[n] = bodyOf[n] /\ home'[n] = home[n]
               /\ \A x : Of(x)' = Of(x) \union (IF x = c THEN {m} ELSE {})
               /\ \A t : Openings(t)' = Openings(t) \union
                       (IF b.kind = "opening" /\ b.on = t THEN {m} ELSE {})
               /\ m \notin Of(m) /\ RequestsGo
<1> DEFINE b == request[r].body
<1>1. request[r] \in Asked
  BY DEF RowInv, RowTypes
<1>2. b \in Bodies \union {NoBody} /\ request[r].key \in Keys \union {NoKey}
  BY <1>1 DEF Asked
<1>3. /\ state[m] = "ABSENT" /\ state' = [state EXCEPT ![m] = "PENDING"]
      /\ keyOf' = [keyOf EXCEPT ![m] = request[r].key]
      /\ bodyOf' = [bodyOf EXCEPT ![m] = b] /\ home' = [home EXCEPT ![m] = c]
      /\ Leave(r) /\ queueMailed' = queueMailed
  BY DEF Store
<1> HIDE DEF b
<1>4. /\ state'[m] = "PENDING" /\ bodyOf'[m] = b /\ home'[m] = c
      /\ keyOf' \in [Msgs -> Keys \union {NoKey}]
      /\ bodyOf' \in [Msgs -> Bodies \union {NoBody}]
      /\ home' \in [Msgs -> Msgs \union {NoMessage}]
      /\ \A n \in Msgs : n # m => /\ state'[n] = state[n]
                                 /\ bodyOf'[n] = bodyOf[n] /\ home'[n] = home[n]
  BY <1>2, <1>3 DEF RowInv, RowTypes
<1>5. \A x : Of(x)' = Of(x) \union (IF x = c THEN {m} ELSE {})
  BY <1>3, <1>4 DEF Of, Exists
<1>6. \A t : Openings(t)' = Openings(t) \union
                (IF b.kind = "opening" /\ b.on = t THEN {m} ELSE {})
  BY <1>3, <1>4 DEF Openings, Exists
<1>7. m \notin Of(m)
  BY <1>3 DEF Of, Exists
<1> QED
  BY <1>3, <1>4, <1>5, <1>6, <1>7, LeaveGoes DEF b

LEMMA OpensRows ==
    ASSUME RowInv, state \in [Msgs -> States], NEW r \in Requests, NEW m \in Msgs,
           Opens(r, m)
    PROVE  RowInv'
<1> DEFINE b == request[r].body
           t == b.on
<1>1. /\ Store(r, m, m) /\ b \in Bodies /\ b.kind = "opening" /\ t \in Topics
      /\ opened[t] = NoMessage /\ opened' = [opened EXCEPT ![t] = m]
  BY BodyTypes DEF Opens
<1>2. /\ state[m] = "ABSENT" /\ state'[m] = "PENDING" /\ home'[m] = m
      /\ \A n \in Msgs : n # m => state'[n] = state[n] /\ home'[n] = home[n]
      /\ \A x : Of(x)' = Of(x) \union (IF x = m THEN {m} ELSE {})
      /\ \A u : Openings(u)' = Openings(u) \union (IF t = u THEN {m} ELSE {})
      /\ m \notin Of(m) /\ RequestsGo
  BY <1>1, Stored
<1>3. /\ keyOf' \in [Msgs -> Keys \union {NoKey}]
      /\ bodyOf' \in [Msgs -> Bodies \union {NoBody}]
      /\ home' \in [Msgs -> Msgs \union {NoMessage}]
      /\ queueMailed' = queueMailed
  BY <1>1, Stored
<1> HIDE DEF t
<1>4. /\ opened' \in [Topics -> Msgs \union {NoMessage}] /\ opened'[t] = m
      /\ \A u \in Topics : u # t => opened'[u] = opened[u]
      /\ \A u \in Topics : opened[u] # NoMessage => opened'[u] = opened[u]
  BY <1>1 DEF RowInv, RowTypes
<1>5. RowTypes'
  <2>1. \A u \in Topics, x \in Msgs : opened'[u] = x => Of(x)' # {}
    <3>1. \A u \in Topics : opened[u] # NoMessage => Of(opened[u]) # {}
      BY DEF RowInv, RowTypes
    <3>2. \A u \in Topics : opened'[u] = opened[u] \/ opened'[u] = m
      BY <1>4
    <3> QED
      BY <1>2, <3>1, <3>2, Names
  <2>2. \A n \in Msgs : Exists(n)' /\ home'[n] # NoMessage =>
            \E u \in Topics : opened'[u] = home'[n]
    BY <1>1, <1>2, <1>4 DEF RowInv, RowTypes, Exists
  <2>3. \A u \in Topics : opened'[u] # NoMessage => (Of(opened[u]) # {})'
    BY <1>4, <2>1 DEF Of
  <2> QED
    BY <1>2, <1>3, <1>4, <2>2, <2>3 DEF RowInv, RowTypes, RequestsGo
<1>6. OpeningInv'
  <2>1. Openings(t) = {}
    <3>1. \A n \in Openings(t) : home[n] \in Msgs /\ opened[t] = home[n]
      BY <1>1 DEF RowInv, OpeningInv
    <3> QED
      BY <1>1, <3>1, Names
  <2>2. m # NoMessage
    BY Names
  <2> SUFFICES ASSUME NEW u \in Topics
               PROVE  /\ \A n \in Openings(u)' : home'[n] \in Msgs /\ opened'[u] = home'[n]
                      /\ \A n, o \in Openings(u)' : n # o =>
                            state'[n] = "FAILED" \/ state'[o] = "FAILED"
                      /\ opened'[u] # NoMessage => state'[opened'[u]] # "ABSENT"
    BY DEF OpeningInv
  <2>3. CASE u = t
    BY <1>2, <1>4, <2>1, <2>3
  <2>4. CASE u # t
    <3>1. /\ Openings(u)' = Openings(u) /\ opened'[u] = opened[u]
          /\ \A n \in Openings(u) : n \in Msgs /\ n # m
          /\ opened[u] \in Msgs \union {NoMessage}
      <4>1. \A n \in Openings(u) : n \in Msgs /\ n # m
        BY <1>2 DEF Openings, Exists
      <4> QED
        BY <1>2, <1>4, <2>4, <4>1 DEF RowInv, RowTypes
    <3>2. /\ \A n \in Openings(u) : home[n] \in Msgs /\ opened[u] = home[n]
          /\ \A n, o \in Openings(u) : n # o =>
                state[n] = "FAILED" \/ state[o] = "FAILED"
          /\ opened[u] # NoMessage => state[opened[u]] # "ABSENT"
      BY DEF RowInv, OpeningInv
    <3> QED
      BY <1>2, <3>1, <3>2
  <2> QED
    BY <2>3, <2>4
<1>7. SeekInv'
  <2> SUFFICES ASSUME NEW p \in Requests
               PROVE  SeeksWell(request[p])'
    BY DEF SeekInv
  <2>1. SeeksWell(request'[p])
    BY <1>2 DEF RequestsGo
  <2>2. PICK q : q = request'[p]
    OBVIOUS
  <2>3. ASSUME q.pc \in {"reopen", "racedAgain"}
        PROVE  /\ state'[q.conv] # "ABSENT"
               /\ Of(q.conv)' # {} => opened'[q.body.on] = q.conv
    <3>1. /\ q.conv \in Msgs /\ state[q.conv] # "ABSENT" /\ q.body \in Bodies
          /\ q.body.kind = "opening"
          /\ Of(q.conv) # {} => opened[q.body.on] = q.conv
      BY <2>1, <2>2, <2>3 DEF SeeksWell
    <3>2. q.conv # m /\ q.body.on \in Topics /\ q.conv # NoMessage
      BY <1>2, <3>1, BodyTypes, Names
    <3> QED
      BY <1>2, <1>4, <3>1, <3>2
  <2> QED
    BY <2>1, <2>2, <2>3 DEF SeeksWell
<1> QED
  BY <1>5, <1>6, <1>7 DEF RowInv

LEMMA JoinsRows ==
    ASSUME RowInv, state \in [Msgs -> States], NEW r \in Requests, NEW m \in Msgs,
           NEW c \in Msgs \union {NoMessage}, Joins(r, m, c)
    PROVE  RowInv'
<1> DEFINE b == request[r].body
           t == b.on
<1>1. /\ Store(r, m, c) /\ b \in Bodies /\ opened' = opened
      /\ c = NoMessage \/ Of(c) # {}
      /\ b.kind = "opening" =>
            opened[t] = c /\ c # NoMessage /\ t \in Topics
               /\ \A n \in Of(c) : state[n] = "FAILED"
  BY BodyTypes DEF Joins
<1>2. /\ state[m] = "ABSENT" /\ state'[m] = "PENDING" /\ home'[m] = c
      /\ \A n \in Msgs : n # m => state'[n] = state[n] /\ home'[n] = home[n]
      /\ \A x : Of(x)' = Of(x) \union (IF x = c THEN {m} ELSE {})
      /\ \A u : Openings(u)' = Openings(u) \union
                   (IF b.kind = "opening" /\ t = u THEN {m} ELSE {})
      /\ RequestsGo
  BY <1>1, Stored
<1>3. /\ keyOf' \in [Msgs -> Keys \union {NoKey}]
      /\ bodyOf' \in [Msgs -> Bodies \union {NoBody}]
      /\ home' \in [Msgs -> Msgs \union {NoMessage}]
      /\ queueMailed' = queueMailed
  BY <1>1, Stored
<1> HIDE DEF t
<1>4. \A n \in Msgs : Exists(n)' => Exists(n) \/ n = m
  BY <1>2 DEF Exists
<1>5. c # NoMessage => \E u \in Topics : opened[u] = c
  <2> SUFFICES ASSUME c # NoMessage
               PROVE  \E u \in Topics : opened[u] = c
    OBVIOUS
  <2>1. PICK n \in Msgs : Exists(n) /\ home[n] = c
    BY <1>1 DEF Of
  <2> QED
    BY <2>1 DEF RowInv, RowTypes
<1>6. RowTypes'
  <2>1. \A u \in Topics : opened'[u] # NoMessage => (Of(opened[u]) # {})'
    <3>1. \A x \in Msgs : Of(x) \subseteq Of(x)'
      BY <1>2
    <3>2. \A u \in Topics : opened[u] # NoMessage => opened[u] \in Msgs /\ Of(opened[u]) # {}
      BY DEF RowInv, RowTypes
    <3>3. \A u \in Topics, x \in Msgs : opened[u] = x => Of(x)' # {}
      BY <3>1, <3>2, Names
    <3> QED
      BY <1>1, <3>2, <3>3 DEF Of
  <2>2. \A n \in Msgs : Exists(n)' /\ home'[n] # NoMessage =>
            \E u \in Topics : opened[u] = home'[n]
    BY <1>2, <1>4, <1>5 DEF RowInv, RowTypes
  <2> QED
    BY <1>1, <1>2, <1>3, <2>1, <2>2 DEF RowInv, RowTypes, RequestsGo
<1>7. OpeningInv'
  <2> SUFFICES ASSUME NEW u \in Topics
               PROVE  /\ \A n \in Openings(u)' : home'[n] \in Msgs /\ opened'[u] = home'[n]
                      /\ \A n, o \in Openings(u)' : n # o =>
                            state'[n] = "FAILED" \/ state'[o] = "FAILED"
                      /\ opened'[u] # NoMessage => state'[opened'[u]] # "ABSENT"
    BY DEF OpeningInv
  <2>1. /\ \A n \in Openings(u) : n \in Msgs /\ n # m /\ Exists(n)
        /\ opened[u] \in Msgs \union {NoMessage}
    BY <1>2 DEF Openings, Exists, RowInv, RowTypes
  <2>2. /\ \A n \in Openings(u) : home[n] \in Msgs /\ opened[u] = home[n]
        /\ \A n, o \in Openings(u) : n # o =>
              state[n] = "FAILED" \/ state[o] = "FAILED"
        /\ opened[u] # NoMessage => state[opened[u]] # "ABSENT"
    BY DEF RowInv, OpeningInv
  <2>3. CASE ~ (b.kind = "opening" /\ t = u)
    <3>1. Openings(u)' = Openings(u)
      BY <1>2, <2>3
    <3> QED
      BY <1>1, <1>2, <2>1, <2>2, <3>1
  <2>4. CASE b.kind = "opening" /\ t = u
    <3>1. /\ Openings(u)' = Openings(u) \union {m} /\ opened[u] = c /\ c \in Msgs
          /\ \A n \in Of(c) : state[n] = "FAILED"
      BY <1>1, <1>2, <2>4
    <3>2. \A n \in Openings(u) : state[n] = "FAILED"
      BY <2>1, <2>2, <3>1 DEF Of
    <3> QED
      BY <1>1, <1>2, <2>1, <2>2, <3>1, <3>2
  <2> QED
    BY <2>3, <2>4
<1>8. SeekInv'
  <2> SUFFICES ASSUME NEW p \in Requests
               PROVE  SeeksWell(request[p])'
    BY DEF SeekInv
  <2>1. SeeksWell(request'[p])
    BY <1>2 DEF RequestsGo
  <2>2. PICK q : q = request'[p]
    OBVIOUS
  <2>3. ASSUME q.pc \in {"reopen", "racedAgain"}
        PROVE  /\ state'[q.conv] # "ABSENT"
               /\ Of(q.conv)' # {} => opened'[q.body.on] = q.conv
    <3>1. /\ q.conv \in Msgs /\ state[q.conv] # "ABSENT"
          /\ Of(q.conv) # {} => opened[q.body.on] = q.conv
      BY <2>1, <2>2, <2>3 DEF SeeksWell
    <3>2. q.conv # NoMessage
      BY <3>1, Names
    <3> QED
      BY <1>1, <1>2, <3>1, <3>2
  <2> QED
    BY <2>1, <2>2, <2>3 DEF SeeksWell
<1> QED
  BY <1>6, <1>7, <1>8 DEF RowInv

LEMMA DeleteRows ==
    ASSUME RowInv, state \in [Msgs -> States], NEW c \in Msgs, DeleteConversation(c)
    PROVE  RowInv'
<1>1. /\ state' = [m \in Msgs |-> IF m \in Of(c) THEN "DELETED" ELSE state[m]]
      /\ opened' = [t \in Topics |-> IF opened[t] = c THEN NoMessage ELSE opened[t]]
      /\ UNCHANGED <<request, keyOf, bodyOf, home, queueMailed>>
  BY DEF DeleteConversation
<1>2. /\ \A x : Of(x)' = IF x = c THEN {} ELSE Of(x)
      /\ \A m \in Msgs : Exists(m)' <=> Exists(m) /\ home[m] # c
      /\ \A m \in Msgs : state[m] # "ABSENT" => state'[m] # "ABSENT"
      /\ \A m \in Msgs : Exists(m)' => state'[m] = state[m]
  BY <1>1 DEF Of, Exists
<1>3. \A t : Openings(t)' = {m \in Openings(t) : home[m] # c}
  BY <1>1, <1>2 DEF Openings
<1>4. \A t \in Topics : /\ opened'[t] = IF opened[t] = c THEN NoMessage ELSE opened[t]
                       /\ opened[t] \in Msgs \union {NoMessage}
  BY <1>1 DEF RowInv, RowTypes
<1>5. c # NoMessage
  BY Names
<1>6. RowTypes'
  <2>1. \A t \in Topics, x \in Msgs : opened'[t] = x => Of(x)' # {}
    <3>1. \A t \in Topics : opened[t] # NoMessage => Of(opened[t]) # {}
      BY DEF RowInv, RowTypes
    <3> QED
      BY <1>2, <1>4, <3>1, Names
  <2>2. \A t \in Topics : opened'[t] # NoMessage => (Of(opened[t]) # {})'
    BY <1>4, <2>1 DEF Of
  <2>3. \A m \in Msgs : Exists(m)' /\ home[m] # NoMessage =>
            \E t \in Topics : opened'[t] = home[m]
    BY <1>2, <1>4 DEF RowInv, RowTypes
  <2>4. opened' \in [Topics -> Msgs \union {NoMessage}]
    BY <1>1, <1>4
  <2> QED
    BY <1>1, <2>2, <2>3, <2>4 DEF RowInv, RowTypes
<1>7. OpeningInv'
  <2> SUFFICES ASSUME NEW u \in Topics
               PROVE  /\ \A n \in Openings(u)' : home'[n] \in Msgs /\ opened'[u] = home'[n]
                      /\ \A n, o \in Openings(u)' : n # o =>
                            state'[n] = "FAILED" \/ state'[o] = "FAILED"
                      /\ opened'[u] # NoMessage => state'[opened'[u]] # "ABSENT"
    BY DEF OpeningInv
  <2>1. /\ \A n \in Openings(u) : home[n] \in Msgs /\ opened[u] = home[n]
        /\ \A n, o \in Openings(u) : n # o =>
              state[n] = "FAILED" \/ state[o] = "FAILED"
        /\ opened[u] # NoMessage => state[opened[u]] # "ABSENT"
    BY DEF RowInv, OpeningInv
  <2>2. \A n \in Openings(u)' : n \in Openings(u) /\ home[n] # c /\ state'[n] = state[n]
    BY <1>2, <1>3 DEF Openings
  <2> QED
    BY <1>1, <1>2, <1>4, <2>1, <2>2
<1>8. SeekInv'
  <2> SUFFICES ASSUME NEW p \in Requests
               PROVE  SeeksWell(request[p])'
    BY DEF SeekInv
  <2>1. SeeksWell(request[p])
    BY DEF RowInv, SeekInv
  <2>2. PICK q : q = request[p] /\ q = request'[p]
    BY <1>1
  <2>3. ASSUME q.pc \in {"reopen", "racedAgain"}
        PROVE  /\ state'[q.conv] # "ABSENT"
               /\ Of(q.conv)' # {} => opened'[q.body.on] = q.conv
    <3>1. /\ q.conv \in Msgs /\ state[q.conv] # "ABSENT" /\ q.body \in Bodies
          /\ q.body.kind = "opening"
          /\ Of(q.conv) # {} => opened[q.body.on] = q.conv
      BY <2>1, <2>2, <2>3 DEF SeeksWell
    <3>2. q.body.on \in Topics
      BY <3>1, BodyTypes
    <3> QED
      BY <1>2, <1>4, <3>1, <3>2
  <2> QED
    BY <2>1, <2>2, <2>3 DEF SeeksWell
<1> QED
  BY <1>6, <1>7, <1>8 DEF RowInv

-----------------------------------------------------------------------------
(* The inductive invariant is one.                                         *)

LEMMA Parts == IInv <=> SendInv /\ RowInv
BY TypesSplit DEF IInv, RowInv, SendInv

LEMMA StutterSend ==
    ASSUME SendInv, UNCHANGED <<vars, bodyOf, queueMailed>>
    PROVE  SendInv'
<1> USE DEF vars, providerVars
<1>1. TypeOK' /\ JobInv'
  BY DEF SendInv, TypeOK, JobInv
<1>2. WireInv' /\ MailInv' /\ MailedAsRecorded'
  BY DEF SendInv, WireInv, MailInv, MailedAsRecorded
<1> QED
  BY <1>1, <1>2 DEF SendInv

LEMMA DeliverStep ==
    ASSUME SendInv, NEW r \in Requests, Deliver(r), UNCHANGED <<bodyOf, queueMailed>>
    PROVE  SendInv' /\ Settling
<1>1. SendInv'
  BY GiveUpSend, SendSend, SendNothingSend, StopWaitingSend, CommitSend, RollbackSend
     DEF Deliver
<1>2. CASE GiveUp(r)
  BY <1>1, <1>2 DEF GiveUp, Settling, SendInv, TypeOK
<1>3. CASE Commit(r)
  <2>1. /\ state[job[r].message] \in {"PENDING", "INDETERMINATE"}
        /\ Outcome(r) \in {"ACCEPTED", "FAILED", "INDETERMINATE"}
        /\ state' = [state EXCEPT ![job[r].message] = Outcome(r)]
    BY <1>3 DEF Commit, SendInv, JobInv, Outcome
  <2> QED
    BY <1>1, <2>1 DEF Settling, SendInv, TypeOK
<1>4. CASE UNCHANGED state
  BY <1>1, <1>4 DEF Settling
<1> QED
  BY <1>1, <1>2, <1>3, <1>4
     DEF Deliver, Send, SendNothing, StopWaiting, ReconcileFails, Rollback

LEMMA ProviderStep ==
    ASSUME SendInv, Provider, UNCHANGED <<bodyOf, queueMailed>>
    PROVE  SendInv' /\ Settling
<1>1. SendInv'
  BY ProviderMailsSend, ProviderRepliesSend, ProviderForgetsSend DEF Provider
<1>2. UNCHANGED state
  BY DEF Provider, ProviderMails, ProviderReplays, ProviderRefuses, ProviderForgets
<1> QED
  BY <1>1, <1>2 DEF Settling

\* What OutcomeStays says of a step.
OutcomeKept ==
    \A m \in Msgs : state[m] \in {"ACCEPTED", "FAILED"} =>
                       state'[m] \in {state[m], "DELETED"}

LEMMA SettlingStep ==
    ASSUME SendInv', RowInv, Settling, UNCHANGED <<request, rowVars>>,
           queueMailed' \subseteq Msgs
    PROVE  SendInv' /\ RowInv' /\ OutcomeKept
<1>1. RequestsGo
  BY Unasked
<1>2. RowInv'
  BY <1>1, SettlingRows
<1> QED
  BY <1>2 DEF Settling, OutcomeKept

LEMMA AdmitStep ==
    ASSUME SendInv, RowInv, NEW r \in Requests, Admit(r)
    PROVE  SendInv' /\ RowInv' /\ OutcomeKept
<1>1. CASE Quiet(r)
  <2>1. SendInv'
    <3>1. UNCHANGED <<bodyOf, queueMailed>>
      BY <1>1 DEF Quiet, rowVars
    <3>2. CASE UNCHANGED vars
      BY <3>1, <3>2, StutterSend
    <3>3. CASE ~ UNCHANGED vars
      BY <1>1, <3>1, <3>3, ReplaySend DEF Quiet
    <3> QED
      BY <3>2, <3>3
  <2>2. UNCHANGED state
    BY <1>1 DEF Quiet, vars, Replay
  <2>3. UNCHANGED rowVars /\ queueMailed' \subseteq Msgs /\ RequestsGo
    BY <1>1 DEF Quiet, RowInv, RowTypes
  <2>4. Settling
    BY <2>2 DEF Settling
  <2> QED
    BY <2>1, <2>2, <2>3, <2>4, SettlingRows DEF OutcomeKept
<1>2. CASE Stores(r)
  <2>1. state \in [Msgs -> States] /\ AdmissionTypeOK
    BY TypesSplit DEF SendInv, TypeOK, RowInv
  <2>2. PICK m \in Msgs, c \in Msgs \union {NoMessage} :
            /\ (Opens(r, m) /\ c = m) \/ Joins(r, m, c)
            /\ Store(r, m, c) /\ request[r].body \in Bodies
    BY <1>2 DEF Stores, Opens, Joins
  <2>3. SendInv'
    BY <2>1, <2>2, StoreSend
  <2>4. RowInv'
    BY <2>1, <2>2, OpensRows, JoinsRows
  <2>5. state[m] = "ABSENT" /\ \A n \in Msgs : n # m => state'[n] = state[n]
    BY <2>1, <2>2 DEF Store
  <2> QED
    BY <2>3, <2>4, <2>5 DEF OutcomeKept
<1> QED
  BY <1>1, <1>2, AdmitSteps

LEMMA Step ==
    ASSUME SendInv, RowInv, AdmissionNext
    PROVE  SendInv' /\ RowInv' /\ OutcomeKept
<1>1. AdmissionTypeOK /\ queueMailed \subseteq Msgs /\ state \in [Msgs -> States]
  BY TypesSplit DEF SendInv, TypeOK, RowInv, RowTypes
<1>2. ASSUME NEW r \in Requests, Admit(r)
      PROVE  SendInv' /\ RowInv' /\ OutcomeKept
  BY <1>2, AdmitStep
<1>3. ASSUME NEW r \in Requests, Deliver(r), UNCHANGED admissionVars
      PROVE  SendInv' /\ RowInv' /\ OutcomeKept
  BY <1>1, <1>3, DeliverStep, SettlingStep DEF admissionVars, rowVars
<1>4. ASSUME NEW m \in Msgs, QueueMails(m)
      PROVE  SendInv' /\ RowInv' /\ OutcomeKept
  <2>1. /\ UNCHANGED <<state, request, rowVars>> /\ queueMailed' \subseteq Msgs
    BY <1>1, <1>4 DEF QueueMails
  <2> QED
    BY <1>1, <1>4, <2>1, QueueMailsSend, SettlingStep DEF Settling
<1>5. ASSUME NEW m \in Msgs, NEW o \in {"ACCEPTED", "FAILED", "INDETERMINATE"},
             QueueSettles(m, o)
      PROVE  SendInv' /\ RowInv' /\ OutcomeKept
  <2>1. /\ state[m] = "PENDING" /\ state' = [state EXCEPT ![m] = o]
        /\ UNCHANGED <<request, rowVars, queueMailed>>
    BY <1>5 DEF QueueSettles, admissionVars
  <2>2. Settling
    BY <1>1, <2>1 DEF Settling
  <2> QED
    BY <1>1, <1>5, <2>1, <2>2, QueueSettlesSend, SettlingStep
<1>6. ASSUME NEW m \in Msgs, Ages(m), UNCHANGED admissionVars
      PROVE  SendInv' /\ RowInv' /\ OutcomeKept
  <2>1. UNCHANGED <<state, request, rowVars, bodyOf, queueMailed>>
    BY <1>6 DEF Ages, admissionVars, rowVars
  <2> QED
    BY <1>1, <1>6, <2>1, AgesSend, SettlingStep DEF Settling
<1>7. ASSUME NEW c \in Msgs, DeleteConversation(c)
      PROVE  SendInv' /\ RowInv' /\ OutcomeKept
  <2>1. SendInv' /\ RowInv'
    BY <1>1, <1>7, DeleteSend, DeleteRows
  <2> QED
    BY <1>7, <2>1 DEF DeleteConversation, OutcomeKept
<1>8. CASE Provider /\ UNCHANGED admissionVars
  BY <1>1, <1>8, ProviderStep, SettlingStep DEF admissionVars, rowVars
<1> QED
  BY <1>2, <1>3, <1>4, <1>5, <1>6, <1>7, <1>8 DEF AdmissionNext, Outbox

LEMMA StutterRows ==
    ASSUME RowInv, UNCHANGED requestVars
    PROVE  RowInv'
<1>1. UNCHANGED <<state, request, rowVars, queueMailed>>
  BY DEF requestVars, vars, admissionVars
<1>2. Settling /\ queueMailed' \subseteq Msgs
  BY <1>1 DEF Settling, RowInv, RowTypes
<1> QED
  BY <1>1, <1>2, Unasked, SettlingRows

LEMMA InitIInv == AdmissionInit => IInv
<1> SUFFICES ASSUME AdmissionInit
             PROVE  SendInv /\ RowInv
  BY Parts
<1> USE DEF AdmissionInit, Init
<1>1. TypeOK
  BY IdleJob DEF TypeOK, States
<1>2. JobInv /\ WireInv
  BY IdleJob DEF JobInv, WireInv
<1>3. MailInv /\ MailedAsRecorded
  BY BodyTypes DEF MailInv, MailedAsRecorded
<1>4. NoRequest \in Asked /\ NoRequest.pc = "idle"
  BY DEF NoRequest, Asked, Places
<1>5. request \in [Requests -> Asked] /\ \A r \in Requests : request[r] = NoRequest
  BY <1>4
<1>6. SeekInv
  BY <1>4, <1>5 DEF SeekInv, SeeksWell
<1>7. RowTypes
  BY <1>5 DEF RowTypes, Exists
<1>8. OpeningInv
  BY DEF OpeningInv, Openings, Exists
<1> QED
  BY <1>1, <1>2, <1>3, <1>6, <1>7, <1>8 DEF SendInv, RowInv

LEMMA StepIInv == IInv /\ [AdmissionNext]_requestVars => IInv'
<1> SUFFICES ASSUME SendInv, RowInv, [AdmissionNext]_requestVars
             PROVE  SendInv' /\ RowInv'
  <2>1. (SendInv /\ RowInv)' => IInv'
    BY TypesSplit, PTL DEF IInv, RowInv, SendInv
  <2> QED
    BY <2>1, Parts
<1>1. CASE AdmissionNext
  BY <1>1, Step
<1>2. CASE UNCHANGED requestVars
  BY <1>2, StutterSend, StutterRows DEF requestVars, admissionVars, rowVars
<1> QED
  BY <1>1, <1>2

LEMMA Invariance == AdmissionSpec => []IInv
BY InitIInv, StepIInv, PTL DEF AdmissionSpec

-----------------------------------------------------------------------------
(* The theorems.                                                           *)

\* The tables, the requests and the calls stay what they are declared to be; a
\* taken topic has a conversation with messages, and each conversation a topic.
THEOREM TypeCorrect == AdmissionSpec => []AdmissionTypeOK
<1>1. IInv => AdmissionTypeOK
  BY DEF IInv
<1> QED
  BY Invariance, <1>1, PTL

\* Replays never mail a message a second time, in either lane, whatever
\* transactions expire and calls arrive late; and what is recorded as ACCEPTED
\* was mailed.
THEOREM MailsOnce == AdmissionSpec => []MailedAsRecorded
<1>1. IInv => MailedAsRecorded
  BY DEF IInv, SendInv
<1> QED
  BY Invariance, <1>1, PTL

\* However requests for a topic race, fail and are tried again, it has one
\* opening at most that is not known to have failed.
THEOREM OneOpeningEach == AdmissionSpec => []OneOpening
<1>1. IInv => OneOpening
  <2> SUFFICES ASSUME IInv, NEW t \in Topics
               PROVE  Cardinality({m \in Msgs : /\ Exists(m) /\ state[m] # "FAILED"
                                                /\ bodyOf[m].kind = "opening"
                                                /\ bodyOf[m].on = t}) <= 1
    BY DEF OneOpening
  <2> DEFINE S == {m \in Msgs : /\ Exists(m) /\ state[m] # "FAILED"
                                /\ bodyOf[m].kind = "opening"
                                /\ bodyOf[m].on = t}
  <2>1. \A m, n \in S : m = n
    <3>1. \A m \in S : m \in Openings(t) /\ state[m] # "FAILED"
      BY DEF Openings
    <3> QED
      BY <3>1 DEF IInv, OpeningInv
  <2> HIDE DEF S
  <2>2. S = {} \/ \E m : S = {m}
    BY <2>1
  <2>3. Cardinality(S) \in {0, 1}
    BY <2>2, FS_EmptySet, FS_Singleton
  <2>4. Cardinality(S) <= 1
    BY <2>3
  <2> QED
    BY <2>4 DEF S
<1> QED
  BY Invariance, <1>1, PTL

\* An outcome the provider reported is final, whatever requests replay the
\* message or are late.
THEOREM OutcomesStay == AdmissionSpec => OutcomeStays
<1>1. ASSUME IInv, [AdmissionNext]_requestVars
      PROVE  [OutcomeKept]_vars
  <2>1. CASE AdmissionNext
    BY <1>1, <2>1, Parts, Step
  <2>2. CASE UNCHANGED requestVars
    BY <2>2 DEF requestVars
  <2> QED
    BY <1>1, <2>1, <2>2
<1> QED
  BY Invariance, <1>1, PTL DEF AdmissionSpec, OutcomeStays, OutcomeKept
=============================================================================
