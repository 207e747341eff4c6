------------------------------ MODULE SendRequests ------------------------------
(***************************************************************************)
(* The send endpoints (lib/conversation-v2.ts, lib/direct-email-v2.ts): a  *)
(* request with an Idempotency-Key opens a conversation, replies in one or *)
(* sends a direct email, and either delivers its message at once, as in    *)
(* SynchronousSend, or leaves it to the outbox, of which only its promise  *)
(* is kept here (SendOutcome): it mails a message once and settles it.     *)
(*                                                                         *)
(* What a request reads before its transaction may be old when the         *)
(* transaction runs; the unique indexes on the key and on the topic decide *)
(* between requests, and a request that loses looks again.  A conversation *)
(* is named by the message that opened it.                                 *)
(***************************************************************************)
EXTENDS SynchronousSend, FiniteSets

CONSTANTS
    Keys,
    NoKey,
    Topics      \* pairs (topic type, external id)

ASSUME RequestNames ==
    NoKey \notin Keys /\ NoMessage \notin Topics /\ Topics \cap Msgs = {}

VARIABLES
    request,    \* what each request has come to, until its message is stored
    keyOf,      \* email_messages.idempotency_key
    bodyOf,     \* email_messages.request_hash
    home,       \* email_messages.conversation_id
    opened,     \* the conversation of each topic
    queueMailed \* messages the outbox lane has mailed

rowVars == <<keyOf, bodyOf, home, opened>>
admissionVars == <<request, rowVars, queueMailed>>
requestVars == <<vars, admissionVars>>

Lanes == {"sync", "outbox"}

\* What hashSendRequest tells apart: the operation, which names the lane, what
\* it is on (a topic, a conversation), and the text, the same for every request.
Bodies ==
    [kind : {"opening"}, on : Topics, lane : Lanes]
        \union [kind : {"reply"}, on : Msgs, lane : Lanes]
        \union [kind : {"direct"}, on : {NoMessage}, lane : Lanes]

NoBody == [kind |-> "none", on |-> NoMessage, lane |-> "sync"]

NoRequest == [pc |-> "idle", key |-> NoKey, body |-> NoBody, conv |-> NoMessage]

Exists(m) == state[m] \notin {"ABSENT", "DELETED"}

\* The conversation's messages.
Of(c) == {m \in Msgs : Exists(m) /\ home[m] = c}

AdmissionTypeOK ==
    /\ TypeOK
    /\ request \in [Requests ->
           [pc : {"idle", "insert", "raced", "seek", "reopen", "racedAgain"},
            key : Keys \union {NoKey}, body : Bodies \union {NoBody},
            conv : Msgs \union {NoMessage}]]
    /\ keyOf \in [Msgs -> Keys \union {NoKey}]
    /\ bodyOf \in [Msgs -> Bodies \union {NoBody}]
    /\ home \in [Msgs -> Msgs \union {NoMessage}]
    /\ opened \in [Topics -> Msgs \union {NoMessage}]
    /\ queueMailed \subseteq Msgs
    /\ \A t \in Topics : opened[t] # NoMessage => Of(opened[t]) # {}
    /\ \A m \in Msgs : Exists(m) /\ home[m] # NoMessage =>
                           \E t \in Topics : opened[t] = home[m]

AdmissionInit ==
    /\ Init
    /\ request = [r \in Requests |-> NoRequest]
    /\ keyOf = [m \in Msgs |-> NoKey]
    /\ bodyOf = [m \in Msgs |-> NoBody]
    /\ home = [m \in Msgs |-> NoMessage]
    /\ opened = [t \in Topics |-> NoMessage]
    /\ queueMailed = {}

-----------------------------------------------------------------------------
(* The message of a key.                                                   *)

Found(key) == {m \in Msgs : Exists(m) /\ keyOf[m] = key}

\* Mutant: the hash of a request leaves out its lane.
SameButForLane(m, body) ==
    bodyOf[m].kind = body.kind /\ bodyOf[m].on = body.on

SameRequest(m, body) == bodyOf[m] = body

\* The stored message answers the request, which first recovers a PENDING one
\* of its lane; another request's message is a conflict.
AnswerWith(r, m, body) ==
    IF SameRequest(m, body) /\ body.lane = "sync" /\ state[m] = "PENDING"
      THEN Replay(r, m)
      ELSE UNCHANGED vars

Goto(r, pc) == request' = [request EXCEPT ![r].pc = pc]

Leave(r) == request' = [request EXCEPT ![r] = NoRequest]

\* A reply needs its conversation, and a message there to reply to.
CanReply(c) == \E m \in Of(c) : state[m] = "ACCEPTED"

\* The request looks its key up before anything else.
Look(r, key, body) ==
    /\ request[r].pc = "idle" /\ job[r].pc = "idle"
    /\ \/ /\ \E m \in Found(key) : AnswerWith(r, m, body)
          /\ UNCHANGED request
       \/ /\ Found(key) = {}
          /\ body.kind = "reply" => CanReply(body.on)
          /\ request' = [request EXCEPT ![r] =
                           [pc |-> "insert", key |-> key, body |-> body,
                            conv |-> NoMessage]]
          /\ UNCHANGED vars
    /\ UNCHANGED <<rowVars, queueMailed>>

-----------------------------------------------------------------------------
(* The transaction that stores the message.                                *)

\* The message m of request r, in conversation c; a synchronous request goes on
\* to deliver it, the outbox lane's is answered.
Store(r, m, c) ==
    LET q == request[r]
    IN  /\ state[m] = "ABSENT"
        /\ state' = [state EXCEPT ![m] = "PENDING"]
        /\ keyOf' = [keyOf EXCEPT ![m] = q.key]
        /\ bodyOf' = [bodyOf EXCEPT ![m] = q.body]
        /\ home' = [home EXCEPT ![m] = c]
        /\ IF q.body.lane = "sync"
             THEN Start(r, m, "deliver", FALSE)
             ELSE UNCHANGED job
        /\ Leave(r)
        /\ UNCHANGED <<aged, lock, wire, providerVars, queueMailed>>

\* A unique index refuses the insert: P2002.
LoseRace(r, pc) == Goto(r, pc) /\ UNCHANGED <<vars, rowVars, queueMailed>>

GiveAnswer(r) == Leave(r) /\ UNCHANGED <<vars, rowVars, queueMailed>>

InsertOpening(r) ==
    LET q == request[r]
        free == Found(q.key) = {} /\ opened[q.body.on] = NoMessage
    IN  /\ q.pc = "insert" /\ q.body.kind = "opening"
        /\ \/ free /\ \E m \in Msgs :
                 Store(r, m, m) /\ opened' = [opened EXCEPT ![q.body.on] = m]
           \/ ~free /\ LoseRace(r, "raced")

\* Under the conversation's lock; a deleted conversation throws.
InsertReply(r) ==
    LET q == request[r]
        c == q.body.on
    IN  /\ q.pc = "insert" /\ q.body.kind = "reply"
        /\ \/ Of(c) # {} /\ Found(q.key) = {} /\ UNCHANGED opened
              /\ \E m \in Msgs : Store(r, m, c)
           \/ Of(c) # {} /\ Found(q.key) # {} /\ LoseRace(r, "raced")
           \/ Of(c) = {} /\ GiveAnswer(r)

InsertDirect(r) ==
    LET q == request[r]
    IN  /\ q.pc = "insert" /\ q.body.kind = "direct"
        /\ \/ Found(q.key) = {} /\ UNCHANGED opened
              /\ \E m \in Msgs : Store(r, m, NoMessage)
           \/ Found(q.key) # {} /\ LoseRace(r, "raced")

\* The message that won the key answers.  Without one it was the topic that was
\* taken, and an opening looks for the conversation that has it.
Raced(r) ==
    LET q == request[r]
    IN  /\ q.pc = "raced"
        /\ \/ /\ \E m \in Found(q.key) : AnswerWith(r, m, q.body)
              /\ Leave(r) /\ UNCHANGED <<rowVars, queueMailed>>
           \/ /\ Found(q.key) = {} /\ q.body.kind = "opening"
              /\ LoseRace(r, "seek")
           \/ /\ Found(q.key) = {} /\ q.body.kind # "opening"
              /\ GiveAnswer(r)

Seek(r) ==
    LET q == request[r]
        c == opened[q.body.on]
    IN  /\ q.pc = "seek"
        /\ request' = [request EXCEPT ![r] =
                         IF c = NoMessage THEN NoRequest
                         ELSE [q EXCEPT !.pc = "reopen", !.conv = c]]
        /\ UNCHANGED <<vars, rowVars, queueMailed>>

\* Mutant: only the conversation's first message is looked at.
FirstLiveIn(c) == state[c] # "FAILED"

LiveIn(c) == \E m \in Of(c) : state[m] # "FAILED"

\* reopenFailedConversation, under the conversation's lock: a conversation whose
\* messages have all FAILED takes the request's message as a new opening.
Reopen(r) ==
    LET q == request[r]
        c == q.conv
    IN  /\ q.pc = "reopen"
        /\ \/ (Of(c) = {} \/ LiveIn(c)) /\ GiveAnswer(r)
           \/ /\ Of(c) # {} /\ ~LiveIn(c) /\ Found(q.key) # {}
              /\ LoseRace(r, "racedAgain")
           \/ /\ Of(c) # {} /\ ~LiveIn(c) /\ Found(q.key) = {}
              /\ UNCHANGED opened
              /\ \E m \in Msgs : Store(r, m, c)

RacedAgain(r) ==
    LET q == request[r]
    IN  /\ q.pc = "racedAgain"
        /\ \/ /\ \E m \in Found(q.key) : AnswerWith(r, m, q.body)
              /\ Leave(r) /\ UNCHANGED <<rowVars, queueMailed>>
           \/ Found(q.key) = {} /\ GiveAnswer(r)

-----------------------------------------------------------------------------
(* Everyone else.                                                          *)

\* The outbox lane, by its promise.
QueueMails(m) ==
    /\ state[m] # "ABSENT" /\ bodyOf[m].lane = "outbox" /\ m \notin queueMailed
    /\ queueMailed' = queueMailed \union {m}
    /\ mailed' = [mailed EXCEPT ![m] = @ + 1]
    /\ UNCHANGED <<state, aged, job, lock, wire, known, request, rowVars>>

QueueSettles(m, o) ==
    /\ state[m] = "PENDING" /\ bodyOf[m].lane = "outbox"
    /\ o = "ACCEPTED" => m \in queueMailed
    /\ state' = [state EXCEPT ![m] = o]
    /\ UNCHANGED <<aged, job, lock, wire, providerVars, admissionVars>>

\* Mutant: the topic stays taken.
DeleteKeepsTopic(c) ==
    /\ Of(c) # {}
    /\ state' = [m \in Msgs |-> IF m \in Of(c) THEN "DELETED" ELSE state[m]]
    /\ UNCHANGED <<aged, job, lock, wire, providerVars, admissionVars>>

\* DELETE /api/conversations/v2/{id} takes the messages along, keys and all.
DeleteConversation(c) ==
    /\ Of(c) # {}
    /\ state' = [m \in Msgs |-> IF m \in Of(c) THEN "DELETED" ELSE state[m]]
    /\ opened' = [t \in Topics |-> IF opened[t] = c THEN NoMessage ELSE opened[t]]
    /\ UNCHANGED <<aged, job, lock, wire, providerVars, request, keyOf, bodyOf,
                   home, queueMailed>>

Admit(r) ==
    \/ \E key \in Keys, body \in Bodies : Look(r, key, body)
    \/ InsertOpening(r) \/ InsertReply(r) \/ InsertDirect(r)
    \/ Raced(r) \/ Seek(r) \/ Reopen(r) \/ RacedAgain(r)

Outbox ==
    \E m \in Msgs :
        \/ QueueMails(m)
        \/ \E o \in {"ACCEPTED", "FAILED", "INDETERMINATE"} : QueueSettles(m, o)

AdmissionNext ==
    \/ \E r \in Requests : Admit(r)
    \/ \E r \in Requests : Deliver(r) /\ UNCHANGED admissionVars
    \/ Outbox
    \/ \E m \in Msgs : Ages(m) /\ UNCHANGED admissionVars
    \/ \E c \in Msgs : DeleteConversation(c)
    \/ Provider /\ UNCHANGED admissionVars

AdmissionSpec == AdmissionInit /\ [][AdmissionNext]_requestVars

-----------------------------------------------------------------------------
(* Properties: those of SynchronousSend, MailedAsRecorded now over both    *)
(* lanes, whose calls have separate provider keys, and OneOpening.         *)

\* However requests for a topic race, fail and are tried again, its conversation
\* has at most one opening email that may still reach the participant as far as
\* the recorded outcomes tell.
OneOpening ==
    \A t \in Topics :
        Cardinality({m \in Msgs : /\ Exists(m) /\ state[m] # "FAILED"
                                  /\ bodyOf[m].kind = "opening"
                                  /\ bodyOf[m].on = t}) <= 1
=============================================================================
