---------------------------- MODULE SynchronousSend ----------------------------
(***************************************************************************)
(* Synchronous sends (lib/conversation-service.ts): the request that       *)
(* persisted a message delivers it at once, and a replay of the request    *)
(* (same Idempotency-Key) recovers a message that was left PENDING.  The   *)
(* provider is called inside a database transaction that holds the         *)
(* message's advisory lock, but not the lock of its row.                   *)
(*                                                                         *)
(* A request is one HTTP request in progress, in any replica.  Its         *)
(* transaction is visible only when it commits.  SendRequests composes     *)
(* these steps with the endpoints that store and replay messages.          *)
(***************************************************************************)
EXTENDS Naturals

CONSTANTS
    Msgs,
    NoMessage,
    Requests    \* concurrent requests

ASSUME SendNames == NoMessage \notin Msgs

VARIABLES
    state,      \* email_messages.state; ABSENT and DELETED stand for no row
    aged,       \* messages created 23 hours ago or earlier
    job,        \* what each request is doing
    lock,       \* per message: the requests holding its advisory lock
    wire,       \* calls on their way to the provider
    known,      \* provider: messages whose idempotency key it remembers
    mailed      \* provider: emails sent for each message

providerVars == <<known, mailed>>
vars == <<state, aged, job, lock, wire, providerVars>>

States == {"ABSENT", "PENDING", "ACCEPTED", "FAILED", "INDETERMINATE", "DELETED"}
\* known failure: a ResendApiError, or a missing API key; anything else thrown
\* (a timeout, a broken connection, a body without an id) is ambiguous.
Answers == {"none", "accepted", "knownFailure", "ambiguous"}

Idle == [pc |-> "idle", message |-> NoMessage, replay |-> FALSE,
         answer |-> "none"]

Jobs == [pc : {"idle", "deliver", "giveUp", "sending", "answered"},
         message : Msgs \union {NoMessage}, replay : BOOLEAN,
         answer : Answers]

TypeOK ==
    /\ state \in [Msgs -> States]
    /\ aged \subseteq Msgs
    /\ job \in [Requests -> Jobs]
    /\ lock \in [Msgs -> SUBSET Requests]
    /\ \A m \in Msgs, r \in Requests :
          r \in lock[m] => /\ job[r].message = m
                           /\ job[r].pc \in {"sending", "answered"}
    /\ wire \subseteq Requests \X Msgs
    /\ known \subseteq Msgs
    /\ mailed \in [Msgs -> Nat]

Init ==
    /\ state = [m \in Msgs |-> "ABSENT"]
    /\ aged = {}
    /\ job = [r \in Requests |-> Idle]
    /\ lock = [m \in Msgs |-> {}]
    /\ wire = {}
    /\ known = {}
    /\ mailed = [m \in Msgs |-> 0]

Start(r, m, pc, replay) ==
    /\ job[r].pc = "idle"
    /\ job' = [job EXCEPT ![r] = [Idle EXCEPT !.pc = pc, !.message = m,
                                              !.replay = replay]]

End(r) == job' = [job EXCEPT ![r] = Idle]

-----------------------------------------------------------------------------
(* The request.                                                            *)

\* recoverPendingMessage: the row is read without a lock.  A message that is
\* not PENDING is answered as it is.
Replay(r, m) ==
    /\ state[m] = "PENDING"
    /\ Start(r, m, IF m \in aged THEN "giveUp" ELSE "deliver", TRUE)
    /\ UNCHANGED <<state, aged, lock, wire, providerVars>>

\* Mutant: the message is given up whatever became of it since it was read.
GiveUpAnyway(r) ==
    /\ job[r].pc = "giveUp"
    /\ state[job[r].message] # "DELETED"
    /\ state' = [state EXCEPT ![job[r].message] = "INDETERMINATE"]
    /\ End(r)
    /\ UNCHANGED <<aged, lock, wire, providerVars>>

GiveUp(r) ==
    /\ job[r].pc = "giveUp"
    /\ state' = [state EXCEPT ![job[r].message] =
                   IF @ = "PENDING" THEN "INDETERMINATE" ELSE @]
    /\ End(r)
    /\ UNCHANGED <<aged, lock, wire, providerVars>>

\* The attachments are read, the transaction begins, takes the lock, finds the
\* message PENDING and posts it.
Send(r) ==
    LET m == job[r].message
    IN  /\ job[r].pc = "deliver"
        /\ lock[m] = {}
        /\ state[m] = "PENDING"
        /\ lock' = [lock EXCEPT ![m] = {r}]
        /\ wire' = wire \union {<<r, m>>}
        /\ job' = [job EXCEPT ![r].pc = "sending"]
        /\ UNCHANGED <<state, aged, providerVars>>

\* It finds the message settled or gone, an attachment cannot be read, or the
\* wait for the lock outlasts the transaction: the message stays as it is.
SendNothing(r) ==
    /\ job[r].pc = "deliver"
    /\ End(r)
    /\ UNCHANGED <<state, aged, lock, wire, providerVars>>

\* The 15 second timeout or a broken connection; the call may still arrive.
StopWaiting(r) ==
    /\ job[r].pc = "sending"
    /\ job' = [job EXCEPT ![r].pc = "answered", ![r].answer = "ambiguous"]
    /\ UNCHANGED <<state, aged, lock, wire, providerVars>>

\* The acceptance is reconciled with delivery events in the same try block: an
\* error there is taken for one of the call.
ReconcileFails(r) ==
    /\ job[r].pc = "answered" /\ job[r].answer = "accepted"
    /\ job' = [job EXCEPT ![r].answer = "ambiguous"]
    /\ UNCHANGED <<state, aged, lock, wire, providerVars>>

Outcome(r) ==
    CASE job[r].answer = "accepted" -> "ACCEPTED"
      [] job[r].answer = "knownFailure" -> "FAILED"
      [] OTHER -> "INDETERMINATE"

\* The outcome is written by message id alone, and the transaction commits.
\* The update of a deleted message throws.
Commit(r) ==
    LET m == job[r].message
    IN  /\ job[r].pc = "answered"
        /\ state[m] # "DELETED"
        /\ state' = [state EXCEPT ![m] = Outcome(r)]
        /\ lock' = [lock EXCEPT ![m] = @ \ {r}]
        /\ End(r)
        /\ UNCHANGED <<aged, wire, providerVars>>

\* The transaction ends without a commit: its 25 seconds are over, the database
\* fails, the process dies, or the message is gone.  The lock is free and the
\* message still PENDING, while the call may still be on its way.
Rollback(r) ==
    /\ job[r].pc \in {"sending", "answered"}
    /\ lock' = [lock EXCEPT ![job[r].message] = @ \ {r}]
    /\ End(r)
    /\ UNCHANGED <<state, aged, wire, providerVars>>

\* The request that created the message is over long before.
Ages(m) ==
    /\ state[m] # "ABSENT" /\ m \notin aged
    /\ \A r \in Requests : job[r].message = m => job[r].replay
    /\ aged' = aged \union {m}
    /\ UNCHANGED <<state, job, lock, wire, providerVars>>

-----------------------------------------------------------------------------
(* The provider.                                                           *)

Reply(r, m, answer) ==
    /\ wire' = wire \ {<<r, m>>}
    /\ job' = IF job[r].pc = "sending" /\ job[r].message = m
                THEN [job EXCEPT ![r].pc = "answered", ![r].answer = answer]
                ELSE job

ProviderMails(r, m) ==
    /\ m \notin known
    /\ known' = known \union {m}
    /\ mailed' = [mailed EXCEPT ![m] = @ + 1]
    /\ Reply(r, m, "accepted") \/ Reply(r, m, "ambiguous")
    /\ UNCHANGED <<state, aged, lock>>

ProviderReplays(r, m) ==
    /\ m \in known
    /\ Reply(r, m, "accepted")
    /\ UNCHANGED <<state, aged, lock, providerVars>>

\* Any error status, which includes 409 while another call with the same key is
\* in progress; or the call is lost.
ProviderRefuses(r, m) ==
    /\ \/ Reply(r, m, "knownFailure")
       \/ wire' = wire \ {<<r, m>>} /\ UNCHANGED job
    /\ UNCHANGED <<state, aged, lock, providerVars>>

\* After 24 hours: an hour after the last replay that may send.
ProviderForgets(m) ==
    /\ m \in known /\ m \in aged
    /\ \A r \in Requests : <<r, m>> \notin wire
    /\ \A r \in Requests : job[r].message = m => job[r].pc # "deliver"
    /\ known' = known \ {m}
    /\ UNCHANGED <<state, aged, job, lock, wire, mailed>>

\* The steps of a delivery, whether the request stored the message or replayed.
Deliver(r) ==
    \/ GiveUp(r)
    \/ Send(r) \/ SendNothing(r) \/ StopWaiting(r) \/ ReconcileFails(r)
    \/ Commit(r) \/ Rollback(r)

Provider ==
    \/ \E r \in Requests, m \in Msgs :
          /\ <<r, m>> \in wire
          /\ ProviderMails(r, m) \/ ProviderReplays(r, m) \/ ProviderRefuses(r, m)
    \/ \E m \in Msgs : ProviderForgets(m)

-----------------------------------------------------------------------------
(* Properties of the composition.                                          *)

\* Replays never mail a message a second time, whatever transactions expire,
\* processes die and calls arrive late, even past the provider's memory of
\* the key; and what is recorded as ACCEPTED was mailed.
MailedAsRecorded ==
    \A m \in Msgs : mailed[m] <= 1 /\ (state[m] = "ACCEPTED" => mailed[m] = 1)

\* An outcome the provider reported is final: no other request, replayed or
\* late, records another one over it.
OutcomeStays ==
    [][\A m \in Msgs :
          state[m] \in {"ACCEPTED", "FAILED"} =>
              state'[m] \in {state[m], "DELETED"}]_vars
=============================================================================
