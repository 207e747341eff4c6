---------------------------- MODULE AttachmentOutbox ----------------------------
(***************************************************************************)
(* The attachment lane of the outbox (lib/attachment-outbox-service.ts):   *)
(* queued messages with attachments are sent one at a time.  A drain       *)
(* leases one entry, reads the attachments' objects, posts the message     *)
(* under a key of its own and records the outcome.                         *)
(*                                                                         *)
(* A worker is one drain in progress, in any replica.  Every database      *)
(* transaction is one step; the provider call is a request on the wire     *)
(* that may be delayed, lost or answered after the worker stopped waiting. *)
(* What an email carries is abstracted to whether its attachments are      *)
(* there: all of them or none.                                             *)
(***************************************************************************)
EXTENDS Naturals

CONSTANTS
    Msgs,       \* queued messages with attachments
    NoMessage,
    Workers,    \* concurrent drains
    Nobody,     \* lease_token IS NULL
    MaxCrashes  \* bound on the number of worker crashes

ASSUME LaneNames == NoMessage \notin Msgs /\ Nobody \notin Workers
ASSUME LaneBounds == MaxCrashes \in Nat

VARIABLES
    state,     \* email_messages.state; ABSENT and DELETED stand for no row
    entries,   \* messages with a row in email_attachment_outbox_entries
    holder,    \* lease_token of the entry
    lapsed,    \* entries with lease_until <= now
    delayed,   \* entries with next_attempt_at > now
    attempted, \* entries with attempt_count > 0
    expired,   \* entries first attempted 23 hours ago or earlier
    job,       \* what each worker remembers
    wire,      \* requests on their way to the provider
    bound,     \* provider: the payload an idempotency key is bound to
    mailed,    \* provider: emails sent for each message
    bare,      \* messages that were mailed without their attachments
    crashes    \* worker crashes so far

entryVars == <<entries, holder, lapsed, delayed, attempted>>
providerVars == <<bound, mailed, bare>>
vars == <<state, entryVars, expired, job, wire, providerVars, crashes>>

States == {"ABSENT", "PENDING", "ACCEPTED", "FAILED", "INDETERMINATE", "DELETED"}
Settled == {"ACCEPTED", "FAILED", "INDETERMINATE"}
\* retryable: what isRetryableError accepts, which includes every error that
\* is not the provider's; conflict: 409 invalid_idempotent_request; rejected:
\* any other error.
Answers == {"none", "accepted", "conflict", "retryable", "rejected"}
Payloads == {"whole", "bare"}

Idle == [pc |-> "idle", message |-> NoMessage, again |-> FALSE,
         payload |-> "whole", answer |-> "none"]

\* again is attemptCount > 1.
Jobs == [pc : {"idle", "claimed", "sending", "answered"},
         message : Msgs \union {NoMessage}, again : BOOLEAN,
         payload : Payloads, answer : Answers]

Requests == [worker : Workers, message : Msgs, payload : Payloads]

\* An entry lives exactly as long as its message awaits its outcome.
TypeOK ==
    /\ state \in [Msgs -> States]
    /\ entries = {m \in Msgs : state[m] = "PENDING"}
    /\ holder \in [Msgs -> Workers \union {Nobody}]
    /\ lapsed \subseteq entries
    /\ delayed \subseteq entries
    /\ attempted \subseteq Msgs
    /\ expired \subseteq Msgs
    /\ job \in [Workers -> Jobs]
    /\ \A w \in Workers : job[w].pc = "idle" => job[w] = Idle
    /\ wire \subseteq Requests
    /\ bound \in [Msgs -> SUBSET Payloads]
    /\ mailed \in [Msgs -> Nat]
    /\ bare \subseteq Msgs
    /\ crashes \in 0 .. MaxCrashes

Init ==
    /\ state = [m \in Msgs |-> "ABSENT"]
    /\ entries = {}
    /\ holder = [m \in Msgs |-> Nobody]
    /\ lapsed = {}
    /\ delayed = {}
    /\ attempted = {}
    /\ expired = {}
    /\ job = [w \in Workers |-> Idle]
    /\ wire = {}
    /\ bound = [m \in Msgs |-> {}]
    /\ mailed = [m \in Msgs |-> 0]
    /\ bare = {}
    /\ crashes = 0

-----------------------------------------------------------------------------
(* What other handlers do to the lane's rows.                              *)

\* The message, its claim on its attachments and its entry are one transaction.
Enqueue(m) ==
    /\ state[m] = "ABSENT"
    /\ state' = [state EXCEPT ![m] = "PENDING"]
    /\ entries' = entries \union {m}
    /\ UNCHANGED <<holder, lapsed, delayed, attempted, expired, job, wire,
                   providerVars, crashes>>

RemoveEntry(m) ==
    /\ entries' = entries \ {m}
    /\ holder' = [holder EXCEPT ![m] = Nobody]
    /\ lapsed' = lapsed \ {m}
    /\ delayed' = delayed \ {m}
    /\ UNCHANGED attempted

\* Mutant: the entry's foreign key without ON DELETE CASCADE.
DeleteKeepsEntry(m) ==
    /\ state[m] \notin {"ABSENT", "DELETED"}
    /\ state' = [state EXCEPT ![m] = "DELETED"]
    /\ UNCHANGED <<entryVars, expired, job, wire, providerVars, crashes>>

\* DELETE conversation: the message, its entry and its attachments go.
Delete(m) ==
    /\ state[m] \notin {"ABSENT", "DELETED"}
    /\ state' = [state EXCEPT ![m] = "DELETED"]
    /\ RemoveEntry(m)
    /\ UNCHANGED <<expired, job, wire, providerVars, crashes>>

-----------------------------------------------------------------------------
(* The drain.                                                              *)

\* Mutant: an entry whose lease lapsed is never taken over.
ReadyIfReleased ==
    {m \in entries : state[m] = "PENDING" /\ m \notin delayed /\ holder[m] = Nobody}

Ready ==
    {m \in entries : /\ state[m] = "PENDING"
                     /\ m \notin delayed
                     /\ holder[m] = Nobody \/ m \in lapsed}

\* The claim first deletes the entries of messages that are not PENDING.
Leftover == {m \in entries : state[m] # "PENDING"}

\* claimEntry; queued_at is arbitrary and SKIP LOCKED may pass over rows.
Claim(w, m) ==
    /\ job[w].pc = "idle"
    /\ m \in Ready
    /\ entries' = entries \ Leftover
    /\ holder' = [holder EXCEPT ![m] = w]
    /\ lapsed' = lapsed \ {m}
    /\ attempted' = attempted \union {m}
    /\ job' = [job EXCEPT ![w] = [Idle EXCEPT !.pc = "claimed", !.message = m,
                                              !.again = m \in attempted]]
    /\ UNCHANGED <<state, delayed, expired, wire, providerVars, crashes>>

WindowOver(w) == job[w].message \in expired

\* buildSendAttachments lists the attachments of the message as they are now:
\* none once its conversation is deleted.
PayloadOf(m) == IF state[m] = "DELETED" THEN "bare" ELSE "whole"

\* Mutant: the window is not checked before a retry is sent.
SendUnchecked(w) ==
    /\ job[w].pc = "claimed"
    /\ LET m == job[w].message
       IN  /\ wire' = wire \union
                 {[worker |-> w, message |-> m, payload |-> PayloadOf(m)]}
           /\ job' = [job EXCEPT ![w].pc = "sending", ![w].payload = PayloadOf(m)]
    /\ UNCHANGED <<state, entryVars, expired, providerVars, crashes>>

\* The attachments are read and the message is posted.
Send(w) ==
    /\ job[w].pc = "claimed"
    /\ ~(job[w].again /\ WindowOver(w))
    /\ LET m == job[w].message
       IN  /\ wire' = wire \union
                 {[worker |-> w, message |-> m, payload |-> PayloadOf(m)]}
           /\ job' = [job EXCEPT ![w].pc = "sending", ![w].payload = PayloadOf(m)]
    /\ UNCHANGED <<state, entryVars, expired, providerVars, crashes>>

\* An attachment cannot be read: an error like any other that is not the
\* provider's.
ReadFails(w) ==
    /\ job[w].pc = "claimed"
    /\ ~(job[w].again /\ WindowOver(w))
    /\ job' = [job EXCEPT ![w].pc = "answered", ![w].answer = "retryable"]
    /\ UNCHANGED <<state, entryVars, expired, wire, providerVars, crashes>>

StopWaiting(w) ==
    /\ job[w].pc = "sending"
    /\ job' = [job EXCEPT ![w].pc = "answered", ![w].answer = "retryable"]
    /\ UNCHANGED <<state, entryVars, expired, wire, providerVars, crashes>>

-----------------------------------------------------------------------------
(* The provider.                                                           *)

Waiting(r) ==
    /\ job[r.worker].pc = "sending"
    /\ job[r.worker].message = r.message
    /\ job[r.worker].payload = r.payload

Reply(r, answer) ==
    /\ wire' = wire \ {r}
    /\ job' = IF Waiting(r)
                THEN [job EXCEPT ![r.worker].pc = "answered",
                                 ![r.worker].answer = answer]
                ELSE job

\* A key it does not know.  An answer without an id is an error to the client,
\* which isRetryableError accepts.
ProviderMails(r) ==
    /\ bound[r.message] = {}
    /\ bound' = [bound EXCEPT ![r.message] = {r.payload}]
    /\ mailed' = [mailed EXCEPT ![r.message] = @ + 1]
    /\ bare' = IF r.payload = "bare" THEN bare \union {r.message} ELSE bare
    /\ Reply(r, "accepted") \/ Reply(r, "retryable")
    /\ UNCHANGED <<state, entryVars, expired, crashes>>

ProviderReplays(r) ==
    /\ bound[r.message] # {}
    /\ Reply(r, IF r.payload \in bound[r.message] THEN "accepted" ELSE "conflict")
    /\ UNCHANGED <<state, entryVars, expired, providerVars, crashes>>

ProviderRefuses(r) ==
    /\ \/ Reply(r, "retryable") \/ Reply(r, "rejected")
       \/ wire' = wire \ {r} /\ UNCHANGED job
    /\ UNCHANGED <<state, entryVars, expired, providerVars, crashes>>

\* After 24 hours: an hour longer than the window, and so longer than any
\* attempt that began in the window.
ProviderForgets(m) ==
    /\ m \in expired
    /\ bound[m] # {}
    /\ \A r \in wire : r.message # m
    /\ \A w \in Workers : job[w].message = m => job[w].pc # "claimed"
    /\ bound' = [bound EXCEPT ![m] = {}]
    /\ UNCHANGED <<state, entryVars, expired, job, wire, mailed, bare, crashes>>

-----------------------------------------------------------------------------
(* Recording the outcome.  accept and finalize change the message and then  *)
(* delete the entry under the lease token; when no entry matches they throw *)
(* and the message's change is rolled back.                                *)

Owns(w) == job[w].message \in entries /\ holder[job[w].message] = w

EndJob(w) == job' = [job EXCEPT ![w] = Idle]

Settle(w, outcome) ==
    /\ Owns(w)
    /\ state' = [state EXCEPT ![job[w].message] =
                   IF @ = "PENDING" THEN outcome ELSE @]
    /\ RemoveEntry(job[w].message)
    /\ EndJob(w)
    /\ UNCHANGED <<expired, wire, providerVars, crashes>>

Accept(w) ==
    /\ job[w].pc = "answered"
    /\ job[w].answer = "accepted"
    /\ state[job[w].message] = "PENDING"
    /\ Settle(w, "ACCEPTED")

\* accept throws, for a database error or a lost lease: its catch treats the
\* error as one of the provider call, and a retryable one.
AcceptFails(w) ==
    /\ job[w].pc = "answered"
    /\ job[w].answer = "accepted"
    /\ job' = [job EXCEPT ![w].answer = "retryable"]
    /\ UNCHANGED <<state, entryVars, expired, wire, providerVars, crashes>>

FinalizeFailed(w) ==
    /\ job[w].pc = "answered"
    /\ job[w].answer = "rejected"
    /\ Settle(w, "FAILED")

IsAmbiguous(w) ==
    \/ job[w].pc = "claimed" /\ job[w].again /\ WindowOver(w)
    \/ job[w].pc = "answered" /\ job[w].answer = "conflict"
    \/ job[w].pc = "answered" /\ job[w].answer = "retryable" /\ WindowOver(w)

FinalizeIndeterminate(w) ==
    /\ IsAmbiguous(w)
    /\ Settle(w, "INDETERMINATE")

ScheduleRetry(w) ==
    /\ job[w].pc = "answered"
    /\ job[w].answer = "retryable"
    /\ ~WindowOver(w)
    /\ Owns(w)
    /\ holder' = [holder EXCEPT ![job[w].message] = Nobody]
    /\ lapsed' = lapsed \ {job[w].message}
    /\ delayed' = delayed \union {job[w].message}
    /\ EndJob(w)
    /\ UNCHANGED <<state, entries, attempted, expired, wire, providerVars, crashes>>

\* The last update of an attempt throws, its lease lost: the drain ends.
Abort(w) ==
    /\ IsAmbiguous(w) \/ job[w].pc = "answered"
    /\ job[w].answer # "accepted"
    /\ ~Owns(w)
    /\ EndJob(w)
    /\ UNCHANGED <<state, entryVars, expired, wire, providerVars, crashes>>

-----------------------------------------------------------------------------
(* Crashes and the clock.                                                  *)

Crash(w) ==
    /\ job[w].pc # "idle"
    /\ crashes < MaxCrashes
    /\ crashes' = crashes + 1
    /\ EndJob(w)
    /\ UNCHANGED <<state, entryVars, expired, wire, providerVars>>

LeaseLapses(m) ==
    /\ m \in entries /\ holder[m] # Nobody /\ m \notin lapsed
    /\ lapsed' = lapsed \union {m}
    /\ UNCHANGED <<state, entries, holder, delayed, attempted, expired, job,
                   wire, providerVars, crashes>>

RetryComesDue(m) ==
    /\ m \in delayed
    /\ delayed' = delayed \ {m}
    /\ UNCHANGED <<state, entries, holder, lapsed, attempted, expired, job,
                   wire, providerVars, crashes>>

WindowExpires(m) ==
    /\ m \in attempted /\ m \notin expired
    /\ expired' = expired \union {m}
    /\ UNCHANGED <<state, entryVars, job, wire, providerVars, crashes>>

Finish(w) ==
    \/ Accept(w) \/ AcceptFails(w)
    \/ FinalizeFailed(w) \/ FinalizeIndeterminate(w)
    \/ ScheduleRetry(w) \/ Abort(w)

Drain(w) ==
    \/ \E m \in Msgs : Claim(w, m)
    \/ Send(w) \/ ReadFails(w) \/ StopWaiting(w)
    \/ Finish(w)

Provider ==
    \/ \E r \in wire : ProviderMails(r) \/ ProviderReplays(r) \/ ProviderRefuses(r)
    \/ \E m \in Msgs : ProviderForgets(m)

Next ==
    \/ \E m \in Msgs : Enqueue(m) \/ Delete(m)
    \/ \E w \in Workers : Drain(w) \/ Crash(w)
    \/ \E m \in Msgs : LeaseLapses(m) \/ RetryComesDue(m) \/ WindowExpires(m)
    \/ Provider

Spec == Init /\ [][Next]_vars

\* As in the batch lane: drains are started again and again and run to their
\* end, the clock advances, and a drain is not outrun by it every time.
Fairness ==
    /\ \A w \in Workers :
          WF_vars(Drain(w)) /\ SF_vars(Owns(w) /\ Finish(w))
    /\ \A m \in Msgs :
          WF_vars(LeaseLapses(m)) /\ WF_vars(RetryComesDue(m)) /\ WF_vars(WindowExpires(m))

FairSpec == Spec /\ Fairness

-----------------------------------------------------------------------------
(* Properties.                                                             *)

\* The lane implements the promise of SendOutcome: one mail, one outcome, and
\* ACCEPTED only for what was mailed, whatever leases lapse, workers crash and
\* requests arrive late, even when attachments vanish between attempts.
Promise == INSTANCE SendOutcome WITH outcome <- state, mails <- mailed
KeepsPromise == Promise!Spec

\* Every queued message gets an outcome or is deleted.
QueuedSettles == \A m \in Msgs : state[m] = "PENDING" ~> state[m] # "PENDING"

\* docs/api-consumer-guide.md says a partially attached email is never
\* delivered: no message is mailed without its attachments.
MailedWhole == bare = {}
=============================================================================
