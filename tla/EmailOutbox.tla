---------------------------- MODULE EmailOutbox ----------------------------
(***************************************************************************)
(* The batch lane of the outbox (lib/outbox-service.ts): queued messages   *)
(* are grouped into persistent batches, a drain leases one batch, posts it *)
(* under the batch's idempotency key and records the outcome.              *)
(*                                                                         *)
(* A worker is one drain in progress: a tick of the internal scheduler or  *)
(* a request to the drain route, in any replica.  Every database           *)
(* transaction is one step; the provider call between two transactions is  *)
(* a request on the wire that may be delayed, lost or answered after the   *)
(* worker stopped waiting.  Timestamps are abstracted to three facts about *)
(* a batch: its lease lapsed, its next attempt is due, its 23 hour         *)
(* idempotency window expired.  The three are independent: a lease taken   *)
(* just before the window expires outlives it.                             *)
(***************************************************************************)
EXTENDS Naturals, FiniteSets, Functions

CONSTANTS
    Msgs,       \* queued messages without attachments
    Convs,      \* conversations
    ConvOf,     \* the conversation of each message
    Batches,    \* batch ids; the id is the provider's idempotency key
    NoBatch,    \* batch_id IS NULL
    Workers,    \* concurrent drains
    Limit,      \* messages per batch (the drain's limit)
    MaxCrashes  \* bound on the number of worker crashes

ASSUME BatchAssumption == NoBatch \notin Batches
ASSUME ConvAssumption == ConvOf \in [Msgs -> Convs]
ASSUME BoundAssumption == Limit \in Nat \ {0} /\ MaxCrashes \in Nat

VARIABLES
    state,      \* email_messages.state; ABSENT and DELETED stand for no row
    resendId,   \* email_messages.resend_email_id as a set, {} for NULL; an
                \* email is named by the message whose content it carries
    entries,    \* messages with a row in email_outbox_entries
    batchOf,    \* batch_id of the entry; the last value once the row is gone
    position,   \* batch_position of the entry
    row,        \* the email_outbox_batches row: unused, open or deleted
    holder,     \* lease_token: the worker that made it, {} for NULL
    lapsed,     \* batches with lease_until <= now
    due,        \* batches with next_attempt_at <= now
    expired,    \* batches whose idempotency window is over
    job,        \* what each worker remembers
    wire,       \* requests on their way to the provider
    bound,      \* provider: the payload an idempotency key is bound to
    mailed,     \* provider: emails sent for each message
    crashes     \* worker crashes so far

tableVars == <<state, resendId, entries, batchOf, position>>
batchVars == <<row, holder, lapsed, due>>
providerVars == <<bound, mailed>>
vars == <<tableVars, batchVars, expired, job, wire, providerVars, crashes>>

States == {"ABSENT", "PENDING", "ACCEPTED", "FAILED", "INDETERMINATE", "DELETED"}
Settled == {"ACCEPTED", "FAILED", "INDETERMINATE"}
\* How a request ends for the worker: accepted; a 2xx body without one id per
\* message; 409 invalid_idempotent_request; an error isRetryableBatchError
\* accepts (network, timeout, 429, 5xx, 409 concurrent); any other error.
Answers == {"none", "accepted", "invalid", "conflict", "retryable", "rejected"}

\* A batch's messages in batch_position order.
Payloads ==
    {p \in UNION {[1 .. n -> Msgs] : n \in 0 .. Limit} : IsInjective(p)}

Requests == [worker : Workers, key : Batches, payload : Payloads]

Idle == [pc |-> "idle", batch |-> NoBatch, payload |-> [i \in 1 .. 0 |-> i],
         again |-> FALSE, answer |-> "none", ids |-> [i \in 1 .. 0 |-> i]]

\* again is attemptCount > 1: only the claim that creates a batch has it false.
Jobs ==
    {Idle} \union
    [pc : {"claimed", "sending", "answered"}, batch : Batches,
     payload : Payloads, again : BOOLEAN, answer : Answers,
     ids : Payloads \union {Idle.ids}]

TypeOK ==
    /\ state \in [Msgs -> States]
    /\ resendId \in [Msgs -> SUBSET Msgs]
    /\ entries \subseteq Msgs
    /\ batchOf \in [Msgs -> Batches \union {NoBatch}]
    /\ position \in [Msgs -> Nat]
    /\ row \in [Batches -> {"unused", "open", "deleted"}]
    /\ holder \in [Batches -> SUBSET Workers]
    /\ lapsed \subseteq Batches
    /\ due \subseteq Batches
    /\ expired \subseteq Batches
    /\ job \in [Workers -> Jobs]
    /\ wire \subseteq Requests
    /\ bound \in [Batches -> SUBSET Payloads]
    /\ mailed \in [Msgs -> Nat]
    /\ crashes \in 0 .. MaxCrashes

Init ==
    /\ state = [m \in Msgs |-> "ABSENT"]
    /\ resendId = [m \in Msgs |-> {}]
    /\ entries = {}
    /\ batchOf = [m \in Msgs |-> NoBatch]
    /\ position = [m \in Msgs |-> 0]
    /\ row = [b \in Batches |-> "unused"]
    /\ holder = [b \in Batches |-> {}]
    /\ lapsed = {}
    /\ due = {}
    /\ expired = {}
    /\ job = [w \in Workers |-> Idle]
    /\ wire = {}
    /\ bound = [b \in Batches |-> {}]
    /\ mailed = [m \in Msgs |-> 0]
    /\ crashes = 0

-----------------------------------------------------------------------------
(* The conversation API: what other handlers do to the lane's rows.        *)

\* createMessageV2 / sendDirectEmailV2, queued: the message and its outbox
\* entry are created in one transaction.
Enqueue(m) ==
    /\ state[m] = "ABSENT"
    /\ state' = [state EXCEPT ![m] = "PENDING"]
    /\ entries' = entries \union {m}
    /\ UNCHANGED <<resendId, batchOf, position, batchVars, expired, job, wire,
                   providerVars, crashes>>

\* Mutant: the entries' foreign key without ON DELETE CASCADE.
DeleteConversationKeepsEntries(c) ==
    LET gone == {m \in Msgs : ConvOf[m] = c}
    IN  /\ \E m \in gone : state[m] # "DELETED"
        /\ state' = [m \in Msgs |-> IF m \in gone THEN "DELETED" ELSE state[m]]
        /\ UNCHANGED <<resendId, entries, batchOf, position, batchVars, expired,
                       job, wire, providerVars, crashes>>

\* DELETE conversation: its messages go, and their outbox entries by cascade,
\* out of whatever batch they are in.  No message can be added to it later.
DeleteConversation(c) ==
    LET gone == {m \in Msgs : ConvOf[m] = c}
    IN  /\ \E m \in gone : state[m] # "DELETED"
        /\ state' = [m \in Msgs |-> IF m \in gone THEN "DELETED" ELSE state[m]]
        /\ entries' = entries \ gone
        /\ UNCHANGED <<resendId, batchOf, position, batchVars, expired, job,
                       wire, providerVars, crashes>>

-----------------------------------------------------------------------------
(* Claiming: one transaction, then the check that follows its commit.      *)

Members(b) == {m \in entries : batchOf[m] = b}

Unbatched == {m \in entries : batchOf[m] = NoBatch /\ state[m] = "PENDING"}

\* The claim first deletes unbatched entries whose message is not PENDING.
Leftover == {m \in entries : batchOf[m] = NoBatch /\ state[m] # "PENDING"}

\* Mutant: a batch whose lease lapsed is never taken over.
RetryableIfReleased == {b \in due : row[b] = "open" /\ holder[b] = {}}

Retryable ==
    {b \in Batches : /\ row[b] = "open"
                     /\ b \in due
                     /\ holder[b] = {} \/ b \in lapsed}

Claimed(b, p, again) ==
    [Idle EXCEPT !.pc = "claimed", !.batch = b, !.payload = p, !.again = again]

\* No batch is ready, or SKIP LOCKED passes over the ready ones because another
\* drain's transaction holds them: up to Limit waiting entries become a new
\* batch with fixed positions.  Which ones is left open: queued_at is arbitrary,
\* and SKIP LOCKED may pass over some of these too.
ClaimNewBatch(w) ==
    /\ job[w].pc = "idle"
    /\ Retryable = {} \/ Workers # {w}
    /\ \E b \in Batches, p \in Payloads :
          /\ row[b] = "unused"
          /\ Range(p) # {}
          /\ Range(p) \subseteq Unbatched
          /\ batchOf' = [m \in Msgs |-> IF m \in Range(p) THEN b ELSE batchOf[m]]
          /\ position' = [m \in Msgs |-> IF m \in Range(p)
                                           THEN CHOOSE i \in DOMAIN p : p[i] = m
                                           ELSE position[m]]
          /\ row' = [row EXCEPT ![b] = "open"]
          /\ holder' = [holder EXCEPT ![b] = {w}]
          /\ due' = due \union {b}
          /\ job' = [job EXCEPT ![w] = Claimed(b, p, FALSE)]
    /\ entries' = entries \ Leftover
    /\ UNCHANGED <<state, resendId, lapsed, expired, wire, providerVars, crashes>>

\* Mutant: the entries are read back in no particular order.
IsAnyPayloadOf(p, b) == Range(p) = Members(b)

\* ORDER BY batch_position over the entries that are left.
IsPayloadOf(p, b) ==
    /\ Range(p) = Members(b)
    /\ \A i, j \in DOMAIN p : i < j => position[p[i]] < position[p[j]]

\* A batch is ready: take over its lease.  A batch holding a message that is
\* not PENDING makes the claim throw after the commit, with the lease taken.
ClaimRetry(w, b) ==
    /\ job[w].pc = "idle"
    /\ b \in Retryable
    /\ holder' = [holder EXCEPT ![b] = {w}]
    /\ lapsed' = lapsed \ {b}
    /\ entries' = entries \ Leftover
    /\ \E p \in Payloads :
          /\ IsPayloadOf(p, b)
          /\ job' = IF \A m \in Range(p) : state[m] = "PENDING"
                      THEN [job EXCEPT ![w] = Claimed(b, p, TRUE)]
                      ELSE job
    /\ UNCHANGED <<state, resendId, batchOf, position, row, due, expired, wire,
                   providerVars, crashes>>

-----------------------------------------------------------------------------
(* The provider call.                                                      *)

WindowOver(w) == job[w].batch \in expired

\* Mutant: the window is not checked before a retry is sent.
SendUnchecked(w) ==
    /\ job[w].pc = "claimed"
    /\ wire' = wire \union {[worker |-> w, key |-> job[w].batch,
                             payload |-> job[w].payload]}
    /\ job' = [job EXCEPT ![w].pc = "sending"]
    /\ UNCHANGED <<tableVars, batchVars, expired, providerVars, crashes>>

Send(w) ==
    /\ job[w].pc = "claimed"
    /\ ~(job[w].again /\ WindowOver(w))
    /\ wire' = wire \union {[worker |-> w, key |-> job[w].batch,
                             payload |-> job[w].payload]}
    /\ job' = [job EXCEPT ![w].pc = "sending"]
    /\ UNCHANGED <<tableVars, batchVars, expired, providerVars, crashes>>

Answered(j, answer, ids) ==
    [j EXCEPT !.pc = "answered", !.answer = answer, !.ids = ids]

\* The 15 second timeout or a broken connection; the request may still arrive.
StopWaiting(w) ==
    /\ job[w].pc = "sending"
    /\ job' = [job EXCEPT ![w] = Answered(job[w], "retryable", Idle.ids)]
    /\ UNCHANGED <<tableVars, batchVars, expired, wire, providerVars, crashes>>

\* The answer reaches the worker only if it is still waiting for it.
Reply(r, answer, ids) ==
    LET j == job[r.worker]
        waiting == j.pc = "sending" /\ j.batch = r.key /\ j.payload = r.payload
    IN  /\ wire' = wire \ {r}
        /\ job' = IF waiting
                    THEN [job EXCEPT ![r.worker] = Answered(j, answer, ids)]
                    ELSE job

\* The provider sees the key for the first time and mails the batch.
ProviderMails(r) ==
    /\ bound[r.key] = {}
    /\ Range(r.payload) # {}
    /\ bound' = [bound EXCEPT ![r.key] = {r.payload}]
    /\ mailed' = [m \in Msgs |-> IF m \in Range(r.payload) THEN mailed[m] + 1
                                                            ELSE mailed[m]]
    /\ \/ Reply(r, "accepted", r.payload)
       \/ Reply(r, "invalid", Idle.ids)
    /\ UNCHANGED <<tableVars, batchVars, expired, crashes>>

\* It knows the key: the stored answer again, or 409 for another payload.
ProviderReplays(r) ==
    /\ bound[r.key] # {}
    /\ IF r.payload \in bound[r.key]
         THEN Reply(r, "accepted", r.payload)
         ELSE Reply(r, "conflict", Idle.ids)
    /\ UNCHANGED <<tableVars, batchVars, expired, providerVars, crashes>>

\* It fails before looking at the key (5xx, rate limit, quota, credentials,
\* validation), or the request is lost on the way.
ProviderRefuses(r) ==
    /\ \/ \E a \in {"retryable", "rejected"} : Reply(r, a, Idle.ids)
       \/ wire' = wire \ {r} /\ UNCHANGED job
    /\ UNCHANGED <<tableVars, batchVars, expired, providerVars, crashes>>

\* The provider keeps a key for 24 hours.  The hour between the 23 hour window
\* and that is longer than any request or any worker between claim and send.
ProviderForgets(b) ==
    /\ b \in expired
    /\ bound[b] # {}
    /\ \A r \in wire : r.key # b
    /\ \A w \in Workers : job[w].batch = b => job[w].pc # "claimed"
    /\ bound' = [bound EXCEPT ![b] = {}]
    /\ UNCHANGED <<tableVars, batchVars, expired, job, wire, mailed, crashes>>

-----------------------------------------------------------------------------
(* Recording the outcome: each finalizer is one transaction that throws,   *)
(* changing nothing, when the lease token is no longer on the row.         *)

\* Mutant: the finalizers look the batch up by id, without the lease token.
OwnsAnyLease(w) == job[w].pc # "idle" /\ row[job[w].batch] = "open"

Owns(w) ==
    /\ job[w].pc # "idle"
    /\ row[job[w].batch] = "open"
    /\ holder[job[w].batch] = {w}

Sent(w) == Range(job[w].payload)

PositionsOf(w, m) == {i \in DOMAIN job[w].payload : job[w].payload[i] = m}

\* deleteOwnedBatch; the entries go with the row by cascade.
RemoveBatch(b) ==
    /\ row' = [row EXCEPT ![b] = "deleted"]
    /\ holder' = [holder EXCEPT ![b] = {}]
    /\ lapsed' = lapsed \ {b}
    /\ due' = due \ {b}
    /\ entries' = entries \ Members(b)
    /\ UNCHANGED <<batchOf, position>>

\* Mutant: the outcome is written without the state = PENDING condition.
SettledUnconditionally(w, outcome) ==
    state' = [m \in Msgs |-> IF m \in Sent(w) THEN outcome ELSE state[m]]

SettledAs(w, outcome) ==
    state' = [m \in Msgs |-> IF m \in Sent(w) /\ state[m] = "PENDING"
                               THEN outcome ELSE state[m]]

\* Mutant: the worker forgets to drop what it remembers of the batch.
EndJobKeepsAnswer(w) ==
    /\ job' = [job EXCEPT ![w].pc = "idle"]
    /\ UNCHANGED <<expired, wire, providerVars, crashes>>

EndJob(w) ==
    /\ job' = [job EXCEPT ![w] = Idle]
    /\ UNCHANGED <<expired, wire, providerVars, crashes>>

\* Mutant: ids are matched to messages from the wrong end.
IdsForReversed(w, m) ==
    {job[w].ids[1 + Cardinality(Sent(w)) - i] : i \in PositionsOf(w, m)}

\* The provider's ids belong to the messages at the same places.
IdsFor(w, m) == {job[w].ids[i] : i \in PositionsOf(w, m)}

FinalizeAccepted(w) ==
    /\ job[w].pc = "answered"
    /\ job[w].answer = "accepted"
    /\ Owns(w)
    /\ \A m \in Sent(w) : state[m] = "PENDING"
    /\ SettledAs(w, "ACCEPTED")
    /\ resendId' = [m \in Msgs |-> IF m \in Sent(w) THEN IdsFor(w, m)
                                                    ELSE resendId[m]]
    /\ RemoveBatch(job[w].batch)
    /\ EndJob(w)

FinalizeFailed(w) ==
    /\ job[w].pc = "answered"
    /\ job[w].answer = "rejected"
    /\ Owns(w)
    /\ SettledAs(w, "FAILED")
    /\ RemoveBatch(job[w].batch)
    /\ UNCHANGED resendId
    /\ EndJob(w)

\* The window closed before this attempt or during it, or the key is bound to
\* another payload.
IsAmbiguous(w) ==
    \/ job[w].pc = "claimed" /\ job[w].again /\ WindowOver(w)
    \/ job[w].pc = "answered" /\ job[w].answer = "conflict"
    \/ /\ job[w].pc = "answered"
       /\ job[w].answer \in {"retryable", "invalid"}
       /\ WindowOver(w)

FinalizeIndeterminate(w) ==
    /\ IsAmbiguous(w)
    /\ Owns(w)
    /\ SettledAs(w, "INDETERMINATE")
    /\ RemoveBatch(job[w].batch)
    /\ UNCHANGED resendId
    /\ EndJob(w)

ScheduleRetry(w) ==
    /\ job[w].pc = "answered"
    /\ job[w].answer \in {"retryable", "invalid"}
    /\ ~WindowOver(w)
    /\ Owns(w)
    /\ holder' = [holder EXCEPT ![job[w].batch] = {}]
    /\ lapsed' = lapsed \ {job[w].batch}
    /\ due' = due \ {job[w].batch}
    /\ UNCHANGED <<tableVars, row>>
    /\ EndJob(w)

\* The finalizer throws: the lease was lost, or an accepted message changed.
\* The accepting finalizer is returned without await, so its rejection does not
\* reach drainEmailOutbox's catch and nothing else is recorded.
FinalizerThrows(w) ==
    /\ IsAmbiguous(w) \/ job[w].pc = "answered"
    /\ \/ ~Owns(w)
       \/ /\ job[w].answer = "accepted"
          /\ \E m \in Sent(w) : state[m] # "PENDING"
    /\ UNCHANGED <<tableVars, batchVars>>
    /\ EndJob(w)

-----------------------------------------------------------------------------
(* Crashes and the clock.                                                  *)

\* The process dies, or a database error ends the drain: only memory is lost.
Crash(w) ==
    /\ job[w].pc # "idle"
    /\ crashes < MaxCrashes
    /\ crashes' = crashes + 1
    /\ job' = [job EXCEPT ![w] = Idle]
    /\ UNCHANGED <<tableVars, batchVars, expired, wire, providerVars>>

LeaseLapses(b) ==
    /\ holder[b] # {}
    /\ b \notin lapsed
    /\ lapsed' = lapsed \union {b}
    /\ UNCHANGED <<tableVars, row, holder, due, expired, job, wire,
                   providerVars, crashes>>

RetryComesDue(b) ==
    /\ row[b] = "open"
    /\ b \notin due
    /\ due' = due \union {b}
    /\ UNCHANGED <<tableVars, row, holder, lapsed, expired, job, wire,
                   providerVars, crashes>>

WindowExpires(b) ==
    /\ row[b] # "unused"
    /\ b \notin expired
    /\ expired' = expired \union {b}
    /\ UNCHANGED <<tableVars, batchVars, job, wire, providerVars, crashes>>

Finalize(w) ==
    \/ FinalizeAccepted(w)
    \/ FinalizeFailed(w)
    \/ FinalizeIndeterminate(w)
    \/ ScheduleRetry(w)
    \/ FinalizerThrows(w)

Drain(w) ==
    \/ ClaimNewBatch(w)
    \/ \E b \in Batches : ClaimRetry(w, b)
    \/ Send(w)
    \/ StopWaiting(w)
    \/ Finalize(w)

Clock(b) == LeaseLapses(b) \/ RetryComesDue(b) \/ WindowExpires(b)

Provider ==
    \/ \E r \in wire : ProviderMails(r) \/ ProviderReplays(r) \/ ProviderRefuses(r)
    \/ \E b \in Batches : ProviderForgets(b)

Next ==
    \/ \E m \in Msgs : Enqueue(m)
    \/ \E c \in Convs : DeleteConversation(c)
    \/ \E w \in Workers : Drain(w) \/ Crash(w)
    \/ \E b \in Batches : Clock(b)
    \/ Provider

Spec == Init /\ [][Next]_vars

\* A drain that started runs to its end and a scheduler keeps starting drains;
\* the clock advances.  The lease (2 minutes) is far longer than the timeout
\* of the one request a drain makes (15 seconds), so a drain that keeps taking
\* leases is not outrun by the clock every time: strong fairness of finishing
\* while the lease is its own.  Nothing is assumed of the provider, of callers,
\* or of requests on the wire.
Fairness ==
    /\ \A w \in Workers :
          WF_vars(Drain(w)) /\ SF_vars(Owns(w) /\ Finalize(w))
    /\ \A b \in Batches :
          WF_vars(LeaseLapses(b)) /\ WF_vars(RetryComesDue(b)) /\ WF_vars(WindowExpires(b))

FairSpec == Spec /\ Fairness

-----------------------------------------------------------------------------
(* Safety.                                                                 *)

\* The provider mails no message twice: not after a timeout, a lapsed lease
\* taken over by another drain, a crash before the commit, a change of the
\* batch's payload, or the end of the provider's memory of the key.
MailedAtMostOnce == \A m \in Msgs : mailed[m] <= 1

\* A message recorded as accepted was mailed, and carries the id of its own
\* email: ids come back by position and positions survive retries.
AcceptedWasMailed ==
    \A m \in Msgs : state[m] = "ACCEPTED" => mailed[m] = 1 /\ resendId[m] = {m}

\* No message is stranded: one that awaits its outcome has an outbox entry,
\* waiting or in an open batch, and no entry outlives its message or its
\* outcome (so the claim's check for batched non-PENDING messages never fires).
PendingIffQueued ==
    /\ \A m \in Msgs : state[m] = "PENDING" <=> m \in entries
    /\ \A m \in entries : batchOf[m] # NoBatch => row[batchOf[m]] = "open"

\* A retry of a batch posts the payload its key is bound to, so the provider
\* answers 409 only when a conversation in the batch was deleted meanwhile.
ConflictOnlyAfterDelete ==
    \A w \in Workers :
        job[w].answer = "conflict" =>
            \E m \in Msgs : batchOf[m] = job[w].batch /\ state[m] = "DELETED"

\* Only the drain whose token is on the batch decides a message, whatever
\* answers older attempts still bring in.
OnlyOwnerSettles ==
    [][\A m \in Msgs :
          state[m] = "PENDING" /\ state'[m] \in Settled =>
              \E w \in Workers : /\ holder[batchOf[m]] = {w}
                                 /\ job[w].batch = batchOf[m]
                                 /\ job[w].pc \in {"claimed", "answered"}
                                 /\ job'[w] = Idle]_vars

\* The lane implements the promise of SendOutcome.
Promise == INSTANCE SendOutcome WITH outcome <- state, mails <- mailed
KeepsPromise == Promise!Spec

\* Every queued message gets an outcome, or its conversation is deleted, even
\* if the provider never answers: the window ends the retries.
QueuedSettles ==
    \A m \in Msgs : state[m] = "PENDING" ~> state[m] # "PENDING"
=============================================================================
