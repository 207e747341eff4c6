# Formal verification of the conversation email service

TLA+ specifications of this repository's service: it sends email through
Resend, gathers replies into conversations, keeps attachments in a bucket and
publishes an event feed. Paths below are relative to the repository root;
`lib/` and `routes/` stand for `src/lib/` and `src/routes/`.

Everything the service remembers is in PostgreSQL. Any number of replicas run
the same code against it, and coordinate only by transactions, row locks,
advisory locks, unique indexes and leases (a token and a time in a row). The
provider (Resend), the bucket and JetStream are outside every transaction. That
is where the difficulty lies: a call and the transaction that records it can be
separated by a crash, a timeout, another replica or a deletion.

## Inventory

| Component | State | Operations | Talks to | What makes it correct |
|---|---|---|---|---|
| Batch outbox lane, `lib/outbox-service.ts` | `email_outbox_batches`, `email_outbox_entries`, message state | claim a new or a retryable batch, post it, record the outcome, retry, give up | provider (one key per batch), delivery state | a message is mailed once, gets one outcome from the owner of the lease, its own Resend id, and is never stranded |
| Attachment outbox lane, `lib/attachment-outbox-service.ts` | `email_attachment_outbox_entries` | the same, one message per call | provider (one key per message), attachment store | the same, with the attachments |
| Send endpoints, `lib/conversation-v2.ts`, `lib/direct-email-v2.ts` | messages with key and request hash, topics | open, reply, send directly; replay; reopen a failed topic | both lanes, synchronous delivery | one message per key over both lanes, one live opening per topic |
| Synchronous delivery, `lib/conversation-service.ts` | message state | deliver under an advisory lock, recover a PENDING message | provider (one key per message) | at most one mail, final outcomes |
| Inbound threading, `lib/email/conversations.ts` | conversations, parents, routing aliases | project an inbound email, record an outbound RFC id, merge | webhook intake, everything that holds a conversation id | threads stay together, participants apart, tokens resolve |
| Conversation and delivery state, `lib/email/delivery.ts`, `conversation-state.ts`, the state route | conversation state, delivery state, webhook events | reduce events, terminate, hand the turn over, override | acceptances, webhooks, merges | converges to the events, a bounce ends the conversation |
| Event feed, `lib/conversation-events.ts`, `conversation-event-runtime.ts` | events, deliveries with leases, a sequence per conversation | append in the changing transaction, lease, publish, acknowledge, retry | JetStream | in order, without gaps, at least once |
| Attachment store, `lib/attachments/` | attachment rows, tombstones, objects | upload, claim, ingest, expire, bury, reap | bucket, provider, sends | a message has its attachments; no object is lost or left over |
| Webhook intake, `routes/webhooks/resend/v1` | recorded events | verify, record, fetch, hydrate, project | provider (received and sent emails), threading, delivery state | nothing answered with 200 is lost, a reply finds the email it answers, refusals end |
| Drain schedule, `lib/outbox-drain-scheduler.ts` and the drain route | a running flag per process | tick, rounds over both lanes, stop | both lanes | what is queued gets its outcome, through errors, restarts and crashes |
| Conversation routes | topics, rows | assign, override, delete | everything | deletion takes everything along |
| Allowlist, validation, read routes, telemetry, configuration | none that matters here | | | not modelled |

Hard behaviours: two drains with one batch after a lease lapsed; a call that
arrives after its caller gave up; the provider forgetting keys after 24 hours; a
conversation deleted or merged between any two steps; webhooks before, during
and after the acceptance they are about; an object and its row changed by
different runtimes; unpublished events overtaken by their conversation's
deletion; a reply that arrives before the id of the email it answers is known; a
tick that fails between its lanes. `PROJECT.json` lists them under `hazards`, each at its line.

## Modules

| Module | Models | Notes |
|---|---|---|
| `EmailOutbox` | the batch lane | a worker is one drain; each transaction is one step, the provider call a request on the wire |
| `OutboxDrain` | the schedule, its loop over both lanes, the drain route, start and stop | extends `EmailOutbox`, whose actions are the batch lane; the attachment lane by its promise |
| `SendOutcome` | abstract | what a queued send promises: one mail, one outcome, `ACCEPTED` only if mailed |
| `AttachmentOutbox` | the attachment lane | refines `SendOutcome` as well |
| `SynchronousSend` | delivery within a request, replays | has no `Next` of its own: its steps are composed in |
| `SendRequests` | the send endpoints | extends `SynchronousSend`; the outbox lane is there by its promise |
| `Threading` | inbound projection, RFC ids, merges | refines `MailThreads` |
| `MailThreads` | abstract | conversations as a partition of the emails that is only ever made coarser, and never joins two topics |
| `WebhookIntake` | a received email, from webhook to conversation | one action per await; threading by headers, in short |
| `ConversationState` | states of conversations and of deliveries | read-committed transactions in two steps |
| `ConversationEvents` | the event feed | |
| `AttachmentStore` | attachments, objects, tombstones, ingest, reaper | |
| `EmailOutboxProofs` | theorems about `EmailOutbox` and `OutboxDrain` | see *Proofs* for this and the next seven |
| `AttachmentOutboxProofs`, `SendRequestsProofs`, `ThreadingProofs`, `WebhookIntakeProofs`, `ConversationStateProofs`, `ConversationEventsProofs`, `AttachmentStoreProofs` | theorems about the module each is named for | |

`MC*` modules give the constants values; a `.cfg` is one instance of one of them.
`PROJECT.json` maps each definition to the lines it models.

### Correspondence

*Time.* No module has a clock. What the code decides by comparing times is a
fact that may become true: a lease `lapsed`, a retry is no longer `delayed`, a
window `expired`, a message is `aged`, an upload is `old`. The facts are
independent, so every skew and pause is covered. Two orders of time are kept: the
provider forgets a key only after the 23 hour window of the messages under it is
over and no call sent within it is still on the wire (24 hours against 23), and a
request is over before the message it stored is 23 hours old.

*The provider.* A call is in `wire` until the provider takes it. It may be mailed
and answered, mailed with the answer lost, answered from the memory of its key,
refused, or dropped; the caller may stop waiting at any time and the call may
still arrive. `mailed` counts emails per message. These actions are external: they
are modelled from what `lib/email/resend-client.ts` and the callers expect.

*Rows.* States `ABSENT` and `DELETED` (`GONE`) stand for no row. A nullable
column is `{}`, `Nobody`, `None` or the like. Deleting a conversation takes
messages, entries and attachments along by cascade, and leaves tombstones by trigger.

*Crashes.* A worker forgets what it knew; what it had committed stays. An open
transaction is rolled back.

*Transactions.* A transaction whose outcome does not depend on what others do
inside it is one step: it locks the rows it reads, or it is serializable and
retried. The exceptions are modelled in several steps. In `ConversationState`
the projection of delivery events is read-committed and takes a lock that is not
the conversation's; its own first write is uncommitted until the end. In
`SynchronousSend` the provider is called inside the transaction. In
`SendRequests` the look-ups before the inserting transaction are separate steps. In
`AttachmentStore` no two statements on rows and objects share a step. In
`WebhookIntake` each await of the handler is a step, but for those that read nothing
another request can change (the ledger row, `getReceived`), which are part of the
next one's.

*The schedule.* A scheduler of `OutboxDrain` is a process: it is down, waits for its cron, or is
in the batch lane or the attachment lane of a round. In the batch lane it is a worker of
`EmailOutbox` and takes that module's steps; a claim or finalizer that
throws ends the tick. Workers that are not scheduled are calls of the drain
route. A message with attachments is due, left for later, or settled: a run of
the attachment lane takes up to `Limit` of them and may throw.

*The intake.* `sent` and `known` are the rows of the emails the service sent, numbered by
age; `old` is how many are past the 24 hours after which they are not worth
refusing a webhook for. A handler's `call` holds what it read and may be
stale: the candidates it `seen`, the answers still `todo`. `Fail` is every way a
request ends without a 200 that is not the handler's own refusal.

The merge argument of `Threading`: a merge is serializable and writes the rows of
all conversations involved. Every handler that stores a message in a
conversation updates that conversation's row in the same transaction, so one of
the two waits and then fails or sees the other's result. An inbound projection is
tried three times, and its webhook again after that; a failed recording of an RFC
id leaves the id unknown.

## What the runs check

| Run | States | Question |
|---|---|---|
| `EmailOutbox` | 565 k | two drains, one batch of two messages of two conversations, one crash |
| `OutboxDrain` | 121 k | a scheduler and a caller of the drain route, one message per lane, two rounds per tick, one crash or restart |
| `AttachmentOutbox` | 18 k | the same questions for the attachment lane, one message, two drains |
| `SendRequests` | 668 k | two requests at a time, three messages and keys, one topic |
| `Threading` | 596 k | four emails, two participants in up to three of them, three conversation rows |
| `WebhookIntake` | 518 k | two requests, two replies, two sent emails and a limit of one, one failure or deletion |
| `ConversationState` | 1.0 M | two conversations, two messages, two transactions, two events, no event sinks |
| `BounceLost` | | violation, see below |
| `ConversationEvents` | 93 k | two replicas on one conversation, or one on two; three events, a deletion, a crash |
| `AttachmentStore` | 30 k | two uploads, two sends and the reaper, or two ingest runtimes on one inbound attachment |
| `AttachmentIngestLost` | | violation, see below |
| `AttachmentOutboxWhole` | | violation, see below |

*Promise of the lanes.* `KeepsPromise` says the lane implements `SendOutcome`
under the mapping `outcome <- state, mails <- mailed`. `MailedAtMostOnce`,
`AcceptedWasMailed` (which includes that the Resend id is the message's own),
`PendingIffQueued` (no message is stranded without an entry, and no entry
outlives its message; in `AttachmentOutbox` a part of `TypeOK`), `OnlyOwnerSettles` (a drain that lost its lease decides
nothing) and `ConflictOnlyAfterDelete` (the provider sees another payload under a
batch's key only if a conversation was deleted) are stated apart because they
fail for different reasons.

*Schedule.* `QueuedSettles` and, for the attachment lane, `ParcelsSettle`: what is queued
gets an outcome although only the cron starts drains, ticks end with errors, the
process is killed or restarted, the provider may never answer, and the lane
that runs first may fail. They rest on the guard being reset after an error
and on batches being leased again. `DrainTypeOK` includes that a tick has rounds to
go and that a scheduler holds a batch only in that lane's phase.

*Requests.* `MailedAsRecorded` (at most one mail, and one if `ACCEPTED`) holds over both lanes, though their calls have
different provider keys: it rests on the operation being part of the request
hash. `OneOpening`: of the openings of a topic at most one is not `FAILED`.
`OutcomeStays`: `ACCEPTED` and `FAILED` are final.

*Threads.* `KeepsThreads`: conversations only grow by whole conversations, or are
deleted. `OneParticipant`: they never mix senders. `RepliesJoined`: an email and the one it
answers are in one conversation, whatever order they came in, unless participants
differ or the reply's conversation was given a topic. `TokensResolve`: a token that was sent out leads to the
conversation that took its own in. `KeepsThreads` also says that two conversations with
topics are never made one.

*Intake.* `TakenWasStored`: an email whose webhook got a 200 was stored, whichever request
answered and whoever else recorded the event. `NotSetApart`: a reply starts a
conversation of its own only if none of the emails it names is one that the handler should
have waited for; this is what refusing the webhook is for. `WebhooksTaken`: refusing ends, even if Resend
never answers for a sent email.

*States.* `Converges`: the delivery state of an accepted message is the reduction of its
stored events, in every committed state. `BounceEndsUnlessMerged`: the
commit that records a bounce ends the conversation the message is in at that moment, whatever
was done to it since it was read, unless it was merged away; that it ends then too
(`BounceTerminates`) is true only with event sinks, see `BounceLost`. `TerminatedStays`: an ended conversation stays ended through
replies, inbound mail and merges, until an operator overrides it, or a
failed topic is reopened.

*Feed.* `FeedInOrder`: without its deletion event a conversation's feed is in sequence order
and without gaps: no event is there twice, and each comes after all that precede it. `OneStraggler`: at most one event follows a deletion. `EventsArrive`: the
runtime catches up with each conversation again and again.

*Attachments.* `MessageComplete`: a message that was stored has every upload its
request named, until it is deleted. `UploadAccounted`: an object of an upload has a
row, a tombstone, or someone who is about to make one. `UploadsReaped`: the object
of a deleted upload goes, for good. `StoredStays`: no late ingest changes a stored
attachment. `PendingSettles`: an inbound attachment is stored, fails or is deleted.

Each property is broken by a mutant of a definition, marked `Mutant` in front of
the definition it changes.

### Bounds

*Two actors* are enough for every race here, as the code's own critical sections
are pairwise: a lease has one holder and one who thinks it is. A late call stays on
the wire after its worker goes on, so there can be more calls than workers.

*Outbox.* Two messages of two conversations in one batch tell ids and positions
apart, and let one member vanish while the other stays. One batch id: batches share
nothing but the entries still unassigned. One crash, since a crashed worker
is a fresh one.

*Requests.* `Bound` in `MCSendRequests` admits one synchronous message, and a
third message and key for openings that race through the outbox to reopen one
topic (`FirstLiveIn`, a mutant, needs all three). The delivery of one synchronous
message is fully interleaved with every admission.

*Threading.* Four emails hold a parent, a child, a late outbound id and a second merge.
With four, all are of one participant; mixing participants takes three.

*States.* Two events, of one email: any two of delivered, delayed and bounced, in both
orders and repeated. The second message is what merges, replies and reopening
need. `EventSinks` is `FALSE`, the default: all behaviours with sinks are among those without.

*Events.* Three events, of which one may be the deletion. `Bound` takes either two
replicas and a crash on one conversation, or one replica on two that are merged. What
`EventsArrive` shows, it shows of the first: in the second the other replica is kept
from moving, so no behaviour there is fair.

*Attachments.* Sharing needs two uploads and two sends; ingest two attempts and two workers.
`Bound` keeps the two apart by what clients and participants do, never by a
runtime's step, so fairness is not affected.

*Schedule.* One message in each lane: what is queued together is claimed together or
in another round, and the batch lane itself is the question of `EmailOutbox`. Two
rounds, so that a tick can stop early or at its cap. `Bound` lets a message with
attachments be queued when no call of the drain route is left over; no caller
of the route is assumed to come.

*Intake.* `Limit` is 10 in the code and 1 here, with two sent emails: the one
beyond the limit exists, is older, and is the one the first reply answers. The second
reply answers the first. `Bound` allows one failure or one deletion in a behaviour; refusals by
the handler are not counted. With a single reply and three sent emails the safety
properties hold as well.

### Fairness

Stated once per module, in `Fairness`; safety never uses it. Drains, runtimes and
reapers are started by a timer in every replica again and again, and one that has
claimed something runs to its end or crashes: some next step of each worker is
weakly fair. Leases lapse, delays and windows end: weakly fair. That alone lets
each drain be overtaken by the end of its lease for ever, so the step with which a
worker that still owns its lease records a result (`Finalize`, `Finish`, `Record`,
`AcknowledgeOwned`, `Forget`), or moves an object under it, is strongly fair: leases
are longer than the timeout of the call made under them, and a worker that
gets there again and again is in time once. In `OutboxDrain` the cron's tick, the restart of a process and the steps of a tick are
weakly fair; a claim, which `SKIP LOCKED` may pass over while another transaction has the
row, and the attachment lane's turn are strongly fair. Nobody has to call the drain
route. That a message of the attachment lane is not put off for ever
(`<>[](parcel[a] # "later")`) is taken from `AttachmentOutbox`, where the provider's window ends it.
In `WebhookIntake` time passes, requests move on, and Resend repeats a webhook until
it is taken (for how long it really does is not in this repository; the refusals
can last a day). Failures are bounded; retrieving sent emails need never work. The email provider need never answer: the
caller's timeout does, and attempts are limited. The broker must:
`Publish` and `BrokerAnswers` under an owned lease are strongly fair, since a stream that
never accepts an event delivers none. Crashes are bounded.

## Disagreements found

Checked by a run:

* **A stored attachment can lose its object** (`AttachmentIngestLost`,
  `lib/attachments/ingest-runtime.ts:136`). An ingest that finds its lease lost puts a
  tombstone on the storage key. The comment says the other worker "will write its
  own object"; both write the same key. If the other has stored it, the reaper
  deletes the bytes of a `STORED` attachment.
* **A message can be mailed without its attachments** (`AttachmentOutboxWhole`,
  `lib/attachment-outbox-service.ts:80`). Its conversation is deleted after the claim;
  `buildSendAttachments` finds no rows and the email goes out bare.
  `docs/api-consumer-guide.md:357`: "a partially-attached email is never delivered".

* **A bounce can fail to end its conversation** (`BounceLost`, `lib/email/delivery.ts:140`).
  The conversation is read at `:102`; a merge that commits before `:140` moves the message and
  deletes the row, so no row matches and the surviving conversation goes on.
  `docs/api-consumer-guide.md:324` has a bounced, complained or suppressed delivery set
  `terminated`. With event sinks the append at `:124` throws on the missing row and the
  webhook is repeated; without any, the default, it returns null
  (`lib/conversation-events.ts:82`). `EventSinks` is the constant for this.

Met while modelling, and visible in the models, without a run of their own:

* `FAILED` does not mean not mailed (`lib/outbox-service.ts:90`,
  `lib/conversation-service.ts:60`): an attempt whose answer was lost may have been
  mailed, and the next one refused. A synchronous send takes even a 409 for a
  concurrent call with its key for a failure, which the outbox retries
  (`lib/outbox-service.ts:390`). The topic can then be reopened and gets
  a second opening email. `SendOutcome` therefore promises nothing of `FAILED`,
  and `OneOpening` is about recorded outcomes.
* `INDETERMINATE` is not terminal for synchronous sends: `lib/conversation-service.ts:45`
  updates by id alone what a replay marked at `:137`
  (`docs/api-consumer-guide.md:506`).
* `conversation.deleted` may be followed by one event whose publication had
  begun (`docs/api-agent-handoff.md:184`); `OneStraggler` says it is at most one.
* An object of a deleted inbound attachment can stay: an ingest puts it after the
  tombstone was processed, or while it is leased and the new tombstone is a
  duplicate (`lib/attachments/reaper.ts:132`, `docs/api-consumer-guide.md:421`).
* `reopenFailedConversation` moves a `TERMINATED` conversation
  (`lib/conversation-v2.ts:374`, `docs/api-consumer-guide.md:326`).
* A repeated webhook of a bounced email ends the conversation again after an
  operator reopened it (`routes/webhooks/resend/v1/route.ts:33`).
* A tick can stop before its cap with a backlog left (`lib/outbox-drain-scheduler.ts:107`):
  a batch counts as claimed the messages it had when it was claimed, so a retry that claims
  a batch whose messages have all been deleted reports 0, which the loop takes for an empty
  outbox (`README.md:610`; the `hollow` rounds of `OutboxDrain`). The next tick goes on,
  as `QueuedSettles` shows. A deletion during the provider call does not do this.
* Where a reply lands can depend on the order of arrival once topics are
  assigned (`lib/email/conversations.ts:265`): `RepliesJoined` leaves out
  conversations with topics.
* A reply can be stored apart from the email it answers when that one's acceptance is
  recorded after the handler read its candidates (`lib/email/conversations.ts:162`), or when
  it is a day old; it is joined when the id is learnt by another path. A Reply-To
  token, if the client kept it, finds the conversation regardless.
* An email whose webhook is posted again after its conversation was deleted, the
  first 200 having been lost, is stored anew (`lib/email/conversations.ts:381`,
  `docs/api-agent-handoff.md:184`).
* `src/lib/send-validation.ts:356` excludes the letter `s` from content ids (`/[s<>]/`) where
  `lib/attachments/projection.ts` excludes white space (`/[\s<>]/`).
* An Idempotency-Key is forgotten with its conversation.

## Proofs

The runs check small instances; the theorems hold for every value of the
constants: any number of messages, workers, conversations, replicas, events and
crashes. Every invariant and every step property of the runs that are expected to
pass is proved, and so is each of the refinements.

| Module | Theorem | Says |
|---|---|---|
| `EmailOutboxProofs` | `TypeCorrect` | `Spec => []TypeOK` |
| | `MailsOnce` | `Spec => []MailedAtMostOnce` |
| | `AcceptedMeansMailed` | `Spec => []AcceptedWasMailed` |
| | `NothingStranded` | `Spec => []PendingIffQueued` |
| | `ConflictsExplained` | `Spec => []ConflictOnlyAfterDelete` |
| | `OwnerSettles` | `Spec => OnlyOwnerSettles` |
| | `Implements` | `Spec => KeepsPromise`: the lane refines `SendOutcome` |
| | `DrainTypeCorrect` | `DrainSpec => []DrainTypeOK` |
| | `DrainKeepsLane` | the four invariants from `MailsOnce` to `ConflictsExplained`, of `DrainSpec` |
| | `DrainImplements` | `DrainSpec => KeepsPromise` |
| `AttachmentOutboxProofs` | `TypeCorrect` | `Spec => []TypeOK` |
| | `MailsOnce` | `Spec => []OneMail`: at most one mail per message, and a message that is `ACCEPTED` was mailed |
| | `Implements` | `Spec => KeepsPromise` |
| `SendRequestsProofs` | `TypeCorrect` | `AdmissionSpec => []AdmissionTypeOK` |
| | `MailsOnce` | `AdmissionSpec => []MailedAsRecorded` |
| | `OneOpeningEach` | `AdmissionSpec => []OneOpening` |
| | `OutcomesStay` | `AdmissionSpec => OutcomeStays` |
| `ThreadingProofs` | `TypeCorrect` | `Spec => []TypeOK` |
| | `ParticipantsApart` | `Spec => []OneParticipant` |
| | `AnswersJoined` | `Spec => []RepliesJoined` |
| | `TokensLead` | `Spec => []TokensResolve` |
| | `Implements` | `Spec => KeepsThreads`: threading refines `MailThreads` |
| `WebhookIntakeProofs` | `TypeCorrect` | `Spec => []TypeOK` |
| | `TakenStored` | `Spec => []TakenWasStored` |
| | `SetApartOnlyWhenOld` | `Spec => NotSetApart` |
| `ConversationStateProofs` | `TypeCorrect` | `Spec => []StateTypeOK` |
| | `EventsConverge` | `Spec => []Converges` |
| | `BouncesEndUnlessMerged` | `Spec => BounceEndsUnlessMerged` |
| | `BouncesEndWithSinks` | `Spec => BounceTerminates`, assuming `EventSinks` |
| | `EndsStay` | `Spec => TerminatedStays` |
| `ConversationEventsProofs` | `TypeCorrect` | `Spec => []TypeOK` |
| | `EventsInOrder` | `Spec => []FeedInOrder` |
| | `StragglersEnd` | `Spec => []OneStraggler` |
| `AttachmentStoreProofs` | `TypeCorrect` | `Spec => []TypeOK` |
| | `MessagesWhole` | `Spec => []MessageComplete` |
| | `UploadsAccounted` | `Spec => []UploadAccounted` |
| | `StoredIsFinal` | `Spec => StoredStays` |

*Assumptions.* Only the named `ASSUME`s of the modules. They say that a name for
"none" (`NoBatch`, `NoMessage`, `Nobody`, `NoKey`, `None`) is not one of the things it
stands apart from, that kinds of names do not overlap, that bounds are numbers
(and `Limit`, `MaxBatches`, `MaxAttempts` positive, as the configuration code enforces),
that `EventSinks` is a Boolean, and that `ConvOf` and `References` are functions. TLC evaluates them in every run.

*Shape.* Each module has an inductive invariant `IInv`, a conjunction of named
parts, which TLC checked on the module's run before it was proved. Each step has one
proof step per action. Where one argument serves many actions, it is a
lemma about what the actions have in common (`StepFacts`, `MailKept`, `QueueKept`, ...).

### Why each needs more than its properties

*Batch lane.* At most one mail needs that a message has been mailed only under the key of
the batch it is in (`OneKey`, `MailInv`): that a batch, once a message left it, is
never joined again, that the key is known to the provider for as long as a drain
may still post under it, and that every payload under it has the
batch's messages. `AckInv` carries the provider's answer to the worker: a worker that holds
an acceptance holds it for a batch whose messages were mailed. `QueueInv` ties
entries, batches and states: it needs that a batch's row stays while it has entries.
`ConflictsExplained` needs `KeyInv`: until one of a batch's messages is deleted, all
that is remembered by a drain, on the wire or bound at the provider under its key
consists of all its messages, in the order of their positions. There is only one such
payload (`SamePayload`, by a least place where two would differ), so the provider sees no other.

*Schedule.* `OutboxDrain` does not repeat the argument. Each of its steps is a step of
`EmailOutbox`, leaves its variables alone, or only counts a restart as a crash (`LaneOrCrash`).
`ClaimNothing` removes orphaned entries, and by `PendingIffQueued` there are none. So
`IInv` is an invariant of `DrainSpec` as well, and what follows from it holds there.

*Attachment lane.* The same without batches: a message was mailed once at most, and
then either its key is bound or nobody can post it again (`Sealed`): its window is over,
no call is on the wire, and a drain that has it knows that it was attempted. The type
invariant already says that entries and `PENDING` messages are the same. `OneMail` adds the
record: a message becomes `ACCEPTED` only by a drain that heard so.

*Requests.* `SendInv` is the synchronous delivery: while a request holds the message's lock and calls the
provider, nobody else records an outcome but to give the message up or delete it; a call
on the wire finds the key of a mail that was sent. `OpeningInv` says that all openings of
a topic are in the conversation that holds it and all but one are `FAILED`; `SeekInv` that what a
request found before the inserting transaction still has the topic or is deleted.

*Threading.* `HeaderInv`, `ParentInv` (a recorded parent is what the header names, in the same
conversation), `AliasInv` (an alias leads from a conversation that is gone to one that is there) and
`LiveInv` (no conversation is empty). `Implements` shows that projecting, recording and merging map to joining
whole conversations, no two of them with topics, and deletion to removing one.

*Intake.* A handler that will answer 200 has stored the email, or it was deleted (`StoredOk`). One that will not
refuse either found an email the reply names, has one to record, or had no recent candidate
among those it missed (`LookOk`): this carries what was read before the awaits to the decision after them.

*States.* `ReadInv` is the argument for the lock on the email: what a transaction read under it is
still so when it writes, and the conversation it read is the message's or is gone: from this
both theorems about bounces follow, since with sinks a commit needs that conversation. `TxInv`
keeps two acceptances of one message apart.

*Feed.* `HandInv`: an event that a worker holds, or whose publication is under way, has all earlier ones
in the feed, the deletion excepted. `RowsInv` says which rows a conversation has left.
`StragglerInv`: once an event follows the deletion, no event under way is new. That is why there is one straggler
however many replicas hold events.

*Attachments.* `UploadInv` and `ReaperInv`: tombstones and reapers are after dead uploads only, those without a row
that will not get one. So an object that a message needs is never the reaper's.

### What the proofs changed

`ConversationState!Merged` had a `CASE` with overlapping guards, whose value TLA+ leaves open: it is
now a chain in the order of `MERGE_PRECEDENCE` (`lib/email/conversation-state.ts`), as the code is.
`FeedInOrder` and parts of `MailThreads` are stated without `SelectSeq` and cardinalities; TLC confirmed
that they are the same on the runs. `StateTypeOK` says of `stored` what was missing to be inductive.

### Model-checked only

* Liveness: `QueuedSettles`, `ParcelsSettle`, `EventsArrive`, `UploadsReaped`, `PendingSettles`,
  `WebhooksTaken`. They need fairness and `ENABLED`, which the prover does not treat.
* The three runs that show a disagreement: their properties are false.
* That the values the `MC` modules choose reach the interesting cases, which the mutants show.

The library's induction theorems take an operator as parameter and cannot be used with the provers at hand;
where a proof needs a least or greatest number it gets it from the well-foundedness of `<` on the naturals.

## Not modelled, and limits

The allowlist and its locks; parsing of the schedule; signatures of webhooks; V1 data; the
contents of requests, emails and event payloads; more than one reply-to base
address; more than one event sink; the read routes; contact and domain webhooks;
database deadlocks (a victim is a transaction that did not happen). A
process that dies between `put` and the row of an upload leaves its object for
good, in the code as in the model (`UploadAccounted` excuses it by name).
`SendRequests` has no inbound replies, which only keep a topic from
being reopened, and no merges.

## Plan

Done, in this order: `SendOutcome` and `EmailOutbox` with its proofs, the lane
that promises each request one email; `ConversationEvents`; `AttachmentStore`;
`AttachmentOutbox`; `SynchronousSend` and `SendRequests`, which composes it;
`MailThreads` and `Threading`; `ConversationState`; `OutboxDrain`, which composes the
schedule with `EmailOutbox`; `WebhookIntake`.

The proofs: the batch lane; the refinement and safety of the attachment lane, the
requests, threading, the intake, states, the feed and attachments; the schedule on
top of the batch lane.

Next, of the proofs: in `ConversationEvents` that an acknowledged event is in the feed and that a delivery is
held by one replica, as properties of their own; in `AttachmentStore` what an inbound object that no row
refers to can be; in `OutboxDrain` that both lanes together keep one promise.

Left of the model: the allowlist's locks in `SendRequests`; a composition of
`Threading` with `ConversationState`, so that only the merges that can happen do;
inbound replies in `SendRequests`; tokens in `WebhookIntake`.
