-------------------------- MODULE ConversationEvents --------------------------
(***************************************************************************)
(* The conversation event feed (lib/conversation-events.ts and             *)
(* lib/conversation-event-runtime.ts): the transaction that changes a      *)
(* conversation appends numbered events with one delivery record each; the *)
(* runtime of every replica leases the oldest unpublished delivery of each *)
(* conversation, publishes it to JetStream and records the result.         *)
(*                                                                         *)
(* A worker is the runtime of one replica: its running flag admits one     *)
(* drain at a time.  The events a transaction appends are numbered under   *)
(* the row lock of its conversation, so appends to one conversation are    *)
(* serial.  Timestamps are abstracted to two facts about a delivery: its   *)
(* lease lapsed, its next attempt lies in the future.                      *)
(***************************************************************************)
EXTENDS Naturals, Sequences, SequencesExt

CONSTANTS
    Convs,      \* conversations
    Workers,    \* replicas with a running event runtime
    MaxEvents,  \* bound on the events of a conversation before its last one
    MaxCrashes  \* bound on the number of worker crashes

ASSUME EventBounds == MaxEvents \in Nat /\ MaxCrashes \in Nat

\* An event is named by its conversation and its sequence number.
Events == Convs \X (1 .. MaxEvents + 1)

VARIABLES
    conv,       \* the conversation's row: absent, live, merged away, deleted
    sequence,   \* email_conversations.event_sequence
    rows,       \* events with a row (and so a delivery record)
    published,  \* deliveries with published_at set
    holder,     \* lease_token: the worker that made it, {} for NULL
    lapsed,     \* deliveries with lease_until <= now
    delayed,    \* deliveries with next_attempt_at > now
    todo,       \* deliveries a worker has claimed and not yet published
    job,        \* the delivery a worker is publishing
    wire,       \* publish requests on their way to JetStream
    feed,       \* per conversation: the events stored, without repetitions
    crashes     \* worker crashes so far

convVars == <<conv, sequence, rows>>
deliveryVars == <<published, holder, lapsed, delayed>>
vars == <<convVars, deliveryVars, todo, job, wire, feed, crashes>>

Resting == [stage |-> "resting"]

Jobs == {Resting} \union
        [stage : {"publishing", "stored", "failed"}, event : Events]

TypeOK ==
    /\ conv \in [Convs -> {"absent", "live", "merged", "deleted"}]
    /\ sequence \in [Convs -> 0 .. MaxEvents + 1]
    /\ rows \subseteq Events
    /\ published \subseteq rows
    /\ holder \in [Events -> SUBSET Workers]
    /\ lapsed \subseteq rows
    /\ delayed \subseteq rows
    /\ todo \in [Workers -> SUBSET Events]
    /\ job \in [Workers -> Jobs]
    /\ wire \subseteq Workers \X Events
    /\ feed \in [Convs -> Seq(1 .. MaxEvents + 1)]
    /\ crashes \in 0 .. MaxCrashes

Init ==
    /\ conv = [c \in Convs |-> "absent"]
    /\ sequence = [c \in Convs |-> 0]
    /\ rows = {}
    /\ published = {}
    /\ holder = [e \in Events |-> {}]
    /\ lapsed = {}
    /\ delayed = {}
    /\ todo = [w \in Workers |-> {}]
    /\ job = [w \in Workers |-> Resting]
    /\ wire = {}
    /\ feed = [c \in Convs |-> <<>>]
    /\ crashes = 0

-----------------------------------------------------------------------------
(* The transactions that append events.                                    *)

\* appendConversationEvent, added[c] times for each conversation c: number,
\* event row and delivery record.
AppendTo(added) ==
    /\ sequence' = [c \in Convs |-> sequence[c] + added[c]]
    /\ rows' = rows \union
          {e \in Events : /\ sequence[e[1]] < e[2]
                          /\ e[2] <= sequence[e[1]] + added[e[1]]}

Only(c, n) == [d \in Convs |-> IF d = c THEN n ELSE 0]

\* CREATED and the event of the first message, with the conversation's row.
Create(c) ==
    /\ conv[c] = "absent"
    /\ MaxEvents >= 2
    /\ conv' = [conv EXCEPT ![c] = "live"]
    /\ AppendTo(Only(c, 2))
    /\ UNCHANGED <<deliveryVars, todo, job, wire, feed, crashes>>

\* A later transaction: a message with or without the state change it causes, a
\* state change, an assignment or a delivery update.
Record(c, n) ==
    /\ conv[c] = "live"
    /\ n \in 1 .. 2
    /\ sequence[c] + n <= MaxEvents
    /\ AppendTo(Only(c, n))
    /\ UNCHANGED <<conv, deliveryVars, todo, job, wire, feed, crashes>>

\* Thread reconciliation moves some conversations into another: each gets a
\* MERGED event, and the rows of the first go while their events stay.  When an
\* inbound message causes the merge, its n events follow in the transaction.
Merge(gone, to, n) ==
    /\ gone # {} /\ to \notin gone
    /\ \A c \in gone \union {to} : conv[c] = "live"
    /\ n \in 0 .. 2
    /\ sequence[to] + 1 + n <= MaxEvents
    /\ conv' = [c \in Convs |-> IF c \in gone THEN "merged" ELSE conv[c]]
    /\ AppendTo([c \in Convs |-> CASE c \in gone -> 1
                                   [] c = to -> 1 + n
                                   [] OTHER -> 0])
    /\ UNCHANGED <<deliveryVars, todo, job, wire, feed, crashes>>

History(c) == {e \in rows : e[1] = c}

\* DELETE conversation: DELETED is appended, every earlier event is purged
\* (their deliveries by cascade), then the conversation's row goes.
Delete(c) ==
    /\ conv[c] = "live"
    /\ conv' = [conv EXCEPT ![c] = "deleted"]
    /\ sequence' = [sequence EXCEPT ![c] = @ + 1]
    /\ rows' = (rows \ History(c)) \union {<<c, sequence[c] + 1>>}
    /\ published' = published \ History(c)
    /\ holder' = [e \in Events |-> IF e \in History(c) THEN {} ELSE holder[e]]
    /\ lapsed' = lapsed \ History(c)
    /\ delayed' = delayed \ History(c)
    /\ UNCHANGED <<todo, job, wire, feed, crashes>>

-----------------------------------------------------------------------------
(* The runtime's drain.                                                    *)

Unpublished == rows \ published

\* Mutant: the claim forgets NOT EXISTS (an older unpublished delivery).
ClaimableOutOfOrder ==
    {e \in Unpublished \ delayed : holder[e] = {} \/ e \in lapsed}

\* Mutant: a delivery whose lease lapsed is never taken over.
ClaimableIfReleased ==
    {e \in Unpublished \ delayed :
        /\ holder[e] = {}
        /\ ~ \E older \in Unpublished : older[1] = e[1] /\ older[2] < e[2]}

Claimable ==
    {e \in Unpublished \ delayed :
        /\ holder[e] = {} \/ e \in lapsed
        /\ ~ \E older \in Unpublished : older[1] = e[1] /\ older[2] < e[2]}

\* claimDeliveries: any of the claimable deliveries, since LIMIT and SKIP
\* LOCKED may pass over some.
Claim(w) ==
    /\ todo[w] = {} /\ job[w] = Resting
    /\ \E S \in SUBSET Claimable :
          /\ S # {}
          /\ todo' = [todo EXCEPT ![w] = S]
          /\ holder' = [e \in Events |-> IF e \in S THEN {w} ELSE holder[e]]
          /\ lapsed' = lapsed \ S
    /\ UNCHANGED <<convVars, published, delayed, job, wire, feed, crashes>>

\* sink.publish: the deliveries of a batch are published one by one.  They
\* belong to different conversations, so their order is left open.
Publish(w, e) ==
    /\ job[w] = Resting
    /\ e \in todo[w]
    /\ todo' = [todo EXCEPT ![w] = @ \ {e}]
    /\ job' = [job EXCEPT ![w] = [stage |-> "publishing", event |-> e]]
    /\ wire' = wire \union {<<w, e>>}
    /\ UNCHANGED <<convVars, deliveryVars, feed, crashes>>

Waiting(w, e) == job[w].stage = "publishing" /\ job[w].event = e

\* The request arrives.  A consumer drops an event id it has seen.
Stored(w, e) ==
    /\ <<w, e>> \in wire
    /\ wire' = wire \ {<<w, e>>}
    /\ feed' = IF Contains(feed[e[1]], e[2])
                 THEN feed
                 ELSE [feed EXCEPT ![e[1]] = Append(@, e[2])]

BrokerAnswers(w, e) ==
    /\ Waiting(w, e)
    /\ Stored(w, e)
    /\ job' = [job EXCEPT ![w].stage = "stored"]
    /\ UNCHANGED <<convVars, deliveryVars, todo, crashes>>

\* The acknowledgement is lost, or the worker waits no longer.
BrokerStoresSilently(w, e) ==
    /\ Stored(w, e)
    /\ UNCHANGED <<convVars, deliveryVars, todo, job, crashes>>

\* The request is lost, or JetStream refuses it.
RequestLost(w, e) ==
    /\ <<w, e>> \in wire
    /\ wire' = wire \ {<<w, e>>}
    /\ UNCHANGED <<convVars, deliveryVars, todo, job, feed, crashes>>

\* publish rejects: a timeout or an error; the request may still arrive.
PublishFails(w) ==
    /\ job[w].stage = "publishing"
    /\ job' = [job EXCEPT ![w].stage = "failed"]
    /\ UNCHANGED <<convVars, deliveryVars, todo, wire, feed, crashes>>

\* WHERE lease_token = the token of this claim.
Owns(w, e) == holder[e] = {w}

\* Mutant: the worker stays on the delivery it is done with.
ReleaseOnly(w, e) ==
    /\ holder' = IF Owns(w, e) THEN [holder EXCEPT ![e] = {}] ELSE holder
    /\ lapsed' = IF Owns(w, e) THEN lapsed \ {e} ELSE lapsed
    /\ job' = [job EXCEPT ![w].stage = "resting"]

\* Both updates clear the lease if it is still the worker's; the loop goes on
\* to the next delivery either way.
Release(w, e) ==
    /\ holder' = IF Owns(w, e) THEN [holder EXCEPT ![e] = {}] ELSE holder
    /\ lapsed' = IF Owns(w, e) THEN lapsed \ {e} ELSE lapsed
    /\ job' = [job EXCEPT ![w] = Resting]

\* Mutant: a publish that failed is acknowledged too.
AcknowledgeAnyway(w) ==
    /\ job[w].stage \in {"stored", "failed"}
    /\ LET e == job[w].event
       IN  /\ published' = IF Owns(w, e) THEN published \union {e} ELSE published
           /\ Release(w, e)
    /\ UNCHANGED <<convVars, delayed, todo, wire, feed, crashes>>

Acknowledge(w) ==
    /\ job[w].stage = "stored"
    /\ LET e == job[w].event
       IN  /\ published' = IF Owns(w, e) THEN published \union {e} ELSE published
           /\ Release(w, e)
    /\ UNCHANGED <<convVars, delayed, todo, wire, feed, crashes>>

\* A database error in acknowledgeDelivery lands in the same catch as a failed
\* publish.
AcknowledgeFails(w) ==
    /\ job[w].stage = "stored"
    /\ job' = [job EXCEPT ![w].stage = "failed"]
    /\ UNCHANGED <<convVars, deliveryVars, todo, wire, feed, crashes>>

Retry(w) ==
    /\ job[w].stage = "failed"
    /\ LET e == job[w].event
       IN  /\ delayed' = IF Owns(w, e) THEN delayed \union {e} ELSE delayed
           /\ Release(w, e)
    /\ UNCHANGED <<convVars, published, todo, wire, feed, crashes>>

\* The process dies, or retryDelivery throws and ends the drain: the rest of
\* the batch stays leased.
Crash(w) ==
    /\ todo[w] # {} \/ job[w] # Resting
    /\ crashes < MaxCrashes
    /\ crashes' = crashes + 1
    /\ todo' = [todo EXCEPT ![w] = {}]
    /\ job' = [job EXCEPT ![w] = Resting]
    /\ UNCHANGED <<convVars, deliveryVars, wire, feed>>

LeaseLapses(e) ==
    /\ e \in Unpublished
    /\ holder[e] # {}
    /\ e \notin lapsed
    /\ lapsed' = lapsed \union {e}
    /\ UNCHANGED <<convVars, published, holder, delayed, todo, job, wire, feed,
                   crashes>>

RetryComesDue(e) ==
    /\ e \in delayed
    /\ delayed' = delayed \ {e}
    /\ UNCHANGED <<convVars, published, holder, lapsed, todo, job, wire, feed,
                   crashes>>

Service ==
    \/ \E c \in Convs : Create(c) \/ Delete(c)
    \/ \E c \in Convs, n \in 1 .. 2 : Record(c, n)
    \/ \E gone \in SUBSET Convs, to \in Convs, n \in 0 .. 2 : Merge(gone, to, n)

Drain(w) ==
    \/ Claim(w)
    \/ \E e \in Events : Publish(w, e)
    \/ PublishFails(w)
    \/ Acknowledge(w)
    \/ AcknowledgeFails(w)
    \/ Retry(w)

Broker(w, e) ==
    BrokerAnswers(w, e) \/ BrokerStoresSilently(w, e) \/ RequestLost(w, e)

Next ==
    \/ Service
    \/ \E w \in Workers : Drain(w) \/ Crash(w)
    \/ \E w \in Workers, e \in Events : Broker(w, e)
    \/ \E e \in Events : LeaseLapses(e) \/ RetryComesDue(e)

Spec == Init /\ [][Next]_vars

AcknowledgeOwned(w) ==
    Acknowledge(w) /\ \E e \in Events : Owns(w, e) /\ job[w].event = e

\* The one-second timer keeps draining and the clock advances.  JetStream
\* stores and acknowledges a publish if it is asked again and again, and a
\* worker that keeps claiming a delivery is not outrun by the clock every
\* time: the lease (30 seconds) outlives a publish.
Fairness ==
    /\ \A w \in Workers :
          /\ WF_vars(Drain(w))
          /\ SF_vars(\E e \in Events : Owns(w, e) /\ Publish(w, e))
          /\ SF_vars(\E e \in Events : Owns(w, e) /\ BrokerAnswers(w, e))
          /\ SF_vars(AcknowledgeOwned(w))
    /\ \A e \in Events : WF_vars(LeaseLapses(e)) /\ WF_vars(RetryComesDue(e))

FairSpec == Spec /\ Fairness

-----------------------------------------------------------------------------
(* Properties.                                                             *)

IsDeletion(c, n) == conv[c] = "deleted" /\ n = sequence[c]

\* A consumer that drops repeated ids sees the events of a conversation, the
\* deletion apart, in sequence order and without gaps, whatever leases lapse,
\* workers crash, requests arrive late or repeat, or deliveries are purged: none
\* twice, and each after all those before it.
FeedInOrder ==
    \A c \in Convs :
        /\ \A i, k \in DOMAIN feed[c] : feed[c][i] = feed[c][k] => i = k
        /\ \A k \in DOMAIN feed[c] :
              ~IsDeletion(c, feed[c][k]) =>
                  \A n \in 1 .. feed[c][k] - 1 : \E i \in 1 .. k - 1 : feed[c][i] = n

\* A deletion overtakes at most the one event that was being published.
OneStraggler ==
    \A c \in Convs : \A k \in DOMAIN feed[c] :
        IsDeletion(c, feed[c][k]) => Len(feed[c]) <= k + 1

\* The runtime catches up with every conversation again and again, whatever
\* crashes and failures delay it: so every appended event reaches the feed,
\* or its conversation is deleted and the event purged.
EventsArrive == \A c \in Convs : []<>(History(c) \subseteq published)
=============================================================================
