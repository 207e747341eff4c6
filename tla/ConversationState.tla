--------------------------- MODULE ConversationState ---------------------------
(***************************************************************************)
(* Whose turn a conversation is (lib/email/conversation-state.ts) and what *)
(* became of its outbound emails (lib/email/delivery.ts).                  *)
(*                                                                         *)
(* A delivery webhook and the acceptance of a message each run a           *)
(* read-committed transaction: it writes (the event, the message's         *)
(* resend_email_id), takes the advisory lock of the email, reads the       *)
(* events and the message, and writes what follows from them.  The lock is *)
(* not the conversation's, so conversations are answered, merged, deleted  *)
(* and overridden between those reads and those writes.  What the others   *)
(* do is one step: their first write conflicts with a concurrent one, and  *)
(* the serializable ones among them are retried.                           *)
(***************************************************************************)
EXTENDS Naturals, Sequences, FiniteSets, FiniteSetsExt

CONSTANTS
    Convs,
    None,       \* NULL, for a conversation or a message
    Msgs,       \* outbound messages
    Workers,    \* transactions that may be open at once
    MaxEvents,  \* bound on delivery events per email
    EventSinks  \* TRUE: CONVERSATION_EVENTS_SINKS names one; by default none is

ASSUME StateNames == None \notin Convs \union Msgs
ASSUME StateBound == MaxEvents \in Nat
ASSUME SinksChoice == EventSinks \in BOOLEAN

VARIABLES
    state,      \* email_conversations.state; ABSENT and GONE for no row
    topical,    \* conversations with a topic
    home,       \* email_messages.conversation_id
    sent,       \* email_messages.state; ABSENT and GONE for no row
    delivery,   \* email_messages.delivery_state
    emitted,    \* provider: the delivery events of each email, in its order
    stored,     \* email_webhook_events: the numbers of those received
    tx          \* what each transaction is doing

convVars == <<state, topical>>
messageVars == <<home, sent, delivery>>
vars == <<convVars, messageVars, emitted, stored, tx>>

States == {"AWAITING_US", "AWAITING_PARTICIPANT", "CONCLUDED", "TERMINATED"}

\* BOUNCED stands for COMPLAINED and SUPPRESSED, DELIVERED for FAILED.
EventTypes == {"DELIVERED", "DELAYED", "BOUNCED"}

NoTx == [pc |-> "idle", kind |-> "event", m |-> None, event |-> 0,
         conv |-> None, old |-> "UNKNOWN", new |-> "UNKNOWN"]

Live == {c \in Convs : state[c] \in States}
Exists(m) == sent[m] \notin {"ABSENT", "GONE"}
Members(c) == {m \in Msgs : Exists(m) /\ home[m] = c}

StateTypeOK ==
    /\ state \in [Convs -> States \union {"ABSENT", "GONE"}]
    /\ topical \subseteq Live
    /\ home \in [Msgs -> Convs \union {None}]
    /\ sent \in [Msgs -> {"ABSENT", "PENDING", "ACCEPTED", "FAILED", "GONE"}]
    /\ \A m \in Msgs : Exists(m) => home[m] \in Live
    /\ delivery \in [Msgs -> EventTypes \union {"UNKNOWN"}]
    /\ emitted \in [Msgs -> Seq(EventTypes)]
    /\ stored \in [Msgs -> SUBSET (1 .. MaxEvents)]
    /\ \A m \in Msgs : stored[m] \subseteq DOMAIN emitted[m]
    /\ tx \in [Workers ->
           [pc : {"idle", "begun", "read"}, kind : {"event", "accept"},
            m : Msgs \union {None}, event : 0 .. MaxEvents,
            conv : Convs \union {None}, old : EventTypes \union {"UNKNOWN"},
            new : EventTypes \union {"UNKNOWN"}]]

Init ==
    /\ state = [c \in Convs |-> "ABSENT"]
    /\ topical = {}
    /\ home = [m \in Msgs |-> None]
    /\ sent = [m \in Msgs |-> "ABSENT"]
    /\ delivery = [m \in Msgs |-> "UNKNOWN"]
    /\ emitted = [m \in Msgs |-> <<>>]
    /\ stored = [m \in Msgs |-> {}]
    /\ tx = [w \in Workers |-> NoTx]

-----------------------------------------------------------------------------
(* Automatic states.                                                       *)

\* applyAutomaticState
Automatic(old, new) == IF old = "TERMINATED" THEN old ELSE new

\* Mutant: the turn goes before the end.
MergedTurnFirst(S) ==
    IF "AWAITING_US" \in S THEN "AWAITING_US"
    ELSE IF "AWAITING_PARTICIPANT" \in S THEN "AWAITING_PARTICIPANT"
    ELSE IF "TERMINATED" \in S THEN "TERMINATED"
    ELSE "CONCLUDED"

\* mergeConversationState: the first one of MERGE_PRECEDENCE.
Merged(S) ==
    IF "TERMINATED" \in S THEN "TERMINATED"
    ELSE IF "AWAITING_US" \in S THEN "AWAITING_US"
    ELSE IF "AWAITING_PARTICIPANT" \in S THEN "AWAITING_PARTICIPANT"
    ELSE "CONCLUDED"

\* reduceDeliveryEvents on the events S of m: the last one, except that a delay
\* counts only before all others.
Reduced(m, S) ==
    LET firm == {i \in S : emitted[m][i] # "DELAYED"}
    IN  CASE firm # {} -> emitted[m][Max(firm)]
          [] S # {} /\ firm = {} -> "DELAYED"
          [] OTHER -> "UNKNOWN"

-----------------------------------------------------------------------------
(* Conversations and their messages.                                       *)

NewMessage(m, c) ==
    /\ sent[m] = "ABSENT"
    /\ sent' = [sent EXCEPT ![m] = "PENDING"]
    /\ home' = [home EXCEPT ![m] = c]

\* createConversationV2
Open(c, m) ==
    /\ state[c] = "ABSENT"
    /\ NewMessage(m, c)
    /\ state' = [state EXCEPT ![c] = "AWAITING_PARTICIPANT"]
    /\ topical' = topical \union {c}
    /\ UNCHANGED <<delivery, emitted, stored, tx>>

\* createMessageV2
Reply(c, m) ==
    /\ c \in Live
    /\ NewMessage(m, c)
    /\ state' = [state EXCEPT ![c] = Automatic(@, "AWAITING_PARTICIPANT")]
    /\ UNCHANGED <<topical, delivery, emitted, stored, tx>>

\* reopenFailedConversation: a topic whose messages have all FAILED.
Reopen(c, m) ==
    /\ c \in topical
    /\ \A n \in Members(c) : sent[n] = "FAILED"
    /\ NewMessage(m, c)
    /\ state' = [state EXCEPT ![c] = "AWAITING_PARTICIPANT"]
    /\ UNCHANGED <<topical, delivery, emitted, stored, tx>>

\* PATCH /conversations/v2/{id}
Assign(c) ==
    /\ c \in Live \ topical
    /\ topical' = topical \union {c}
    /\ UNCHANGED <<state, messageVars, emitted, stored, tx>>

\* POST /conversations/v2/{id}/state
Override(c, s) ==
    /\ c \in Live
    /\ state' = [state EXCEPT ![c] = s]
    /\ UNCHANGED <<topical, messageVars, emitted, stored, tx>>

\* The row of a message being accepted is locked: whoever would move or delete
\* it waits, and a serializable transaction that waited is retried.
Unlocked(S) == \A w \in Workers : tx[w].kind = "accept" /\ tx[w].pc # "idle" =>
                   tx[w].m \notin UNION {Members(c) : c \in S}

\* preserveMergedConversationState and the move of the sources' messages; next
\* is the state the transaction leaves the target in.
MergeInto(c, S, next) ==
    /\ c \in Live \ S
    /\ S \subseteq Live \ topical
    /\ Unlocked(S)
    /\ home' = [m \in Msgs |-> IF Exists(m) /\ home[m] \in S THEN c ELSE home[m]]
    /\ state' = [d \in Convs |->
           IF d = c THEN next ELSE IF d \in S THEN "GONE" ELSE state[d]]
    /\ UNCHANGED <<topical, sent, delivery, emitted, stored, tx>>

MergedWith(c, S) == Merged({state[b] : b \in S \union {c}})

\* recordOutboundInternetMessageId brings conversations together.
Record(c, S) == S # {} /\ MergeInto(c, S, MergedWith(c, S))

\* projectInboundEmail: an email in a conversation, which may bring others in.
Receive(c, S) == MergeInto(c, S, Automatic(MergedWith(c, S), "AWAITING_US"))

\* projectInboundEmail: an email that starts a conversation.
ReceiveNew(c) ==
    /\ state[c] = "ABSENT"
    /\ state' = [state EXCEPT ![c] = "AWAITING_US"]
    /\ UNCHANGED <<topical, messageVars, emitted, stored, tx>>

\* Mutant: the conversation's messages stay behind.
DeleteRowOnly(c) ==
    /\ c \in Live /\ Unlocked({c})
    /\ state' = [state EXCEPT ![c] = "GONE"]
    /\ topical' = topical \ {c}
    /\ UNCHANGED <<messageVars, emitted, stored, tx>>

\* DELETE /conversations/v2/{id}
Delete(c) ==
    /\ c \in Live /\ Unlocked({c})
    /\ state' = [state EXCEPT ![c] = "GONE"]
    /\ topical' = topical \ {c}
    /\ sent' = [m \in Msgs |-> IF m \in Members(c) THEN "GONE" ELSE sent[m]]
    /\ UNCHANGED <<home, delivery, emitted, stored, tx>>

\* A send that is known to have failed.
Fail(m) ==
    /\ sent[m] = "PENDING"
    /\ \A w \in Workers : tx[w].m = m => tx[w].kind = "event"
    /\ sent' = [sent EXCEPT ![m] = "FAILED"]
    /\ UNCHANGED <<convVars, home, delivery, emitted, stored, tx>>

\* The provider, which has the email before the service knows it does.
Emit(m, type) ==
    /\ sent[m] \in {"PENDING", "ACCEPTED"}
    /\ Len(emitted[m]) < MaxEvents
    /\ emitted' = [emitted EXCEPT ![m] = Append(@, type)]
    /\ UNCHANGED <<convVars, messageVars, stored, tx>>

-----------------------------------------------------------------------------
(* The transactions.                                                       *)

\* A webhook, delivered in any order and again.  A second copy waits for the
\* first at the unique index of the event.
BeginEvent(w, m, i) ==
    /\ tx[w].pc = "idle"
    /\ i \in DOMAIN emitted[m]
    /\ \A v \in Workers : tx[v].m = m /\ i \notin stored[m] => tx[v].event # i
    /\ tx' = [tx EXCEPT ![w] = [NoTx EXCEPT !.pc = "begun", !.m = m,
                                            !.event = i]]
    /\ UNCHANGED <<convVars, messageVars, emitted, stored>>

\* finalizeAcceptedBatch, accept, deliverPendingMessage: the provider took the
\* message, which is still PENDING.
BeginAccept(w, m) ==
    /\ tx[w].pc = "idle"
    /\ sent[m] = "PENDING"
    /\ \A v \in Workers : tx[v].m = m => tx[v].kind = "event"
    /\ tx' = [tx EXCEPT ![w] = [NoTx EXCEPT !.pc = "begun", !.m = m,
                                            !.kind = "accept"]]
    /\ UNCHANGED <<convVars, messageVars, emitted, stored>>

\* Mutant: the email is not locked.
LockUnheeded(m) == TRUE

LockFree(m) == \A v \in Workers : tx[v].m = m => tx[v].pc # "read"

\* projectOutboundDeliveryStateForResendEmail: the lock, and the reads under it.
\* The message is found once its resend_email_id is, by its own transaction's
\* write or a committed one.
Read(w) ==
    LET m == tx[w].m
        event == tx[w].kind = "event"
        found == ~event \/ sent[m] = "ACCEPTED"
        S == stored[m] \union IF event THEN {tx[w].event} ELSE {}
    IN  /\ tx[w].pc = "begun" /\ LockFree(m)
        /\ tx' = [tx EXCEPT ![w] =
             [@ EXCEPT !.pc = "read",
                       !.conv = IF found THEN home[m] ELSE None,
                       !.old = IF event THEN delivery[m] ELSE "UNKNOWN",
                       !.new = Reduced(m, S)]]
        /\ UNCHANGED <<convVars, messageVars, emitted, stored>>

\* With event sinks, a changed delivery state is appended to the conversation's
\* event feed, which throws without the conversation.  Without any nothing is
\* appended, and the commit does not notice that the conversation is gone.
Appends(w) ==
    EventSinks /\ tx[w].conv # None /\ tx[w].new # tx[w].old => tx[w].conv \in Live

\* Mutant: an operator's CONCLUDED is left alone.
EndsIfOpen(w) ==
    /\ tx[w].new = "BOUNCED" /\ tx[w].conv \in Live
    /\ state[tx[w].conv] # "CONCLUDED"

\* markConversationTerminated, of the conversation that was read: whatever its
\* state, and nothing when its row is gone.
Ends(w) == tx[w].new = "BOUNCED" /\ tx[w].conv \in Live

\* The writes and the commit.
Commit(w) ==
    LET t == tx[w]
        found == t.conv # None /\ Exists(t.m)
    IN  /\ t.pc = "read" /\ Appends(w)
        /\ stored' = IF t.kind = "event"
                       THEN [stored EXCEPT ![t.m] = @ \union {t.event}]
                       ELSE stored
        /\ sent' = IF t.kind = "accept" THEN [sent EXCEPT ![t.m] = "ACCEPTED"]
                   ELSE sent
        /\ delivery' = IF found THEN [delivery EXCEPT ![t.m] = t.new] ELSE delivery
        /\ state' = IF Ends(w)
                      THEN [state EXCEPT ![t.conv] = "TERMINATED"] ELSE state
        /\ tx' = [tx EXCEPT ![w] = NoTx]
        /\ UNCHANGED <<topical, home, emitted>>

\* A statement throws, the transaction times out or the process dies.
Rollback(w) ==
    /\ tx[w].pc # "idle"
    /\ tx' = [tx EXCEPT ![w] = NoTx]
    /\ UNCHANGED <<convVars, messageVars, emitted, stored>>

Next ==
    \/ \E c \in Convs :
          \/ \E m \in Msgs : Open(c, m) \/ Reply(c, m) \/ Reopen(c, m)
          \/ Assign(c) \/ ReceiveNew(c) \/ Delete(c)
          \/ \E s \in States : Override(c, s)
          \/ \E S \in SUBSET (Convs \ {c}) : Record(c, S) \/ Receive(c, S)
    \/ \E m \in Msgs : Fail(m) \/ \E type \in EventTypes : Emit(m, type)
    \/ \E w \in Workers :
          \/ \E m \in Msgs :
                BeginAccept(w, m) \/ \E i \in 1 .. MaxEvents : BeginEvent(w, m, i)
          \/ Read(w) \/ Commit(w) \/ Rollback(w)

Spec == Init /\ [][Next]_vars

-----------------------------------------------------------------------------
(* Properties.                                                             *)

\* An accepted message shows what its stored events add up to, in whatever order
\* they and the acceptance were committed.
Converges ==
    \A m \in Msgs :
        sent[m] = "ACCEPTED" => delivery[m] = Reduced(m, stored[m])

Bounces(m) == Exists(m) /\ delivery[m] # "BOUNCED" /\ delivery'[m] = "BOUNCED"

\* docs/api-consumer-guide.md:324: a bounced, complained or suppressed delivery
\* terminates the conversation: the one the message is in when the bounce is
\* recorded, even if it was merged into that one since the conversation was read.
BounceTerminates ==
    [][\A m \in Msgs : Bounces(m) => state'[home'[m]] = "TERMINATED"]_vars

\* A recorded bounce fails to end its message's conversation only when the one
\* that was read for it has been merged away since.  Whatever else is done to
\* the conversation meanwhile (an answer, a reply, an operator's CONCLUDED) and
\* whatever other events are recorded first, it ends.
BounceEndsUnlessMerged ==
    [][\A m \in Msgs : Bounces(m) =>
          \/ state'[home'[m]] = "TERMINATED"
          \/ \E w \in Workers :
                /\ tx[w].pc = "read" /\ tx[w].m = m
                /\ tx[w].conv # home[m] /\ state[tx[w].conv] = "GONE"]_vars

\* Once ended, a message's conversation is ended wherever merges take it, until
\* an operator says otherwise, a new opening replaces a failed one, or it is
\* deleted.
TerminatedStays ==
    [][\/ \A m \in Msgs :
             /\ Exists(m) /\ state[home[m]] = "TERMINATED"
             => sent'[m] = "GONE" \/ state'[home'[m]] = "TERMINATED"
       \/ \E c \in Convs :
             \/ \E s \in States : Override(c, s)
             \/ \E m \in Msgs : Reopen(c, m)]_vars
=============================================================================
