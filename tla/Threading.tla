---------------------------- MODULE Threading ----------------------------
(***************************************************************************)
(* How emails are gathered into conversations (lib/email/conversations.ts, *)
(* with the handlers that open, answer, assign and delete a conversation). *)
(* An inbound email joins the conversation of the emails its headers name, *)
(* else the one its Reply-To token names, else it starts one; conversations*)
(* that turn out to be one are merged.  Emails reach the service in any    *)
(* order, repeatedly or never, and the RFC id of an email the service sent *)
(* is learnt late or never.                                                *)
(*                                                                         *)
(* Projections run as serializable transactions that are retried, and the  *)
(* other handlers update the conversation rows a merge reads: each is one  *)
(* step.  Emails are numbered in the order they were sent; conversation    *)
(* ids, and so routing tokens, are never used twice.                       *)
(***************************************************************************)
EXTENDS Naturals, FiniteSets, SequencesExt

CONSTANTS
    Participants,   \* external senders
    Nobody,
    MaxEmails,      \* bound on emails
    MaxConvs        \* bound on conversation rows ever created

ASSUME ThreadingBounds == MaxEmails \in Nat /\ MaxConvs \in Nat
ASSUME ThreadingNames == Nobody \notin Participants

Emails == 1 .. MaxEmails
Convs == 1 .. MaxConvs
None == 0   \* NULL, for an email or a conversation

VARIABLES
    header,     \* the emails sent so far, by participants and by the service
    outbound,   \* those the service sent
    conv,       \* email_messages.conversation_id; None when there is no row
    parent,     \* email_messages.parent_message_id
    known,      \* outbound emails with internet_message_id set
    created,    \* conversation rows created so far
    who,        \* participant_address; Nobody when there is no row
    assigned,   \* conversations with a topic
    based,      \* conversations with reply_to_base_address set
    alias       \* routing aliases: the conversation of each token

messageVars == <<conv, parent, known>>
convVars == <<created, who, assigned, based, alias>>
vars == <<header, outbound, messageVars, convVars>>

\* parent: in-reply-to or, without it, the last of references; refs: all of
\* them; tokens: those in the addresses the email was sent to.
Headers == [with : Participants, parent : Emails \union {None},
            refs : SUBSET Emails, tokens : SUBSET Convs]

Sent == 1 .. Len(header)
Stored == {m \in Emails : conv[m] # None}
Live == {c \in Convs : who[c] # Nobody}
Members(c) == {m \in Emails : conv[m] = c}

TypeOK ==
    /\ header \in Seq(Headers) /\ Len(header) <= MaxEmails
    /\ outbound \subseteq Sent
    /\ conv \in [Emails -> Convs \union {None}]
    /\ parent \in [Emails -> Emails \union {None}]
    /\ known \subseteq outbound \intersect Stored
    /\ created \in 0 .. MaxConvs
    /\ who \in [Convs -> Participants \union {Nobody}]
    /\ \A c \in Live : c <= created
    /\ assigned \subseteq Live
    /\ based \subseteq Live
    /\ alias \in [Convs -> Convs \union {None}]
    /\ \A m \in Stored : m \in Sent /\ conv[m] \in Live

Init ==
    /\ header = <<>>
    /\ outbound = {}
    /\ conv = [m \in Emails |-> None]
    /\ parent = [m \in Emails |-> None]
    /\ known = {}
    /\ created = 0
    /\ who = [c \in Convs |-> Nobody]
    /\ assigned = {}
    /\ based = {}
    /\ alias = [t \in Convs |-> None]

-----------------------------------------------------------------------------
(* The participants' mail clients.                                         *)

\* Tokens that were emitted in a Reply-To.
Emitted == UNION {header[o].tokens : o \in outbound}

\* A participant sends an email that may answer any email sent before, and
\* may go to any Reply-To address the service has used.
Write(p, refs, answered, tokens) ==
    /\ Len(header) < MaxEmails
    /\ refs \subseteq Sent
    /\ answered \in refs \/ (refs = {} /\ answered = None)
    /\ tokens \subseteq Emitted
    /\ header' = Append(header, [with |-> p, parent |-> answered,
                                 refs |-> refs, tokens |-> tokens])
    /\ UNCHANGED <<outbound, messageVars, convVars>>

-----------------------------------------------------------------------------
(* Sending.                                                                *)

\* createConversationV2: a topic, a base address and a first email.
Open(p) ==
    LET e == Len(header) + 1
        c == created + 1
    IN  /\ e <= MaxEmails /\ c <= MaxConvs
        /\ header' = Append(header, [with |-> p, parent |-> None, refs |-> {},
                                     tokens |-> {c}])
        /\ outbound' = outbound \union {e}
        /\ conv' = [conv EXCEPT ![e] = c]
        /\ created' = c
        /\ who' = [who EXCEPT ![c] = p]
        /\ assigned' = assigned \union {c}
        /\ based' = based \union {c}
        /\ UNCHANGED <<parent, known, alias>>

\* Emails with an RFC id on record.
Identified == {m \in Stored : m \in outbound => m \in known}

\* createMessageV2 answers an email of the conversation.  When that one's RFC
\* id is not on record, ensureInternetMessageId has it recorded first.
Reply(m) ==
    LET e == Len(header) + 1
        c == conv[m]
    IN  /\ e <= MaxEmails
        /\ m \in Identified
        /\ header' = Append(header, [with |-> who[c], parent |-> m,
                                     refs |-> header[m].refs \union {m},
                                     tokens |-> {c}])
        /\ outbound' = outbound \union {e}
        /\ conv' = [conv EXCEPT ![e] = c]
        /\ parent' = [parent EXCEPT ![e] = m]
        /\ based' = based \union {c}
        /\ UNCHANGED <<known, created, who, assigned, alias>>

-----------------------------------------------------------------------------
(* Merging conversations.                                                  *)

\* Mutant: the token of a merged conversation is not kept as an alias.
AliasesMovedOnly(gone, c) ==
    alias' = [t \in Convs |-> IF alias[t] \in gone THEN c ELSE alias[t]]

\* preserveMergedConversationState: the aliases of the merged conversations
\* move, and each one with a base address becomes an alias itself.
Aliases(gone, c) ==
    alias' = [t \in Convs |->
                 IF alias[t] \in gone \/ t \in gone \intersect based
                   THEN c ELSE alias[t]]

\* All emails of the merged conversations change theirs.
Move(gone, c) ==
    [m \in Emails |-> IF conv[m] \in gone THEN c ELSE conv[m]]

\* The conversation keeps, or takes over, a base address; the rows go.
Absorb(gone, c) ==
    /\ assigned' = assigned \ gone
    /\ based' = (based \ gone) \union (IF gone \intersect based # {} THEN {c} ELSE {})
    /\ Aliases(gone, c)

-----------------------------------------------------------------------------
(* projectInboundEmail.                                                    *)

With(p) == {m \in Stored : who[conv[m]] = p}

\* Emails the headers name.
Related(e) == header[e].refs \intersect Identified \intersect With(header[e].with)

\* Mutant: a waiting reply of another participant counts too.
ChildrenOfAnyone(e, p) ==
    {m \in Stored : parent[m] = None /\ header[m].parent = e}

\* Replies to e that came before it.
Children(e, p) ==
    {m \in Stored \intersect With(p) : parent[m] = None /\ header[m].parent = e}

ParentOf(e) == {m \in Related(e) : m = header[e].parent}

\* The last reference on record: the one the email answers, else the latest.
Nearest(e) ==
    IF ParentOf(e) # {} THEN ParentOf(e)
    ELSE {m \in Related(e) : \A n \in Related(e) : n <= m}

\* Conversations a token of the email names, directly or as an alias.
Routed(e) ==
    {c \in Live : /\ who[c] = header[e].with
                  /\ \E t \in header[e].tokens :
                        (t = c /\ c \in based) \/ alias[t] = c}

ConvsOf(S) == {conv[m] : m \in S}

\* The conversation the email belongs to.  Which of several waiting replies
\* comes first is left open, as the query has no order.
Homes(e) ==
    LET kids == ConvsOf(Children(e, header[e].with))
        choices == <<ConvsOf(ParentOf(e)) \intersect assigned,
                     ConvsOf(Nearest(e)) \intersect assigned,
                     kids \intersect assigned,
                     ConvsOf(ParentOf(e)), ConvsOf(Nearest(e)), kids,
                     IF Cardinality(Routed(e)) = 1 THEN Routed(e) ELSE {}>>
        first == SelectInSeq(choices, LAMBDA S : S # {})
    IN  IF first = 0 THEN {} ELSE choices[first]

\* Mutant: a conversation with a topic is merged like any other.
ForeignAssigned(S, c) == ConvsOf(S) \ {c}

\* The other conversations of the emails in S that are merged into c.
Foreign(S, c) == ConvsOf(S) \ (assigned \union {c})

\* The email is stored in c, the conversations it connects are merged into c,
\* and it becomes the parent of the replies that waited for it there.
Join(e, c) ==
    LET S == Related(e) \union Children(e, header[e].with)
        gone == Foreign(S, c)
        moved == [Move(gone, c) EXCEPT ![e] = c]
    IN  /\ conv' = moved
        /\ parent' = [m \in Emails |->
              IF m = e THEN IF ParentOf(e) # {} THEN header[e].parent ELSE None
              ELSE IF parent[m] = None /\ moved[m] = c /\ header[m].parent = e
                THEN e ELSE parent[m]]
        /\ Absorb(gone, c)
        /\ who' = [d \in Convs |-> IF d \in gone THEN Nobody
                                   ELSE IF d = c THEN header[e].with ELSE who[d]]
        /\ known' = known \intersect {m \in Emails : moved[m] # None}

\* A redelivered email is found and nothing happens, unless its conversation
\* was deleted: then it is stored anew.
Receive(e) ==
    /\ e \in Sent \ outbound
    /\ conv[e] = None
    /\ IF Homes(e) # {}
         THEN (\E c \in Homes(e) : Join(e, c)) /\ UNCHANGED created
         ELSE created < MaxConvs /\ Join(e, created + 1) /\ created' = created + 1
    /\ UNCHANGED <<header, outbound>>

-----------------------------------------------------------------------------
(* recordOutboundInternetMessageId.                                        *)

\* Mutant: the waiting replies get their parent but stay where they are.
RecordOnly(o) ==
    /\ o \in outbound \intersect Stored
    /\ known' = known \union {o}
    /\ parent' = [m \in Emails |->
          IF m \in Children(o, who[conv[o]]) /\ conv[m] = conv[o] THEN o
          ELSE parent[m]]
    /\ UNCHANGED <<header, outbound, conv, created, who, assigned, based, alias>>

\* The RFC id of an email the service sent becomes known, perhaps again.
Record(o) ==
    LET c == conv[o]
        S == Children(o, who[c])
        gone == Foreign(S, c)
        moved == Move(gone, c)
    IN  /\ o \in outbound \intersect Stored
        /\ known' = (known \union {o}) \intersect {m \in Emails : moved[m] # None}
        /\ conv' = moved
        /\ parent' = [m \in Emails |-> IF m \in S /\ moved[m] = c THEN o ELSE parent[m]]
        /\ Absorb(gone, c)
        /\ who' = [d \in Convs |-> IF d \in gone THEN Nobody ELSE who[d]]
        /\ UNCHANGED <<header, outbound, created>>

-----------------------------------------------------------------------------
(* Assigning and deleting.                                                 *)

Assign(c) ==
    /\ c \in Live \ assigned
    /\ assigned' = assigned \union {c}
    /\ UNCHANGED <<header, outbound, messageVars, created, who, based, alias>>

\* Mutant: the emails' foreign key without ON DELETE CASCADE.
DeleteRowOnly(c) ==
    /\ c \in Live
    /\ who' = [who EXCEPT ![c] = Nobody]
    /\ assigned' = assigned \ {c}
    /\ based' = based \ {c}
    /\ alias' = [t \in Convs |-> IF alias[t] = c THEN None ELSE alias[t]]
    /\ UNCHANGED <<header, outbound, messageVars, created>>

\* The conversation's row, its emails and its aliases go.
Delete(c) ==
    /\ c \in Live
    /\ conv' = [m \in Emails |-> IF conv[m] = c THEN None ELSE conv[m]]
    /\ parent' = [m \in Emails |-> IF conv[m] = c THEN None ELSE parent[m]]
    /\ known' = known \ Members(c)
    /\ who' = [who EXCEPT ![c] = Nobody]
    /\ assigned' = assigned \ {c}
    /\ based' = based \ {c}
    /\ alias' = [t \in Convs |-> IF alias[t] = c THEN None ELSE alias[t]]
    /\ UNCHANGED <<header, outbound, created>>

Next ==
    \/ \E p \in Participants, refs \in SUBSET Sent, tokens \in SUBSET Emitted :
          \E answered \in refs \union {None} : Write(p, refs, answered, tokens)
    \/ \E p \in Participants : Open(p)
    \/ \E m \in Emails : Reply(m) \/ Receive(m) \/ Record(m)
    \/ \E c \in Convs : Assign(c) \/ Delete(c)

Spec == Init /\ [][Next]_vars

-----------------------------------------------------------------------------
(* Properties.                                                             *)

\* Merges, late ids and redeliveries never split a conversation and never lose
\* an email: only deleting its conversation takes an email away.  And a merge
\* never makes one of two conversations that both have a topic.
Promise == INSTANCE MailThreads WITH
    threads <- {Members(c) : c \in Convs} \ {{}},
    topics <- {Members(c) : c \in assigned}
KeepsThreads == Promise!Spec

\* A conversation holds the emails of one participant.
OneParticipant ==
    \A m \in Stored : m \in outbound \/ header[m].with = who[conv[m]]

\* An email and the email it answers are in one conversation, in whatever order
\* they came and whenever the latter's id became known.  Only a reply whose
\* own conversation was given a topic in the meantime stays apart.
RepliesJoined ==
    \A m \in Stored : LET a == header[m].parent IN
        a \in Identified /\ who[conv[a]] = who[conv[m]] =>
            conv[m] = conv[a] \/ conv[m] \in assigned

\* docs/api-consumer-guide.md: replies to previously emitted addresses remain
\* resolvable.  The token in a sent email names the email's conversation, and
\* no other, through any number of merges.
TokensResolve ==
    \A o \in outbound \intersect Stored : \A t \in header[o].tokens :
        {c \in Live : (t = c /\ c \in based) \/ alias[t] = c} = {conv[o]}
=============================================================================
