--------------------------- MODULE WebhookIntake ---------------------------
(***************************************************************************)
(* What happens to an email Resend received for the service                *)
(* (routes/webhooks/resend/v1/route.ts, lib/webhook-handler.ts and         *)
(* hydrateReferencedOutboundMessages in lib/email/conversations.ts).       *)
(* Resend posts email.received until it is answered with 200; several      *)
(* handlers may be at work on one email, each can fail or die after any of *)
(* its awaits, and all they share is the database.                         *)
(*                                                                         *)
(* A reply names the emails it answers by RFC id, and the service learns   *)
(* the RFC id of an email it sent by asking Resend for it, afterwards.     *)
(* Before it stores a reply the handler therefore asks for the emails of   *)
(* that participant whose id it lacks: the newest Limit of them, and only  *)
(* an email of the last 24 hours is worth refusing the webhook for.        *)
(*                                                                         *)
(* All emails are of one participant, every sent email opened its own      *)
(* conversation, with a topic, and replies carry no Reply-To token: how    *)
(* tokens, topics and participants decide is Threading.                    *)
(***************************************************************************)
EXTENDS Naturals, FiniteSets, FiniteSetsExt

CONSTANTS
    NumSent,        \* emails the service sent, numbered from the oldest
    Replies,        \* emails Resend received
    References,     \* [Replies -> what the References header names]
    Answered,       \* [Replies -> what In-Reply-To names]
    Handlers,       \* webhook requests at work at a time
    Limit,          \* MAX_OUTBOUND_HYDRATION_CANDIDATES, 10 in the code
    MaxFailures     \* bound on failures of the database, of Resend's receiving
                    \* API, of the process, and on answers that are lost

Sent == 1 .. NumSent
Emails == Sent \union Replies
NoEmail == 0

ASSUME IntakeNumbers ==
    NumSent \in Nat /\ Limit \in Nat \ {0} /\ MaxFailures \in Nat
ASSUME IntakeHeaders ==
    /\ Replies \intersect (Sent \union {NoEmail}) = {}
    /\ References \in [Replies -> SUBSET Emails]
    /\ Answered \in [Replies -> Emails \union {NoEmail}]
    /\ \A r \in Replies : IF References[r] = {} THEN Answered[r] = NoEmail
                                                ELSE Answered[r] \in References[r]

VARIABLES
    sent,       \* rows of the sent emails: PENDING, ACCEPTED with a Resend id,
                \* or gone with their conversation
    known,      \* those with internet_message_id set
    old,        \* sent emails 1 .. old are more than 24 hours old
    inbox,      \* the webhook of each received email, as Resend has it
    ledger,     \* received emails with a row in email_webhook_events
    home,       \* conversation of each stored reply: that of a sent email or
                \* one that a reply started, named by the email
    gone,       \* replies that were stored and deleted
    call,       \* the requests
    failures

outboundVars == <<sent, known, old>>
vars == <<outboundVars, inbox, ledger, home, gone, call, failures>>

Idle == [at |-> "idle"]
Working == [at : {"look", "answer"}, email : Replies]
    \union [at : {"ancestor", "candidates"}, email : Replies, stored : BOOLEAN]
    \* seen: every email that lacked its id when the handler looked
    \union [at : {"retrieve"}, email : Replies, stored : BOOLEAN, seen : SUBSET Sent]
    \union [at : {"record"}, email : Replies, stored : BOOLEAN, seen : SUBSET Sent,
            todo : SUBSET Sent, incomplete : BOOLEAN]
    \union [at : {"project"}, email : Replies, seen : SUBSET Sent]

TypeOK ==
    /\ sent \in [Sent -> {"PENDING", "ACCEPTED", "gone"}]
    /\ known \subseteq {s \in Sent : sent[s] = "ACCEPTED"}
    /\ old \in 0 .. NumSent
    /\ inbox \in [Replies -> {"unsent", "posted", "taken"}]
    /\ ledger \subseteq Replies
    /\ home \in [Replies -> Emails \union {NoEmail}]
    /\ \A r \in Replies : home[r] \in Sent => sent[home[r]] # "gone"
    /\ gone \subseteq Replies
    /\ call \in [Handlers -> Working \union {Idle}]
    /\ failures \in 0 .. MaxFailures

Init ==
    /\ sent = [s \in Sent |-> "PENDING"]
    /\ known = {}
    /\ old = 0
    /\ inbox = [r \in Replies |-> "unsent"]
    /\ ledger = {}
    /\ home = [r \in Replies |-> NoEmail]
    /\ gone = {}
    /\ call = [h \in Handlers |-> Idle]
    /\ failures = 0

Stored == {r \in Replies : home[r] # NoEmail}

\* The RFC ids the database has: those of received emails come with them.
Identified == known \union Stored

-----------------------------------------------------------------------------
(* Around the webhook.                                                     *)

\* Resend mails the sent emails before their acceptance is recorded, so a reply
\* can come first.
Accept(s) ==
    /\ sent[s] = "PENDING"
    /\ sent' = [sent EXCEPT ![s] = "ACCEPTED"]
    /\ UNCHANGED <<known, old, inbox, ledger, home, gone, call, failures>>

Age ==
    /\ old < NumSent
    /\ old' = old + 1
    /\ UNCHANGED <<sent, known, inbox, ledger, home, gone, call, failures>>

\* Resend has a reply for the service; the emails it names were sent.
Receive(r) ==
    /\ inbox[r] = "unsent"
    /\ \A e \in References[r] \intersect Replies : inbox[e] # "unsent"
    /\ inbox' = [inbox EXCEPT ![r] = "posted"]
    /\ UNCHANGED <<outboundVars, ledger, home, gone, call, failures>>

\* Every reply in the conversations C moves to conversation c.
Merged(C, c) == [r \in Replies |-> IF home[r] \in C THEN c ELSE home[r]]

\* Mutant: the id is recorded without looking for the email's row.
RecordAnyway(s) ==
    /\ known' = known \union {s}
    /\ home' = Merged({home[r] : r \in {q \in Stored : Answered[q] = s}} \intersect Replies, s)

\* recordOutboundInternetMessageId: the conversations that replies to the email
\* started without it are merged into its own.
RecordId(s) ==
    LET waiting == {r \in Stored : Answered[r] = s}
    IN  /\ sent[s] = "ACCEPTED"
        /\ known' = known \union {s}
        /\ home' = Merged({home[r] : r \in waiting} \intersect Replies, s)

\* A request that sent the email, or that answers it, asks for its id
\* (hydrateSentMetadata, ensureInternetMessageId).
LearnId(s) ==
    /\ s \notin known
    /\ RecordId(s)
    /\ UNCHANGED <<sent, old, inbox, ledger, gone, call, failures>>

\* A conversation is deleted with its emails.
Delete(c) ==
    /\ \/ c \in Sent /\ sent[c] = "ACCEPTED"
       \/ c \in Replies /\ \E r \in Stored : home[r] = c
    /\ sent' = [s \in Sent |-> IF s = c THEN "gone" ELSE sent[s]]
    /\ known' = known \ {c}
    /\ gone' = gone \union {r \in Stored : home[r] = c}
    /\ home' = [r \in Replies |-> IF home[r] = c THEN NoEmail ELSE home[r]]
    /\ UNCHANGED <<old, inbox, ledger, call, failures>>

-----------------------------------------------------------------------------
(* The handler, one action per await.                                      *)

GoTo(h, step) == call' = [call EXCEPT ![h].at = step]

Finish(h) == call' = [call EXCEPT ![h] = Idle]

\* Resend posts the webhook, also while another request has it.
Post(h, r) ==
    /\ call[h] = Idle
    /\ inbox[r] = "posted"
    /\ call' = [call EXCEPT ![h] = [at |-> "look", email |-> r]]
    /\ UNCHANGED <<outboundVars, inbox, ledger, home, gone, failures>>

\* Mutant: an event that is in the ledger was handled, whatever its type.
LedgerDecides(h) ==
    LET r == call[h].email IN
    /\ call[h].at = "look"
    /\ ledger' = ledger \union {r}
    /\ call' = [call EXCEPT ![h] =
          IF r \in ledger THEN [at |-> "answer", email |-> r]
          ELSE [at |-> "ancestor", email |-> r, stored |-> r \in Stored]]
    /\ UNCHANGED <<outboundVars, inbox, home, gone, failures>>

\* createEmailEvent commits on its own, a duplicate is skipped and the work goes
\* on: a message that is stored is only hydrated, any other one is fetched with
\* getReceived.  Nothing shared is read but whether it is stored.
Look(h) ==
    LET r == call[h].email IN
    /\ call[h].at = "look"
    /\ ledger' = ledger \union {r}
    /\ call' = [call EXCEPT ![h] =
                   [at |-> "ancestor", email |-> r, stored |-> r \in Stored]]
    /\ UNCHANGED <<outboundVars, inbox, home, gone, failures>>

\* The message is hydrated, or needs not be.
Hydrated(h, seen) ==
    LET c == call[h] IN
    call' = [call EXCEPT ![h] =
                IF c.stored THEN [at |-> "answer", email |-> c.email]
                ELSE [at |-> "project", email |-> c.email, seen |-> seen]]

\* Nothing to look for when the email answers none, or one whose id is known.
FindAncestor(h) ==
    LET r == call[h].email IN
    /\ call[h].at = "ancestor"
    /\ IF References[r] = {} \/ Answered[r] \in Identified
         THEN Hydrated(h, {})
         ELSE GoTo(h, "candidates")
    /\ UNCHANGED <<outboundVars, inbox, ledger, home, gone, failures>>

Unidentified == {s \in Sent : sent[s] = "ACCEPTED"} \ known

ReadCandidates(h) ==
    LET c == call[h] IN
    /\ c.at = "candidates"
    /\ IF Unidentified = {} THEN Hydrated(h, {})
       ELSE call' = [call EXCEPT ![h] =
                        [at |-> "retrieve", email |-> c.email, stored |-> c.stored,
                         seen |-> Unidentified]]
    /\ UNCHANGED <<outboundVars, inbox, ledger, home, gone, failures>>

\* The n newest emails of S.
Newest(S, n) == {s \in S : Cardinality({t \in S : t > s}) < n}

Recent(S) == \E s \in S : s > old

\* Mutant: an email that cannot be retrieved is always worth another attempt.
MissingAtAnyAge(seen, answers) ==
    LET window == Newest(seen, Limit)
    IN  window \ answers # {} \/ Recent(Newest(seen, Limit + 1) \ window)

\* Mutant: emails beyond the limit are not thought of.
MissingInWindow(seen, answers) == Recent(Newest(seen, Limit) \ answers)

\* An email of the last 24 hours was not retrieved: the call for it failed, or
\* it is the first one beyond the limit.
Missing(seen, answers) ==
    LET window == Newest(seen, Limit)
    IN  Recent(window \ answers) \/ Recent(Newest(seen, Limit + 1) \ window)

\* Resend is asked for all emails of the window at once; answers are those it
\* had an answer for.
Retrieve(h, answers) ==
    LET c == call[h]
        matched == answers \intersect References[c.email] # {}
    IN  /\ c.at = "retrieve"
        /\ answers \subseteq Newest(c.seen, Limit)
        /\ call' = [call EXCEPT ![h] =
                       [at |-> "record", email |-> c.email, stored |-> c.stored,
                        seen |-> c.seen, todo |-> answers,
                        incomplete |-> ~matched /\ Missing(c.seen, answers)]]
        /\ UNCHANGED <<outboundVars, inbox, ledger, home, gone, failures>>

\* The ids are recorded one by one, each in a transaction of its own; one that
\* finds its email deleted fails the webhook.
Record(h) ==
    LET c == call[h]
        s == Max(c.todo)
    IN  /\ c.at = "record"
        /\ c.todo # {}
        /\ \/ /\ RecordId(s)
              /\ call' = [call EXCEPT ![h].todo = c.todo \ {s}]
           \/ /\ sent[s] = "gone"
              /\ Finish(h)
              /\ UNCHANGED <<known, home>>
        /\ UNCHANGED <<sent, old, inbox, ledger, gone, failures>>

\* "Outbound threading metadata could not be fully hydrated" answers 500.
Judge(h) ==
    LET c == call[h] IN
    /\ c.at = "record"
    /\ c.todo = {}
    /\ IF c.incomplete THEN Finish(h) ELSE Hydrated(h, c.seen)
    /\ UNCHANGED <<outboundVars, inbox, ledger, home, gone, failures>>

\* The emails whose conversations the reply belongs to: those it names and the
\* replies that came before it.
Related(r) ==
    {e \in References[r] : e \in Identified} \union {e \in Stored : Answered[e] = r}

ConvOf(e) == IF e \in Replies THEN home[e] ELSE e

\* projectInboundEmail: the reply joins a conversation of its related emails,
\* one with a topic if there is one (which of several: Threading!Homes), and
\* those without are merged into it.
\* One that another request stored meanwhile is left as it is.
Project(h) ==
    LET r == call[h].email
        homes == {ConvOf(e) : e \in Related(r)}
        choice == IF homes = {} THEN {r}
                  ELSE IF homes \intersect Sent # {} THEN homes \intersect Sent ELSE homes
    IN  /\ call[h].at = "project"
        /\ IF r \in Stored THEN UNCHANGED home
           ELSE \E c \in choice :
                    home' = [Merged(homes \intersect Replies, c) EXCEPT ![r] = c]
        /\ call' = [call EXCEPT ![h] = [at |-> "answer", email |-> r]]
        /\ UNCHANGED <<outboundVars, inbox, ledger, gone, failures>>

\* 200: Resend posts the webhook no more.
Answer(h) ==
    /\ call[h].at = "answer"
    /\ inbox' = [inbox EXCEPT ![call[h].email] = "taken"]
    /\ Finish(h)
    /\ UNCHANGED <<outboundVars, ledger, home, gone, failures>>

\* A query or transaction fails, for the third time if it is projecting, or the
\* receiving API does, or the process dies, or the answer is lost.
Fail(h) ==
    /\ call[h] # Idle
    /\ failures < MaxFailures
    /\ failures' = failures + 1
    /\ Finish(h)
    /\ UNCHANGED <<outboundVars, inbox, ledger, home, gone>>

Handle(h) ==
    \/ Look(h) \/ FindAncestor(h) \/ ReadCandidates(h)
    \/ (call[h].at = "retrieve" /\ \E answers \in SUBSET call[h].seen : Retrieve(h, answers))
    \/ Record(h) \/ Judge(h) \/ Project(h) \/ Answer(h)

Next ==
    \/ \E s \in Sent : Accept(s) \/ LearnId(s)
    \/ Age
    \/ \E r \in Replies : Receive(r)
    \/ \E c \in Emails : Delete(c)
    \/ \E h \in Handlers : Handle(h) \/ Fail(h) \/ \E r \in Replies : Post(h, r)

Spec == Init /\ [][Next]_vars

\* Time passes, requests do not stand still, and Resend posts again what was
\* not taken.  That retrieving a sent email ever works is not assumed.
Fairness ==
    /\ WF_vars(Age)
    /\ \A h \in Handlers : WF_vars(Handle(h))
    /\ \A r \in Replies : WF_vars(\E h \in Handlers : Post(h, r))

FairSpec == Spec /\ Fairness

-----------------------------------------------------------------------------
(* Properties.                                                             *)

\* docs/api-consumer-guide.md: a failed retrieval or projection answers 500 so
\* that Resend can retry.  No email is lost to a webhook that was answered with
\* 200: it was stored, and if it is not there then its conversation was deleted.
TakenWasStored ==
    \A r \in Replies : inbox[r] = "taken" => r \in Stored \union gone

\* A reply is not set apart from an email it names that the service could have
\* known.  When it is stored in a conversation of its own then an email it names
\* was deleted, or none of those it names is less than a day old and lacked its
\* id when the handler looked: neither failing retrievals, nor the limit, nor
\* the other requests make the service answer 200 for it.
NotSetApart ==
    [][\A r \in Replies : home[r] = NoEmail /\ home'[r] = r =>
          \/ \E e \in References[r] : e \in gone \/ (e \in Sent /\ sent[e] = "gone")
          \/ \E h \in Handlers :
                /\ call[h] # call'[h] /\ call[h].email = r
                /\ ~Recent(call[h].seen \intersect References[r])]_vars

\* The refusals end: even if Resend never answers for the sent emails, each
\* received email is taken in the end, once they are a day old.
WebhooksTaken == \A r \in Replies : inbox[r] = "posted" ~> inbox[r] = "taken"
=============================================================================
