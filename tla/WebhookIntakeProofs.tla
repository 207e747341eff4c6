------------------------ MODULE WebhookIntakeProofs ------------------------
(***************************************************************************)
(* Proofs about the webhook handler, for any number of sent emails,        *)
(* replies, headers, requests, limit and number of failures.               *)
(***************************************************************************)
EXTENDS WebhookIntake, FiniteSetTheorems, TLAPS

-----------------------------------------------------------------------------
(* Numbers and sets of numbers.                                            *)

LEMMA SentFacts == /\ Sent \subseteq Nat
                   /\ IsFiniteSet(Sent)
                   /\ \A s \in Sent : s <= NumSent
BY IntakeNumbers, FS_Interval DEF Sent

\* A non-empty set of natural numbers has a least element.
LEMMA Least ==
    ASSUME NEW S \in SUBSET Nat, S # {}
    PROVE  \E x \in S : \A y \in S : x <= y
<1>1. PICK x \in S : \A y \in S : ~ (<<y, x>> \in OpToRel(<, Nat))
  BY NatLessThanWellFounded, WFMin
<1>2. \A y \in S : ~ (y < x)
  BY <1>1 DEF OpToRel
<1> QED
  BY <1>2

\* A non-empty set of sent emails has a newest one, and Max is it.
LEMMA Greatest ==
    ASSUME NEW S \in SUBSET Sent, S # {}
    PROVE  /\ Max(S) \in S
           /\ \A y \in S : Max(S) >= y
<1> DEFINE D == {d \in Nat : \E x \in S : d = NumSent - x}
<1>1. \A x \in S : x \in Nat /\ NumSent - x \in D
  BY SentFacts, IntakeNumbers
<1>2. D \in SUBSET Nat /\ D # {}
  BY <1>1
<1>3. PICK d \in D : \A e \in D : d <= e
  BY <1>2, Least
<1>4. PICK x \in S : d = NumSent - x
  OBVIOUS
<1>5. \A y \in S : x >= y
  BY <1>1, <1>3, <1>4, IntakeNumbers
<1> QED
  BY <1>5 DEF Max

\* Either all of the newest n are S, or the one that comes next is among the
\* newest n + 1.
LEMMA NextNewest ==
    ASSUME NEW S \in SUBSET Sent, NEW n \in Nat \ {0}, NEW s \in S,
           s \notin Newest(S, n)
    PROVE  \E u \in Newest(S, n + 1) \ Newest(S, n) : u >= s
<1> DEFINE W == Newest(S, n)
           u == Max(S \ W)
           T == {t \in S : t > u}
<1>1. S \ W \in SUBSET Sent /\ S \ W # {}
  OBVIOUS
<1>2. u \in S \ W /\ \A y \in S \ W : u >= y
  BY <1>1, Greatest
<1> HIDE DEF u
<1>3. S \subseteq Nat /\ IsFiniteSet(S) /\ IsFiniteSet(T)
  BY SentFacts, FS_Subset
<1>4. ASSUME NEW t \in T PROVE t \in W /\ t > u
  <2>1. t \in S /\ t > u
    OBVIOUS
  <2> HIDE DEF W, T
  <2> QED
    BY <1>2, <1>3, <2>1
<1>5. CASE T = {}
  <2>1. Cardinality(T) = 0
    BY <1>5, FS_EmptySet
  <2>2. u \in W
    BY <1>2, <2>1 DEF Newest
  <2> QED
    BY <1>2, <2>2
<1>6. CASE T # {}
  <2>1. PICK v \in T : \A y \in T : v <= y
    BY <1>3, <1>6, Least
  <2>2. {t \in S : t > v} = T \ {v}
    <3>1. ASSUME NEW t \in S PROVE t > v <=> t \in T /\ t # v
      <4>1. t \in Nat /\ u \in Nat /\ v \in Nat /\ v > u /\ v <= v
        BY <1>2, <1>3, <1>4, <2>1
      <4>2. t \in T <=> t > u
        OBVIOUS
      <4>3. t \in T => v <= t
        BY <2>1
      <4> HIDE DEF T
      <4> QED
        BY <4>1, <4>2, <4>3
    <3> QED
      BY <3>1, <2>1
  <2>3. Cardinality(T \ {v}) < n
    BY <1>4, <2>1, <2>2 DEF Newest
  <2>4. Cardinality(T \ {v}) = Cardinality(T) - 1 /\ Cardinality(T) \in Nat
    BY <1>3, <2>1, FS_RemoveElement, FS_CardinalityType
  <2>5. Cardinality(T) < n + 1
    BY <2>3, <2>4
  <2>6. u \in Newest(S, n + 1)
    BY <1>2, <2>5 DEF Newest
  <2> QED
    BY <1>2, <2>6
<1> QED
  BY <1>5, <1>6

\* When nothing that would refuse the webhook is missing, every recent email
\* that lacked its id was retrieved, those beyond the limit included.
LEMMA NothingMissing ==
    ASSUME NEW seen \in SUBSET Sent, NEW answers, old \in Nat,
           ~Missing(seen, answers)
    PROVE  \A s \in seen : s > old => s \in answers
<1> SUFFICES ASSUME NEW s \in seen, s > old, s \notin answers
             PROVE  FALSE
  OBVIOUS
<1>1. Newest(seen, Limit) \subseteq seen /\ Newest(seen, Limit + 1) \subseteq seen
  BY DEF Newest
<1>2. CASE s \in Newest(seen, Limit)
  BY <1>2 DEF Missing, Recent
<1>3. CASE s \notin Newest(seen, Limit)
  <2>1. PICK u \in Newest(seen, Limit + 1) \ Newest(seen, Limit) : u >= s
    BY <1>3, NextNewest, IntakeNumbers
  <2>2. u \in Nat /\ s \in Nat
    BY <1>1, <2>1, SentFacts
  <2>3. u > old
    BY <2>1, <2>2
  <2> QED
    BY <2>1, <2>3 DEF Missing, Recent
<1> QED
  BY <1>2, <1>3

-----------------------------------------------------------------------------
(* The inductive invariant.                                                *)

\* Replies in the conversation a reply started include that reply.
HomeInv == \A r \in Replies : home[r] \in Replies => home[home[r]] = home[r]

\* An email is stored, or it was and its conversation was deleted.
Kept(r) == r \in Stored \union gone

\* A handler that answers, or that found the email stored, has stored it.
StoredOk(h) ==
    /\ call[h].at = "answer" => Kept(call[h].email)
    /\ call[h].at \in {"ancestor", "candidates", "retrieve", "record"} /\ call[h].stored
          => Kept(call[h].email)

\* An email the reply names is there to be found, or was deleted.
Settled(r) ==
    \E e \in References[r] :
        e \in Identified \/ e \in gone \/ (e \in Sent /\ sent[e] = "gone")

\* No email the reply names is recent and lacked its id when the handler looked.
NoneRecent(h) == ~Recent(call[h].seen \intersect References[call[h].email])

\* A handler that will not refuse the webhook found an email the reply names, is
\* about to record one, or missed none that is recent.
LookOk(h) ==
    /\ call[h].at = "record" /\ ~call[h].incomplete =>
          \/ Settled(call[h].email)
          \/ call[h].todo \intersect References[call[h].email] # {}
          \/ NoneRecent(h)
    /\ call[h].at = "project" => Settled(call[h].email) \/ NoneRecent(h)

CallInv == \A h \in Handlers : StoredOk(h) /\ LookOk(h)

IInv == TypeOK /\ HomeInv /\ CallInv /\ TakenWasStored

-----------------------------------------------------------------------------
(* Types.                                                                  *)

Looking == [at : {"look", "answer"}, email : Replies]
Asking == [at : {"ancestor", "candidates"}, email : Replies, stored : BOOLEAN]
Retrieving == [at : {"retrieve"}, email : Replies, stored : BOOLEAN, seen : SUBSET Sent]
Recording == [at : {"record"}, email : Replies, stored : BOOLEAN, seen : SUBSET Sent,
              todo : SUBSET Sent, incomplete : BOOLEAN]
Projecting == [at : {"project"}, email : Replies, seen : SUBSET Sent]

LEMMA CallFacts ==
    ASSUME TypeOK, NEW h \in Handlers
    PROVE  /\ call[h] = Idle <=> call[h].at = "idle"
           /\ call[h].at \in {"idle", "look", "answer", "ancestor", "candidates",
                              "retrieve", "record", "project"}
           /\ call[h].at \in {"look", "answer"} => call[h] \in Looking
           /\ call[h].at \in {"ancestor", "candidates"} => call[h] \in Asking
           /\ call[h].at = "retrieve" => call[h] \in Retrieving
           /\ call[h].at = "record" => call[h] \in Recording
           /\ call[h].at = "project" => call[h] \in Projecting
           /\ call[h].at # "idle" => call[h].email \in Replies
<1>1. \/ call[h] = Idle \/ call[h] \in Looking \/ call[h] \in Asking
      \/ call[h] \in Retrieving \/ call[h] \in Recording \/ call[h] \in Projecting
  BY DEF TypeOK, Working, Looking, Asking, Retrieving, Recording, Projecting
<1> QED
  BY <1>1 DEF Idle, Looking, Asking, Retrieving, Recording, Projecting

LEMMA WorkingFacts ==
    Working = Looking \union Asking \union Retrieving \union Recording \union Projecting
BY DEF Working, Looking, Asking, Retrieving, Recording, Projecting

\* A step of one request leaves the others as they are.
LEMMA CallStep ==
    ASSUME TypeOK, NEW h \in Handlers, NEW c \in Working \union {Idle},
           call' = [call EXCEPT ![h] = c]
    PROVE  /\ call' \in [Handlers -> Working \union {Idle}]
           /\ call'[h] = c
           /\ \A g \in Handlers \ {h} : call'[g] = call[g]
BY DEF TypeOK

LEMMA HydratedType ==
    ASSUME TypeOK, NEW h \in Handlers, NEW seen \in SUBSET Sent,
           call[h].email \in Replies, Hydrated(h, seen)
    PROVE  /\ call' \in [Handlers -> Working \union {Idle}]
           /\ call[h].stored => call'[h] = [at |-> "answer", email |-> call[h].email]
           /\ ~call[h].stored =>
                 call'[h] = [at |-> "project", email |-> call[h].email, seen |-> seen]
           /\ \A g \in Handlers \ {h} : call'[g] = call[g]
<1>1. [at |-> "answer", email |-> call[h].email] \in Working
  BY DEF Working
<1>2. [at |-> "project", email |-> call[h].email, seen |-> seen] \in Working
  BY DEF Working
<1> QED
  BY <1>1, <1>2 DEF Hydrated, TypeOK

LEMMA GoToType ==
    ASSUME TypeOK, NEW h \in Handlers, call[h].at = "ancestor", GoTo(h, "candidates")
    PROVE  /\ call' \in [Handlers -> Working \union {Idle}]
           /\ call'[h] = [call[h] EXCEPT !.at = "candidates"]
           /\ call'[h] \in Asking
           /\ call'[h].at = "candidates"
           /\ call'[h].email = call[h].email
           /\ call'[h].stored = call[h].stored
           /\ \A g \in Handlers \ {h} : call'[g] = call[g]
<1> DEFINE c == [call[h] EXCEPT !.at = "candidates"]
<1>1. call[h] \in Asking
  BY CallFacts
<1>2. c \in Asking /\ c.at = "candidates" /\ c.email = call[h].email
      /\ c.stored = call[h].stored
  BY <1>1 DEF Asking
<1>3. call' = [call EXCEPT ![h] = c]
  BY DEF GoTo
<1> QED
  BY <1>2, <1>3, WorkingFacts, CallStep

LEMMA FinishType ==
    ASSUME TypeOK, NEW h \in Handlers, Finish(h)
    PROVE  /\ call' \in [Handlers -> Working \union {Idle}]
           /\ call'[h] = Idle
           /\ \A g \in Handlers \ {h} : call'[g] = call[g]
BY DEF Finish, TypeOK

LEMMA NewestFacts == ASSUME NEW S, NEW n PROVE Newest(S, n) \subseteq S
BY DEF Newest

LEMMA RetrieveFacts ==
    ASSUME TypeOK, NEW h \in Handlers, NEW answers, Retrieve(h, answers)
    PROVE  /\ call[h] \in Retrieving
           /\ call' \in [Handlers -> Working \union {Idle}]
           /\ call'[h] \in Recording
           /\ call'[h].email = call[h].email
           /\ call'[h].stored = call[h].stored
           /\ call'[h].seen = call[h].seen
           /\ call'[h].todo = answers
           /\ call'[h].incomplete = (answers \intersect References[call[h].email] = {}
                                        /\ Missing(call[h].seen, answers))
           /\ \A g \in Handlers \ {h} : call'[g] = call[g]
<1>1. call[h] \in Retrieving
  BY CallFacts DEF Retrieve
<1>2. answers \subseteq Sent
  BY <1>1, NewestFacts DEF Retrieve, Retrieving
<1> DEFINE i == answers \intersect References[call[h].email] = {}
                  /\ Missing(call[h].seen, answers)
           c == [at |-> "record", email |-> call[h].email, stored |-> call[h].stored,
                 seen |-> call[h].seen, todo |-> answers, incomplete |-> i]
<1>3. i \in BOOLEAN
  BY DEF Missing, Recent
<1>4. call' = [call EXCEPT ![h] = c]
  BY DEF Retrieve
<1>5. c \in Recording
  BY <1>1, <1>2, <1>3 DEF Retrieving, Recording
<1>6. call'[h] = c /\ call' \in [Handlers -> Working \union {Idle}]
      /\ \A g \in Handlers \ {h} : call'[g] = call[g]
  BY <1>4, <1>5, CallStep, WorkingFacts
<1> QED
  BY <1>1, <1>5, <1>6

-----------------------------------------------------------------------------
(* Conversations of stored replies.                                        *)

LEMMA EmailFacts ==
    /\ NoEmail \notin Emails
    /\ \A r \in Replies : r \notin Sent /\ r # NoEmail
    /\ \A s \in Sent : s \notin Replies /\ s # NoEmail
<1>1. NoEmail \notin Sent
  BY IntakeNumbers DEF Sent, NoEmail
<1> QED
  BY <1>1, IntakeHeaders DEF Emails

\* A function of replies that home may become.
HomeOk(f) ==
    /\ f \in [Replies -> Emails \union {NoEmail}]
    /\ \A r \in Replies : f[r] \in Sent => sent[f[r]] # "gone"
    /\ \A r \in Replies : f[r] \in Replies => f[f[r]] = f[r]

\* Merging conversations that replies started into that of a sent email, or
\* into one of them, neither stores nor loses a reply.
LEMMA MergedFacts ==
    ASSUME TypeOK, HomeInv, NEW C \in SUBSET Replies, NEW c,
           \/ c \in Sent /\ sent[c] # "gone"
           \/ c \in Replies /\ c \in C /\ home[c] = c
    PROVE  /\ HomeOk(Merged(C, c))
           /\ \A r \in Replies : Merged(C, c)[r] = NoEmail <=> home[r] = NoEmail
           /\ \A r \in Replies : Merged(C, c)[r] = home[r] \/ Merged(C, c)[r] = c
           /\ c \in Replies => Merged(C, c)[c] = c
<1> DEFINE M == Merged(C, c)
<1>1. /\ DOMAIN M = Replies /\ M = [r \in Replies |-> M[r]]
      /\ \A r \in Replies : M[r] = IF home[r] \in C THEN c ELSE home[r]
  BY DEF Merged
<1> HIDE DEF M
<1>2. c \in Emails /\ c # NoEmail
  BY EmailFacts DEF Emails
<1>3. \A r \in Replies : home[r] \in Emails \union {NoEmail}
  BY DEF TypeOK
<1>4. M \in [Replies -> Emails \union {NoEmail}]
  BY <1>1, <1>2, <1>3
<1>5. \A r \in Replies : M[r] = NoEmail <=> home[r] = NoEmail
  BY <1>1, <1>2, EmailFacts
<1>6. c \in Replies => M[c] = c
  BY <1>1, EmailFacts
<1>7. \A r \in Replies : M[r] = home[r] \/ M[r] = c
  BY <1>1
<1>8. ASSUME NEW r \in Replies, M[r] \in Sent PROVE sent[M[r]] # "gone"
  <2>1. CASE M[r] = c
    BY <1>8, <2>1, EmailFacts
  <2>2. CASE M[r] = home[r]
    BY <1>8, <2>2 DEF TypeOK
  <2> QED
    BY <1>7, <2>1, <2>2
<1>9. ASSUME NEW r \in Replies, M[r] \in Replies PROVE M[M[r]] = M[r]
  <2>1. CASE M[r] = c
    BY <1>6, <1>9, <2>1
  <2>2. CASE M[r] # c
    <3>1. M[r] = home[r] /\ home[r] \notin C /\ home[home[r]] = home[r]
      BY <1>1, <1>9, <2>2 DEF HomeInv
    <3> QED
      BY <1>1, <1>9, <3>1
  <2> QED
    BY <2>1, <2>2
<1> QED
  BY <1>4, <1>5, <1>6, <1>7, <1>8, <1>9 DEF HomeOk, M

\* Recording an RFC id moves replies from conversation to conversation.
LEMMA RecordIdFacts ==
    ASSUME TypeOK, HomeInv, NEW s \in Sent, RecordId(s), UNCHANGED sent
    PROVE  /\ known' = known \union {s}
           /\ known' \subseteq {t \in Sent : sent'[t] = "ACCEPTED"}
           /\ HomeOk(home') /\ HomeOk(home)' /\ HomeInv'
           /\ Stored' = Stored
           /\ \A r \in Replies : home[r] = NoEmail => home'[r] = NoEmail
<1> DEFINE C == {home[r] : r \in {r \in Stored : Answered[r] = s}} \intersect Replies
<1>1. home' = Merged(C, s) /\ sent[s] = "ACCEPTED" /\ known' = known \union {s}
  BY DEF RecordId
<1>a. C \in SUBSET Replies /\ sent[s] # "gone"
  BY <1>1
<1> HIDE DEF C
<1>2. /\ HomeOk(home')
      /\ \A r \in Replies : home'[r] = NoEmail <=> home[r] = NoEmail
  BY <1>1, <1>a, MergedFacts
<1>3. HomeOk(home)' /\ HomeInv'
  BY <1>2 DEF HomeOk, HomeInv
<1> QED
  BY <1>1, <1>2, <1>3 DEF Stored, TypeOK

\* The conversation of a related email is one a reply started, that is there,
\* or that of a sent email, that is not deleted.
LEMMA RelatedFacts ==
    ASSUME TypeOK, HomeInv, NEW r \in Replies, NEW e \in Related(r)
    PROVE  \/ ConvOf(e) \in Sent /\ sent[ConvOf(e)] # "gone"
           \/ ConvOf(e) \in Replies /\ home[ConvOf(e)] = ConvOf(e)
<1>1. e \in Identified \/ e \in Stored
  BY DEF Related
<1>2. CASE e \in Stored
  <2>1. e \in Replies /\ home[e] \in Emails /\ ConvOf(e) = home[e]
    BY <1>2 DEF Stored, ConvOf, TypeOK
  <2> QED
    BY <2>1 DEF Emails, TypeOK, HomeInv
<1>3. CASE e \in known
  BY <1>3, EmailFacts DEF ConvOf, TypeOK
<1> QED
  BY <1>1, <1>2, <1>3 DEF Identified

\* Storing a reply moves others from conversation to conversation, and the reply
\* starts one only if no related email was found.
LEMMA ProjectFacts ==
    ASSUME TypeOK, HomeInv, NEW h \in Handlers, Project(h)
    PROVE  LET r == call[h].email
           IN  /\ r \in Replies
               /\ HomeOk(home)' /\ HomeInv'
               /\ Stored' = Stored \union {r}
               /\ \A q \in Replies :
                     home[q] = NoEmail /\ home'[q] # NoEmail => q = r
               /\ home[r] = NoEmail /\ home'[r] = r => Related(r) = {}
<1> DEFINE r == call[h].email
           homes == {ConvOf(e) : e \in Related(r)}
           choice == IF homes = {} THEN {r}
                     ELSE IF homes \intersect Sent # {} THEN homes \intersect Sent
                     ELSE homes
           C == homes \intersect Replies
<1>1. r \in Replies
  BY CallFacts DEF Project, Projecting
<1>2. HomeOk(home)
  BY DEF HomeOk, TypeOK, HomeInv
<1>3. UNCHANGED sent
  BY DEF Project, outboundVars
<1>4. CASE r \in Stored
  <2>1. UNCHANGED home
    BY <1>4 DEF Project
  <2> QED
    BY <1>1, <1>2, <1>3, <1>4, <2>1, EmailFacts DEF HomeOk, HomeInv, Stored
<1>5. CASE r \notin Stored
  <2>1. PICK c \in choice : home' = [Merged(C, c) EXCEPT ![r] = c]
    BY <1>5 DEF Project
  <2>2. home[r] = NoEmail
    BY <1>1, <1>5 DEF Stored
  <2>3. CASE homes = {}
    <3>1. c = r /\ Merged(C, c) = home
      BY <2>1, <2>3 DEF Merged, TypeOK
    <3>2. home' = [home EXCEPT ![r] = r]
      BY <2>1, <3>1
    <3>3. Related(r) = {}
      BY <2>3
    <3>4. HomeOk(home')
      BY <1>1, <1>2, <2>2, <3>2, EmailFacts DEF HomeOk, Emails
    <3> QED
      BY <1>1, <1>3, <2>2, <3>2, <3>3, <3>4, EmailFacts DEF HomeOk, HomeInv, Stored, TypeOK
  <2>4. CASE homes # {}
    <3>1. c \in homes
      BY <2>1, <2>4
    <3>2. PICK e \in Related(r) : c = ConvOf(e)
      BY <3>1
    <3>3. \/ c \in Sent /\ sent[c] # "gone"
          \/ c \in Replies /\ c \in C /\ home[c] = c
      BY <1>1, <3>1, <3>2, RelatedFacts
    <3>4. c # r /\ c \in Emails /\ c # NoEmail
      BY <1>1, <2>2, <3>3, EmailFacts DEF Emails
    <3> DEFINE M == Merged(C, c)
    <3>5. /\ HomeOk(M)
          /\ \A q \in Replies : M[q] = NoEmail <=> home[q] = NoEmail
          /\ c \in Replies => M[c] = c
      BY <3>3, MergedFacts
    <3>6. home' = [M EXCEPT ![r] = c]
      BY <2>1
    <3> HIDE DEF M
    <3>7. /\ home' \in [Replies -> Emails \union {NoEmail}]
          /\ home'[r] = c
          /\ \A q \in Replies \ {r} : home'[q] = M[q]
      BY <1>1, <3>4, <3>5, <3>6 DEF HomeOk
    <3>8. \A q \in Replies : M[q] # r
      BY <1>1, <2>2, <3>5, EmailFacts DEF HomeOk
    <3>9. HomeOk(home')
      BY <1>1, <3>3, <3>4, <3>5, <3>7, <3>8, EmailFacts DEF HomeOk
    <3> QED
      BY <1>1, <1>3, <2>2, <3>4, <3>5, <3>7, <3>9, EmailFacts DEF HomeOk, HomeInv, Stored
  <2> QED
    BY <2>3, <2>4
<1> QED
  BY <1>4, <1>5

LEMMA DeleteFacts ==
    ASSUME TypeOK, HomeInv, NEW c \in Emails, Delete(c)
    PROVE  /\ sent' \in [Sent -> {"PENDING", "ACCEPTED", "gone"}]
           /\ known' \subseteq {s \in Sent : sent'[s] = "ACCEPTED"}
           /\ \A s \in Sent : sent[s] = "gone" => sent'[s] = "gone"
           /\ HomeOk(home)' /\ HomeInv'
           /\ gone' \subseteq Replies /\ gone \subseteq gone'
           /\ Stored \subseteq Stored' \union gone'
           /\ \A s \in known : s \in known' \/ sent'[s] = "gone"
           /\ \A r \in Replies : home[r] = NoEmail => home'[r] = NoEmail
<1>1. /\ sent' = [s \in Sent |-> IF s = c THEN "gone" ELSE sent[s]]
      /\ known' = known \ {c}
      /\ gone' = gone \union {r \in Stored : home[r] = c}
      /\ home' = [r \in Replies |-> IF home[r] = c THEN NoEmail ELSE home[r]]
  BY DEF Delete
<1>2. c # NoEmail
  BY EmailFacts
<1>a. \A r \in Replies : home[r] \in Emails \union {NoEmail}
  BY DEF TypeOK
<1>b. \A r \in Replies :
         \/ home'[r] = home[r] /\ home[r] # c
         \/ home'[r] = NoEmail /\ home[r] = c
  BY <1>1
<1>c. home' \in [Replies -> Emails \union {NoEmail}]
  BY <1>1, <1>a
<1>3. /\ home' \in [Replies -> Emails \union {NoEmail}]
      /\ \A r \in Replies :
            \/ home'[r] = home[r] /\ home[r] # c
            \/ home'[r] = NoEmail /\ home[r] = c
  BY <1>b, <1>c
<1>4. ASSUME NEW r \in Replies, home'[r] \in Replies
      PROVE  home'[home'[r]] = home'[r]
  BY <1>3, <1>4, EmailFacts DEF HomeInv
<1>5. ASSUME NEW r \in Replies, home'[r] \in Sent
      PROVE  sent'[home'[r]] # "gone"
  BY <1>1, <1>3, <1>5, EmailFacts DEF TypeOK
<1>6. HomeOk(home)' /\ HomeInv'
  BY <1>3, <1>4, <1>5 DEF HomeOk, HomeInv
<1>7. Stored \subseteq Stored' \union gone'
  BY <1>1, <1>3 DEF Stored
<1> QED
  BY <1>1, <1>2, <1>3, <1>6, <1>7 DEF TypeOK, Stored

\* Recording the newest of the retrieved ids, unless its email is gone.
RecordFacts(h) ==
    LET s == Max(call[h].todo)
    IN  /\ call[h] \in Recording
        /\ s \in Sent
        /\ call' \in [Handlers -> Working \union {Idle}]
        /\ \A g \in Handlers \ {h} : call'[g] = call[g]
        /\ UNCHANGED <<sent, old, inbox, ledger, gone, failures>>
        /\ \/ /\ RecordId(s)
              /\ call'[h] \in Recording
              /\ call'[h].email = call[h].email
              /\ call'[h].stored = call[h].stored
              /\ call'[h].seen = call[h].seen
              /\ call'[h].incomplete = call[h].incomplete
              /\ call'[h].todo = call[h].todo \ {s}
           \/ /\ call'[h] = Idle
              /\ UNCHANGED <<known, home>>

LEMMA RecordLemma ==
    ASSUME TypeOK, NEW h \in Handlers, Record(h)
    PROVE  RecordFacts(h)
<1> DEFINE s == Max(call[h].todo)
           c == [call[h] EXCEPT !.todo = call[h].todo \ {s}]
<1>1. call[h] \in Recording /\ call[h].todo # {}
  BY CallFacts DEF Record
<1>2. s \in Sent
  <2>1. call[h].todo \in SUBSET Sent
    BY <1>1 DEF Recording
  <2> QED
    BY <1>1, <2>1, Greatest
<1>3. UNCHANGED <<sent, old, inbox, ledger, gone, failures>>
  BY DEF Record
<1>4. CASE RecordId(s) /\ call' = [call EXCEPT ![h].todo = call[h].todo \ {s}]
  <2>1. call' = [call EXCEPT ![h] = c]
    BY <1>4
  <2>2. /\ c \in Recording
        /\ c.email = call[h].email /\ c.stored = call[h].stored
        /\ c.seen = call[h].seen /\ c.incomplete = call[h].incomplete
        /\ c.todo = call[h].todo \ {s}
    BY <1>1 DEF Recording
  <2> HIDE DEF c, s
  <2>3. /\ call' \in [Handlers -> Working \union {Idle}]
        /\ call'[h] = c
        /\ \A g \in Handlers \ {h} : call'[g] = call[g]
    BY <2>1, <2>2, CallStep, WorkingFacts
  <2> QED
    BY <1>1, <1>2, <1>3, <1>4, <2>2, <2>3 DEF RecordFacts, s
<1>5. CASE Finish(h) /\ UNCHANGED <<known, home>>
  BY <1>1, <1>2, <1>3, <1>5, FinishType DEF RecordFacts
<1> QED
  BY <1>4, <1>5 DEF Record

-----------------------------------------------------------------------------
(* The invariant of types.                                                 *)

Types == TypeOK /\ HomeInv

LEMMA TypesInit == Init => Types
<1> SUFFICES ASSUME Init PROVE Types
  OBVIOUS
<1> QED
  BY EmailFacts, IntakeNumbers DEF Init, Types, TypeOK, HomeInv, Working

LEMMA TypesStep == Types /\ [Next]_vars => Types'
<1> SUFFICES ASSUME Types, [Next]_vars
             PROVE  Types'
  OBVIOUS
<1> USE DEF Types
<1>0. HomeOk(home)' /\ TypeOK
  => /\ home' \in [Replies -> Emails \union {NoEmail}]
     /\ \A r \in Replies : home'[r] \in Sent => sent'[home'[r]] # "gone"
  BY DEF HomeOk
<1>1. ASSUME NEW s \in Sent, Accept(s) PROVE Types'
  BY <1>1 DEF Accept, TypeOK, HomeInv
<1>2. ASSUME NEW s \in Sent, LearnId(s) PROVE Types'
  BY <1>0, <1>2, RecordIdFacts DEF LearnId, TypeOK
<1>3. CASE Age
  BY <1>3, IntakeNumbers DEF Age, TypeOK, HomeInv
<1>4. ASSUME NEW r \in Replies, Receive(r) PROVE Types'
  BY <1>4 DEF Receive, TypeOK, HomeInv, outboundVars
<1>5. ASSUME NEW c \in Emails, Delete(c) PROVE Types'
  <2>1. UNCHANGED <<old, inbox, ledger, call, failures>>
    BY <1>5 DEF Delete
  <2> QED
    BY <1>0, <1>5, <2>1, DeleteFacts DEF TypeOK
<1>6. ASSUME NEW h \in Handlers, NEW r \in Replies, Post(h, r) PROVE Types'
  <2>1. [at |-> "look", email |-> r] \in Working
    BY DEF Working
  <2>2. call' \in [Handlers -> Working \union {Idle}]
    BY <1>6, <2>1 DEF Post, TypeOK
  <2> QED
    BY <1>6, <2>2 DEF Post, TypeOK, HomeInv, outboundVars
<1>7. ASSUME NEW h \in Handlers, Look(h) PROVE Types'
  <2>1. call[h].email \in Replies
    BY <1>7, CallFacts DEF Look
  <2>2. [at |-> "ancestor", email |-> call[h].email, stored |-> call[h].email \in Stored]
            \in Working
    BY <2>1 DEF Working
  <2>3. call' \in [Handlers -> Working \union {Idle}]
    BY <1>7, <2>2 DEF Look, TypeOK
  <2> QED
    BY <1>7, <2>1, <2>3 DEF Look, TypeOK, HomeInv, outboundVars
<1>8. ASSUME NEW h \in Handlers, FindAncestor(h) PROVE Types'
  <2>1. call[h].email \in Replies
    BY <1>8, CallFacts DEF FindAncestor
  <2>2. call' \in [Handlers -> Working \union {Idle}]
    BY <1>8, <2>1, HydratedType, GoToType DEF FindAncestor
  <2> QED
    BY <1>8, <2>2 DEF FindAncestor, TypeOK, HomeInv, outboundVars
<1>9. ASSUME NEW h \in Handlers, ReadCandidates(h) PROVE Types'
  <2>1. call[h] \in Asking
    BY <1>9, CallFacts DEF ReadCandidates
  <2>2. Unidentified \in SUBSET Sent
    BY DEF Unidentified
  <2>3. [at |-> "retrieve", email |-> call[h].email, stored |-> call[h].stored,
         seen |-> Unidentified] \in Retrieving
    BY <2>1, <2>2 DEF Asking, Retrieving
  <2>4. call' \in [Handlers -> Working \union {Idle}]
    BY <1>9, <2>1, <2>3, HydratedType, CallStep, WorkingFacts DEF ReadCandidates, Asking
  <2> QED
    BY <1>9, <2>4 DEF ReadCandidates, TypeOK, HomeInv, outboundVars
<1>10. ASSUME NEW h \in Handlers, NEW answers, Retrieve(h, answers) PROVE Types'
  BY <1>10, RetrieveFacts DEF Retrieve, TypeOK, HomeInv, outboundVars
<1>11. ASSUME NEW h \in Handlers, Record(h) PROVE Types'
  <2>1. RecordFacts(h)
    BY <1>11, RecordLemma
  <2> DEFINE s == Max(call[h].todo)
  <2>2. s \in Sent /\ UNCHANGED sent
    BY <2>1 DEF RecordFacts
  <2>3. CASE RecordId(s)
    <3>1. known' \subseteq {t \in Sent : sent'[t] = "ACCEPTED"} /\ HomeOk(home)' /\ HomeInv'
      BY <2>2, <2>3, RecordIdFacts
    <3> QED
      BY <1>0, <2>1, <3>1 DEF RecordFacts, TypeOK
  <2>4. CASE UNCHANGED <<known, home>>
    BY <2>1, <2>4 DEF RecordFacts, TypeOK, HomeInv
  <2> QED
    BY <2>1, <2>3, <2>4 DEF RecordFacts
<1>12. ASSUME NEW h \in Handlers, Judge(h) PROVE Types'
  <2>1. call[h] \in Recording
    BY <1>12, CallFacts DEF Judge
  <2>2. call' \in [Handlers -> Working \union {Idle}]
    BY <1>12, <2>1, HydratedType, FinishType DEF Judge, Recording
  <2> QED
    BY <1>12, <2>2 DEF Judge, TypeOK, HomeInv, outboundVars
<1>13. ASSUME NEW h \in Handlers, Project(h) PROVE Types'
  <2>1. [at |-> "answer", email |-> call[h].email] \in Working
    BY <1>13, ProjectFacts DEF Working
  <2>2. call' \in [Handlers -> Working \union {Idle}]
    BY <1>13, <2>1, CallStep DEF Project
  <2>3. UNCHANGED <<outboundVars, inbox, ledger, gone, failures>>
    BY <1>13 DEF Project
  <2> QED
    BY <1>0, <1>13, <2>2, <2>3, ProjectFacts DEF TypeOK, outboundVars
<1>14. ASSUME NEW h \in Handlers, Answer(h) PROVE Types'
  <2>1. call[h].email \in Replies
    BY <1>14, CallFacts DEF Answer
  <2> QED
    BY <1>14, <2>1, FinishType DEF Answer, TypeOK, HomeInv, outboundVars
<1>15. ASSUME NEW h \in Handlers, Fail(h) PROVE Types'
  BY <1>15, FinishType, IntakeNumbers DEF Fail, TypeOK, HomeInv, outboundVars
<1>16. CASE UNCHANGED vars
  BY <1>16 DEF vars, outboundVars, TypeOK, HomeInv
<1> QED
  BY <1>1, <1>2, <1>3, <1>4, <1>5, <1>6, <1>7, <1>8, <1>9, <1>10, <1>11, <1>12,
     <1>13, <1>14, <1>15, <1>16 DEF Next, Handle

\* The variables keep to their types.
THEOREM TypeCorrect == Spec => []TypeOK
<1>1. Types => TypeOK
  BY DEF Types
<1> QED
  BY <1>1, TypesInit, TypesStep, PTL DEF Spec

-----------------------------------------------------------------------------
(* What is never undone.                                                   *)

\* What is stored stays or is deleted, what is settled stays settled, and emails
\* grow older.
Grows ==
    /\ \A r \in Replies : Kept(r) => Kept(r)'
    /\ \A r \in Replies : Settled(r) => Settled(r)'
    /\ old \in Nat /\ old' \in Nat /\ old <= old'

LEMMA GrowsFrom ==
    ASSUME TypeOK, TypeOK', Stored \subseteq Stored' \union gone', gone \subseteq gone',
           \A s \in known : s \in known' \/ sent'[s] = "gone",
           \A s \in Sent : sent[s] = "gone" => sent'[s] = "gone",
           old' = old \/ old' = old + 1
    PROVE  Grows
<1>1. old \in Nat /\ old' \in Nat /\ old <= old'
  BY IntakeNumbers DEF TypeOK
<1>2. \A r \in Replies : Kept(r) => Kept(r)'
  BY DEF Kept
<1>3. ASSUME NEW r \in Replies, Settled(r) PROVE Settled(r)'
  <2>1. PICK e \in References[r] :
            e \in Identified \/ e \in gone \/ (e \in Sent /\ sent[e] = "gone")
    BY <1>3 DEF Settled
  <2>2. e \in Identified' \/ e \in gone' \/ (e \in Sent /\ sent'[e] = "gone")
    BY <2>1 DEF Identified, TypeOK
  <2> QED
    BY <2>2 DEF Settled
<1> QED
  BY <1>1, <1>2, <1>3 DEF Grows

LEMMA GrowsStep == Types /\ [Next]_vars => Grows
<1> SUFFICES ASSUME Types, [Next]_vars
             PROVE  Grows
  OBVIOUS
<1>1. TypeOK /\ TypeOK' /\ HomeInv
  BY TypesStep DEF Types
<1>2. CASE UNCHANGED <<sent, known, home, gone>> /\ (old' = old \/ old' = old + 1)
  BY <1>1, <1>2, GrowsFrom DEF Stored
<1>3. ASSUME NEW s \in Sent, Accept(s) PROVE Grows
  <2>1. \A t \in Sent : sent[t] = "gone" => sent'[t] = "gone"
    BY <1>1, <1>3 DEF Accept, TypeOK
  <2> QED
    BY <1>1, <1>3, <2>1, GrowsFrom DEF Accept, Stored
<1>4. ASSUME NEW s \in Sent, RecordId(s), UNCHANGED <<sent, old, gone>>
      PROVE  Grows
  <2>1. known' = known \union {s} /\ Stored' = Stored
    BY <1>1, <1>4, RecordIdFacts
  <2> QED
    BY <1>1, <1>4, <2>1, GrowsFrom
<1>5. ASSUME NEW s \in Sent, LearnId(s) PROVE Grows
  BY <1>4, <1>5 DEF LearnId
<1>6. ASSUME NEW c \in Emails, Delete(c) PROVE Grows
  <2>1. UNCHANGED old
    BY <1>6 DEF Delete
  <2> QED
    BY <1>1, <1>6, <2>1, DeleteFacts, GrowsFrom
<1>7. ASSUME NEW h \in Handlers, Record(h) PROVE Grows
  <2>1. RecordFacts(h)
    BY <1>1, <1>7, RecordLemma
  <2> QED
    BY <1>2, <1>4, <2>1 DEF RecordFacts
<1>8. ASSUME NEW h \in Handlers, Project(h) PROVE Grows
  <2>1. Stored \subseteq Stored'
    BY <1>1, <1>8, ProjectFacts
  <2>2. UNCHANGED <<sent, known, old, gone>>
    BY <1>8 DEF Project, outboundVars
  <2> QED
    BY <1>1, <2>1, <2>2, GrowsFrom
<1> USE DEF outboundVars
<1>9. CASE Age
  BY <1>2, <1>9 DEF Age
<1>10. ASSUME NEW r \in Replies, Receive(r) PROVE Grows
  BY <1>2, <1>10 DEF Receive
<1>11. ASSUME NEW h \in Handlers, NEW r \in Replies, Post(h, r) PROVE Grows
  BY <1>2, <1>11 DEF Post
<1>12. ASSUME NEW h \in Handlers,
              Look(h) \/ FindAncestor(h) \/ ReadCandidates(h) \/ Judge(h) \/ Answer(h)
              \/ Fail(h) \/ \E answers : Retrieve(h, answers)
       PROVE  Grows
  BY <1>2, <1>12 DEF Look, FindAncestor, ReadCandidates, Judge, Answer, Fail, Retrieve
<1>13. CASE UNCHANGED vars
  BY <1>2, <1>13 DEF vars
<1> QED
  BY <1>3, <1>5, <1>6, <1>7, <1>8, <1>9, <1>10, <1>11, <1>12, <1>13 DEF Next, Handle

-----------------------------------------------------------------------------
(* The steps of a request.                                                 *)

\* A request that did not move keeps its part of the invariant.
LEMMA CallKept ==
    ASSUME TypeOK, Grows, NEW h \in Handlers, StoredOk(h), LookOk(h), call'[h] = call[h]
    PROVE  (StoredOk(h) /\ LookOk(h))'
<1>1. call[h].at # "idle" => call[h].email \in Replies
  BY CallFacts
<1>2. call[h].at \in {"record", "project"} =>
        call[h].seen \subseteq Sent /\ (NoneRecent(h) => NoneRecent(h)')
  <2>1. call[h].at \in {"record", "project"} => call[h].seen \subseteq Sent
    BY CallFacts DEF Recording, Projecting
  <2>2. ASSUME call[h].at \in {"record", "project"}, NoneRecent(h),
               NEW s \in call[h].seen \intersect References[call[h].email], s > old'
        PROVE  FALSE
    <3>1. s \in Nat /\ old \in Nat /\ old' \in Nat /\ old <= old'
      BY <2>1, <2>2, SentFacts DEF Grows
    <3>2. s > old
      BY <2>2, <3>1
    <3> QED
      BY <2>2, <3>2 DEF NoneRecent, Recent
  <2> QED
    BY <2>1, <2>2 DEF NoneRecent, Recent
<1>3. StoredOk(h)'
  BY <1>1 DEF StoredOk, Grows
<1>4. LookOk(h)'
  BY <1>1, <1>2 DEF LookOk, Grows
<1> QED
  BY <1>3, <1>4

\* The message is hydrated: a reply that was stored is answered, another one is
\* projected with what the handler saw.
LEMMA HydratedOk ==
    ASSUME TypeOK, Grows, NEW h \in Handlers, NEW seen \in SUBSET Sent,
           call[h].at \in {"ancestor", "candidates", "record"},
           StoredOk(h), Hydrated(h, seen), UNCHANGED old,
           \/ Settled(call[h].email)
           \/ ~Recent(seen \intersect References[call[h].email])
    PROVE  (StoredOk(h) /\ LookOk(h))'
<1>1. PICK r \in Replies : r = call[h].email
  BY CallFacts
<1>2. Settled(r) => Settled(r)'
  BY <1>1 DEF Grows
<1>3. CASE call[h].stored
  <2>1. call'[h] = [at |-> "answer", email |-> call[h].email]
    BY <1>1, <1>3, HydratedType
  <2>2. call'[h].at = "answer" /\ call'[h].email = call[h].email
    BY <2>1
  <2>3. Kept(r)'
    BY <1>1, <1>3 DEF StoredOk, Grows
  <2> QED
    BY <1>1, <2>2, <2>3 DEF StoredOk, LookOk
<1>4. CASE ~call[h].stored
  <2>1. call'[h] = [at |-> "project", email |-> call[h].email, seen |-> seen]
    BY <1>1, <1>4, HydratedType
  <2>2. call'[h].at = "project" /\ call'[h].email = call[h].email /\ call'[h].seen = seen
    BY <2>1
  <2>3. Settled(r)' \/ NoneRecent(h)'
    BY <1>1, <1>2, <2>2 DEF NoneRecent, Recent
  <2> QED
    BY <1>1, <2>2, <2>3 DEF StoredOk, LookOk
<1> QED
  BY <1>3, <1>4

LEMMA LookStep ==
    ASSUME TypeOK, Grows, NEW h \in Handlers, Look(h)
    PROVE  (StoredOk(h) /\ LookOk(h))'
<1>1. PICK r \in Replies : r = call[h].email
  BY CallFacts DEF Look
<1>2. call'[h] = [at |-> "ancestor", email |-> r, stored |-> r \in Stored]
  BY <1>1 DEF Look, TypeOK
<1>3. /\ call'[h].at = "ancestor" /\ call'[h].email = r
      /\ call'[h].stored = (r \in Stored)
  BY <1>2
<1>4. r \in Stored => Kept(r)'
  BY DEF Kept, Grows
<1> QED
  BY <1>3, <1>4 DEF StoredOk, LookOk

LEMMA AncestorStep ==
    ASSUME TypeOK, Grows, NEW h \in Handlers, FindAncestor(h), StoredOk(h)
    PROVE  (StoredOk(h) /\ LookOk(h))'
<1>1. PICK r \in Replies : r = call[h].email
  BY CallFacts DEF FindAncestor
<1>2. call[h].at = "ancestor" /\ UNCHANGED old
  BY DEF FindAncestor, outboundVars
<1>3. CASE Hydrated(h, {})
  <2>1. ~Recent({})
    BY DEF Recent
  <2> QED
    BY <1>2, <1>3, <2>1, HydratedOk
<1>4. CASE GoTo(h, "candidates")
  <2>1. /\ call'[h].at = "candidates" /\ call'[h].email = r
        /\ call'[h].stored = call[h].stored
    BY <1>1, <1>2, <1>4, GoToType
  <2>2. call[h].stored => Kept(r)'
    BY <1>1, <1>2 DEF StoredOk, Grows
  <2> QED
    BY <2>1, <2>2 DEF StoredOk, LookOk
<1> QED
  BY <1>3, <1>4 DEF FindAncestor

LEMMA CandidatesStep ==
    ASSUME TypeOK, Grows, NEW h \in Handlers, ReadCandidates(h), StoredOk(h)
    PROVE  (StoredOk(h) /\ LookOk(h))'
<1>1. PICK r \in Replies : r = call[h].email
  BY CallFacts DEF ReadCandidates
<1>2. call[h].at = "candidates" /\ UNCHANGED old
  BY DEF ReadCandidates, outboundVars
<1>3. CASE Hydrated(h, {})
  <2>1. ~Recent({})
    BY DEF Recent
  <2> QED
    BY <1>2, <1>3, <2>1, HydratedOk
<1>4. CASE call' = [call EXCEPT ![h] =
                      [at |-> "retrieve", email |-> call[h].email,
                       stored |-> call[h].stored, seen |-> Unidentified]]
  <2>1. call'[h] = [at |-> "retrieve", email |-> r,
                    stored |-> call[h].stored, seen |-> Unidentified]
    BY <1>1, <1>4 DEF TypeOK
  <2>2. /\ call'[h].at = "retrieve" /\ call'[h].email = r
        /\ call'[h].stored = call[h].stored
    BY <2>1
  <2>3. call[h].stored => Kept(r)'
    BY <1>1, <1>2 DEF StoredOk, Grows
  <2> QED
    BY <2>2, <2>3 DEF StoredOk, LookOk
<1> QED
  BY <1>3, <1>4 DEF ReadCandidates

\* When nothing recent is missing, the emails named were retrieved or are old.
LEMMA RetrieveStep ==
    ASSUME TypeOK, Grows, NEW h \in Handlers, NEW answers, Retrieve(h, answers),
           StoredOk(h)
    PROVE  (StoredOk(h) /\ LookOk(h))'
<1>1. PICK r \in Replies : r = call[h].email
  BY CallFacts DEF Retrieve
<1>2. PICK seen \in SUBSET Sent : seen = call[h].seen
  BY RetrieveFacts DEF Retrieving
<1>3. call[h].at = "retrieve" /\ UNCHANGED old /\ old \in Nat
  BY DEF Retrieve, outboundVars, Grows
<1>4. /\ call'[h].at = "record" /\ call'[h].email = r /\ call'[h].seen = seen
      /\ call'[h].stored = call[h].stored /\ call'[h].todo = answers
      /\ call'[h].incomplete
           = (answers \intersect References[r] = {} /\ Missing(seen, answers))
  BY <1>1, <1>2, RetrieveFacts DEF Recording
<1>5. call[h].stored => Kept(r)'
  BY <1>1, <1>3 DEF StoredOk, Grows
<1>6. ASSUME ~Missing(seen, answers), answers \intersect References[r] = {}
      PROVE  NoneRecent(h)'
  <2>1. \A s \in seen : s > old => s \in answers
    BY <1>3, <1>6, NothingMissing
  <2>2. ~ \E s \in seen \intersect References[r] : s > old
    BY <1>6, <2>1
  <2> QED
    BY <1>3, <1>4, <2>2 DEF NoneRecent, Recent
<1> QED
  BY <1>4, <1>5, <1>6 DEF StoredOk, LookOk

\* A recorded email that the reply names is known from then on.
LEMMA RecordStep ==
    ASSUME TypeOK, HomeInv, Grows, NEW h \in Handlers, Record(h), StoredOk(h), LookOk(h)
    PROVE  (StoredOk(h) /\ LookOk(h))'
<1> DEFINE s == Max(call[h].todo)
<1>1. PICK r \in Replies : r = call[h].email
  BY CallFacts DEF Record
<1>2. RecordFacts(h) /\ call[h].at = "record"
  BY RecordLemma DEF Record
<1> HIDE DEF s
<1>3. CASE RecordId(s) /\ call'[h] \in Recording /\ call'[h].email = call[h].email
        /\ call'[h].stored = call[h].stored /\ call'[h].seen = call[h].seen
        /\ call'[h].incomplete = call[h].incomplete
        /\ call'[h].todo = call[h].todo \ {s}
  <2>1. call'[h].at = "record"
    BY <1>3 DEF Recording
  <2>2. s \in Sent /\ UNCHANGED <<sent, old>>
    BY <1>2 DEF RecordFacts, s
  <2>3. s \in known'
    BY <1>3, <2>2, RecordIdFacts
  <2>4. call[h].stored => Kept(r)'
    BY <1>1, <1>2 DEF StoredOk, Grows
  <2>5. Settled(r) => Settled(r)'
    BY DEF Grows
  <2>6. s \in References[r] => Settled(r)'
    BY <2>3 DEF Settled, Identified
  <2>7. NoneRecent(h) => NoneRecent(h)'
    BY <1>3, <2>2 DEF NoneRecent, Recent
  <2>8. \/ s \in References[r]
        \/ call[h].todo \intersect References[r] = {}
        \/ (call[h].todo \ {s}) \intersect References[r] # {}
    OBVIOUS
  <2>9. ~call[h].incomplete =>
            \/ Settled(r)'
            \/ (call[h].todo \ {s}) \intersect References[r] # {}
            \/ NoneRecent(h)'
    BY <1>1, <1>2, <2>5, <2>6, <2>7, <2>8 DEF LookOk
  <2> QED
    BY <1>1, <1>3, <2>1, <2>4, <2>9 DEF StoredOk, LookOk
<1>4. CASE call'[h] = Idle
  BY <1>4 DEF Idle, StoredOk, LookOk
<1> QED
  BY <1>2, <1>3, <1>4 DEF RecordFacts, s

LEMMA JudgeStep ==
    ASSUME TypeOK, Grows, NEW h \in Handlers, Judge(h), StoredOk(h), LookOk(h)
    PROVE  (StoredOk(h) /\ LookOk(h))'
<1>1. /\ call[h].at = "record" /\ call[h].todo = {} /\ UNCHANGED old
      /\ IF call[h].incomplete THEN Finish(h) ELSE Hydrated(h, call[h].seen)
  BY DEF Judge, outboundVars
<1>2. call[h].seen \in SUBSET Sent
  BY <1>1, CallFacts DEF Recording
<1>3. CASE call[h].incomplete
  <2>1. call'[h] = Idle
    BY <1>1, <1>3, FinishType
  <2> QED
    BY <2>1 DEF Idle, StoredOk, LookOk
<1>4. CASE ~call[h].incomplete
  <2>1. Settled(call[h].email) \/ ~Recent(call[h].seen \intersect References[call[h].email])
    BY <1>1, <1>4 DEF LookOk, NoneRecent
  <2> QED
    BY <1>1, <1>2, <1>4, <2>1, HydratedOk
<1> QED
  BY <1>3, <1>4

LEMMA ProjectStep ==
    ASSUME TypeOK, HomeInv, NEW h \in Handlers, Project(h)
    PROVE  (StoredOk(h) /\ LookOk(h))'
<1>1. PICK r \in Replies : r = call[h].email
  BY ProjectFacts
<1>2. r \in Stored'
  BY <1>1, ProjectFacts
<1>3. call'[h] = [at |-> "answer", email |-> r]
  BY <1>1 DEF Project, TypeOK
<1>4. call'[h].at = "answer" /\ call'[h].email = r
  BY <1>3
<1> QED
  BY <1>2, <1>4 DEF StoredOk, LookOk, Kept

\* Every step of a request keeps what the request knows true.
LEMMA HandleStep ==
    ASSUME IInv, Grows, NEW h \in Handlers, Handle(h) \/ Fail(h)
    PROVE  /\ (StoredOk(h) /\ LookOk(h))'
           /\ \A g \in Handlers \ {h} : call'[g] = call[g]
<1> USE DEF IInv, CallInv
<1>1. CASE Look(h)
  BY <1>1, LookStep DEF Look, TypeOK
<1>2. CASE FindAncestor(h)
  <2>1. call[h].at = "ancestor" /\ call[h].email \in Replies
    BY <1>2, CallFacts DEF FindAncestor
  <2> QED
    BY <1>2, <2>1, AncestorStep, HydratedType, GoToType DEF FindAncestor
<1>3. CASE ReadCandidates(h)
  <2>1. call[h].email \in Replies
    BY <1>3, CallFacts DEF ReadCandidates
  <2> QED
    BY <1>3, <2>1, CandidatesStep, HydratedType DEF ReadCandidates, TypeOK
<1>4. ASSUME NEW answers, Retrieve(h, answers)
      PROVE  /\ (StoredOk(h) /\ LookOk(h))'
             /\ \A g \in Handlers \ {h} : call'[g] = call[g]
  BY <1>4, RetrieveStep, RetrieveFacts
<1>5. CASE Record(h)
  BY <1>5, RecordStep, RecordLemma DEF RecordFacts
<1>6. CASE Judge(h)
  <2>1. call[h] \in Recording
    BY <1>6, CallFacts DEF Judge
  <2> QED
    BY <1>6, <2>1, JudgeStep, HydratedType, FinishType DEF Judge, Recording
<1>7. CASE Project(h)
  BY <1>7, ProjectStep DEF Project, TypeOK
<1>8. CASE Answer(h) \/ Fail(h)
  <2>1. Finish(h)
    BY <1>8 DEF Answer, Fail
  <2>2. call'[h] = Idle /\ \A g \in Handlers \ {h} : call'[g] = call[g]
    BY <2>1, FinishType
  <2> QED
    BY <2>2 DEF Idle, StoredOk, LookOk
<1> QED
  BY <1>1, <1>2, <1>3, <1>4, <1>5, <1>6, <1>7, <1>8 DEF Handle

-----------------------------------------------------------------------------
(* The theorems.                                                           *)

LEMMA IInvInit == Init => IInv
<1> SUFFICES ASSUME Init PROVE IInv
  OBVIOUS
<1>1. TypeOK /\ HomeInv
  BY TypesInit DEF Types
<1>2. \A h \in Handlers : call[h].at = "idle"
  BY DEF Init, Idle
<1> QED
  BY <1>1, <1>2 DEF IInv, CallInv, StoredOk, LookOk, TakenWasStored, Init

LEMMA IInvStep == IInv /\ [Next]_vars => IInv'
<1> SUFFICES ASSUME IInv, [Next]_vars
             PROVE  IInv'
  OBVIOUS
<1>1. TypeOK /\ HomeInv /\ CallInv /\ TakenWasStored
  BY DEF IInv
<1>2. TypeOK' /\ HomeInv' /\ Grows
  BY <1>1, TypesStep, GrowsStep DEF Types
<1>3. CallInv'
  <2>1. ASSUME NEW h \in Handlers, Handle(h) \/ Fail(h) PROVE CallInv'
    BY <1>1, <1>2, <2>1, HandleStep, CallKept DEF CallInv
  <2>2. ASSUME NEW h \in Handlers, NEW r \in Replies, Post(h, r) PROVE CallInv'
    <3>1. call'[h] = [at |-> "look", email |-> r]
          /\ \A g \in Handlers \ {h} : call'[g] = call[g]
      BY <1>1, <2>2 DEF Post, TypeOK
    <3>2. call'[h].at = "look"
      BY <3>1
    <3>3. (StoredOk(h) /\ LookOk(h))'
      BY <3>2 DEF StoredOk, LookOk
    <3> QED
      BY <1>1, <1>2, <3>1, <3>3, CallKept DEF CallInv
  <2>3. CASE UNCHANGED call
    BY <1>1, <1>2, <2>3, CallKept DEF CallInv
  <2> QED
    BY <2>1, <2>2, <2>3
    DEF Next, Accept, LearnId, Age, Receive, Delete, vars
<1>4. TakenWasStored'
  <2>1. ASSUME NEW h \in Handlers, Answer(h) PROVE TakenWasStored'
    <3>1. PICK r \in Replies : r = call[h].email
      BY <1>1, <2>1, CallFacts DEF Answer
    <3>2. Kept(r)
      BY <1>1, <2>1, <3>1 DEF Answer, CallInv, StoredOk
    <3>3. inbox' = [inbox EXCEPT ![r] = "taken"]
      BY <2>1, <3>1 DEF Answer
    <3>4. \A q \in Replies : inbox'[q] = "taken" => inbox[q] = "taken" \/ q = r
      BY <1>1, <3>3 DEF TypeOK
    <3> QED
      BY <1>1, <1>2, <3>2, <3>4 DEF Grows, Kept, TakenWasStored
  <2>2. CASE \A r \in Replies : inbox'[r] = "taken" => inbox[r] = "taken"
    BY <1>1, <1>2, <2>2 DEF Grows, Kept, TakenWasStored
  <2>3. ASSUME NEW r \in Replies, Receive(r) PROVE TakenWasStored'
    <3>1. \A q \in Replies : inbox'[q] = "taken" => inbox[q] = "taken"
      BY <1>1, <2>3 DEF Receive, TypeOK
    <3> QED
      BY <2>2, <3>1
  <2>4. CASE UNCHANGED inbox
    BY <2>2, <2>4
  <2> QED
    BY <2>1, <2>3, <2>4
    DEF Next, Handle, Accept, LearnId, Age, Delete, vars, Post, Look, FindAncestor,
        ReadCandidates, Retrieve, Record, Judge, Project, Fail
<1> QED
  BY <1>1, <1>2, <1>3, <1>4 DEF IInv

\* An email Resend was told is taken is stored, or was until its conversation was
\* deleted, whatever fails, dies or is posted again.
THEOREM TakenStored == Spec => []TakenWasStored
<1>1. IInv => TakenWasStored
  BY DEF IInv
<1> QED
  BY <1>1, IInvInit, IInvStep, PTL DEF Spec

\* A reply starts a conversation only in projectInboundEmail, which then found no
\* email related to it.
LEMMA StartsConversation ==
    ASSUME IInv, [Next]_vars, NEW r \in Replies, home[r] = NoEmail, home'[r] = r
    PROVE  \E h \in Handlers : Project(h) /\ call[h].email = r /\ Related(r) = {}
<1>1. TypeOK /\ HomeInv /\ r # NoEmail
  BY EmailFacts DEF IInv
<1>2. ASSUME NEW s \in Sent, LearnId(s) PROVE FALSE
  BY <1>1, <1>2, RecordIdFacts DEF LearnId
<1>3. ASSUME NEW c \in Emails, Delete(c) PROVE FALSE
  BY <1>1, <1>3, DeleteFacts
<1>4. ASSUME NEW h \in Handlers, Record(h) PROVE FALSE
  <2>1. RecordFacts(h)
    BY <1>1, <1>4, RecordLemma
  <2> QED
    BY <1>1, <2>1, RecordIdFacts DEF RecordFacts
<1>5. ASSUME NEW h \in Handlers, Project(h)
      PROVE  call[h].email = r /\ Related(r) = {}
  BY <1>1, <1>5, ProjectFacts
<1>6. CASE UNCHANGED home
  BY <1>1, <1>6
<1> QED
  BY <1>2, <1>3, <1>4, <1>5, <1>6
  DEF Next, Handle, Accept, Age, Receive, Post, Look, FindAncestor, ReadCandidates,
      Retrieve, Judge, Answer, Fail, vars

LEMMA SetApartStep ==
    ASSUME IInv, [Next]_vars, NEW r \in Replies, home[r] = NoEmail, home'[r] = r
    PROVE  \/ \E e \in References[r] : e \in gone \/ (e \in Sent /\ sent[e] = "gone")
           \/ \E h \in Handlers :
                 /\ call[h] # call'[h] /\ call[h].email = r
                 /\ ~Recent(call[h].seen \intersect References[r])
<1>1. PICK h \in Handlers : Project(h) /\ call[h].email = r /\ Related(r) = {}
  BY StartsConversation
<1>2. Settled(r) \/ NoneRecent(h)
  BY <1>1 DEF IInv, CallInv, LookOk, Project
<1>3. CASE Settled(r)
  BY <1>1, <1>3 DEF Settled, Related
<1>4. CASE NoneRecent(h)
  <2>1. call[h].at = "project" /\ call'[h] = [at |-> "answer", email |-> r]
    BY <1>1 DEF Project, IInv, TypeOK
  <2>2. call[h] # call'[h]
    BY <2>1
  <2> QED
    BY <1>1, <1>4, <2>2 DEF NoneRecent
<1> QED
  BY <1>2, <1>3, <1>4

\* A reply is set apart from the emails it names only when one of them was
\* deleted, or when none of those that lacked their id was of the last day:
\* failing retrievals, the limit and other requests do not bring it about.
THEOREM SetApartOnlyWhenOld == Spec => NotSetApart
<1>1. IInv /\ [Next]_vars =>
        [\A r \in Replies : home[r] = NoEmail /\ home'[r] = r =>
          \/ \E e \in References[r] : e \in gone \/ (e \in Sent /\ sent[e] = "gone")
          \/ \E h \in Handlers :
                /\ call[h] # call'[h] /\ call[h].email = r
                /\ ~Recent(call[h].seen \intersect References[r])]_vars
  BY SetApartStep
<1> QED
  BY <1>1, IInvInit, IInvStep, PTL DEF Spec, NotSetApart
=============================================================================
