-------------------------- MODULE ThreadingProofs --------------------------
(***************************************************************************)
(* Proofs about how emails are gathered into conversations, for any        *)
(* participants and any number of emails and conversations.                *)
(***************************************************************************)
EXTENDS Threading, WellFoundedInduction, SequenceTheorems, TLAPS

-----------------------------------------------------------------------------
(* The inductive invariant.                                                *)

\* A reply's In-Reply-To is one of its References.
HeaderInv ==
    \A m \in Sent : header[m].parent # None => header[m].parent \in header[m].refs

\* A parent is what the header names, and in the same conversation.
ParentInv ==
    \A m \in Emails : parent[m] # None =>
        /\ m \in Stored /\ parent[m] \in Stored
        /\ parent[m] = header[m].parent
        /\ conv[m] = conv[parent[m]]

\* An alias stands for a conversation that was merged, and leads to one that is
\* there.
AliasInv ==
    \A t \in Convs : alias[t] # None =>
        t <= created /\ t \notin Live /\ alias[t] \in Live

\* Every conversation has an email.
LiveInv == \A c \in Live : Members(c) # {}

IInv ==
    /\ TypeOK
    /\ HeaderInv
    /\ ParentInv
    /\ AliasInv
    /\ LiveInv
    /\ OneParticipant
    /\ RepliesJoined
    /\ TokensResolve

-----------------------------------------------------------------------------
(* The emails and conversations a step finds.                              *)

\* A non-empty set of natural numbers has a least element.
LEMMA Least ==
    ASSUME NEW S \in SUBSET Nat, S # {}
    PROVE  Min(S) \in S /\ \A y \in S : Min(S) <= y
<1>1. PICK x \in S : \A y \in S : ~ (<<y, x>> \in OpToRel(<, Nat))
  BY NatLessThanWellFounded, WFMin
<1>2. \A y \in S : ~ (y < x)
  BY <1>1 DEF OpToRel
<1>3. \A y \in S : x <= y
  BY <1>2
<1> QED
  BY <1>3 DEF Min

LEMMA Numbers ==
    /\ None \notin Emails /\ None \notin Convs
    /\ Emails \subseteq Nat /\ Convs \subseteq Nat
    /\ Nobody \notin Participants
BY ThreadingBounds, ThreadingNames DEF None, Emails, Convs

LEMMA StoredFacts ==
    ASSUME TypeOK, NEW m \in Emails, conv[m] # None
    PROVE  /\ m \in Stored /\ m \in Sent /\ conv[m] \in Live /\ conv[m] \in Convs
           /\ who[conv[m]] \in Participants
           /\ header[m] \in Headers
<1>1. m \in Stored
  BY DEF Stored
<1>2. m \in Sent /\ conv[m] \in Live
  BY <1>1 DEF TypeOK
<1> QED
  BY <1>1, <1>2 DEF TypeOK, Live, Sent

\* What an email's headers name is of its participant, and so are the replies
\* that wait for it.
LEMMA RelatedFacts ==
    ASSUME TypeOK, NEW e \in Emails, NEW m
    PROVE  /\ m \in Related(e) => m \in Stored /\ who[conv[m]] = header[e].with
           /\ m \in ParentOf(e) => m \in Related(e) /\ m = header[e].parent
           /\ m \in Nearest(e) => m \in Related(e)
           /\ \A p : m \in Children(e, p) =>
                 m \in Stored /\ who[conv[m]] = p /\ parent[m] = None /\ header[m].parent = e
BY DEF Related, ParentOf, Nearest, Children, With, Identified, Stored

JoinChoices(e) ==
    <<ConvsOf(ParentOf(e)) \intersect assigned,
      ConvsOf(Nearest(e)) \intersect assigned,
      ConvsOf(Children(e, header[e].with)) \intersect assigned,
      ConvsOf(ParentOf(e)), ConvsOf(Nearest(e)), ConvsOf(Children(e, header[e].with)),
      IF Cardinality(Routed(e)) = 1 THEN Routed(e) ELSE {}>>

\* The first of the choices that names a conversation.
LEMMA FirstChoice ==
    ASSUME NEW e
    PROVE  \/ Homes(e) = {} /\ \A i \in 1 .. 7 : JoinChoices(e)[i] = {}
           \/ \E i \in 1 .. 7 :
                 /\ Homes(e) = JoinChoices(e)[i] /\ Homes(e) # {}
                 /\ \A j \in 1 .. 7 : JoinChoices(e)[j] # {} => i <= j
<1> DEFINE I == {i \in 1 .. 7 : JoinChoices(e)[i] # {}}
<1>1. Len(JoinChoices(e)) = 7
  BY DEF JoinChoices
<1>2. Homes(e) = IF I = {} THEN {} ELSE IF Min(I) = 0 THEN {} ELSE JoinChoices(e)[Min(I)]
  BY <1>1 DEF Homes, JoinChoices, SelectInSeq
<1>3. I \in SUBSET Nat
  OBVIOUS
<1>4. I # {} => Min(I) \in I /\ \A i \in I : Min(I) <= i
  BY <1>3, Least
<1>5. CASE I = {}
  BY <1>2, <1>5
<1>6. CASE I # {}
  <2>1. PICK i \in I : i = Min(I) /\ \A j \in I : i <= j
    BY <1>4, <1>6
  <2>2. i \in 1 .. 7 /\ JoinChoices(e)[i] # {}
    OBVIOUS
  <2>3. Homes(e) = JoinChoices(e)[i]
    BY <1>2, <1>6, <2>1, <2>2
  <2>4. \A j \in 1 .. 7 : JoinChoices(e)[j] # {} => i <= j
    BY <2>1
  <2> QED
    BY <2>2, <2>3, <2>4
<1> QED
  BY <1>5, <1>6

\* The conversation chosen for an email: there, of its participant, and that of
\* the email it answers when that one has a topic.
LEMMA HomesFacts ==
    ASSUME TypeOK, NEW e \in Emails, NEW c \in Homes(e)
    PROVE  /\ c \in Live /\ who[c] = header[e].with
           /\ ConvsOf(ParentOf(e)) \intersect assigned # {} => c \in ConvsOf(ParentOf(e))
<1>1. PICK i \in 1 .. 7 : /\ c \in JoinChoices(e)[i]
                          /\ \A j \in 1 .. 7 : JoinChoices(e)[j] # {} => i <= j
  BY FirstChoice
<1>2. \A m \in Stored : conv[m] \in Live
  BY DEF TypeOK
<1>3. c \in ConvsOf(ParentOf(e) \union Nearest(e) \union Children(e, header[e].with))
      \/ c \in Routed(e)
  BY <1>1 DEF JoinChoices, ConvsOf
<1>4. c \in Live /\ who[c] = header[e].with
  BY <1>2, <1>3, RelatedFacts DEF ConvsOf, Routed
<1>5. ASSUME ConvsOf(ParentOf(e)) \intersect assigned # {} PROVE c \in ConvsOf(ParentOf(e))
  <2>1. i = 1
    BY <1>1, <1>5 DEF JoinChoices
  <2> QED
    BY <1>1, <2>1 DEF JoinChoices
<1> QED
  BY <1>4, <1>5

LEMMA HomesNotEmpty ==
    ASSUME NEW e, ConvsOf(ParentOf(e)) \intersect assigned # {}
    PROVE  Homes(e) # {}
BY FirstChoice DEF JoinChoices

-----------------------------------------------------------------------------
(* Join and Record do the same: an email gets its place in a conversation, *)
(* others are merged into that one, and replies get their parent.          *)

Merge(e, c, p, gone) ==
    /\ e \in Emails /\ e \in Sent /\ c \in Convs /\ p \in Participants
    \* the conversations that go
    /\ gone \subseteq Live \ assigned /\ c \notin gone
    /\ \A d \in gone : who[d] = p
    \* the one that stays
    /\ \/ c \in Live /\ who[c] = p /\ created' = created
       \/ c = created + 1 /\ created' = created + 1 /\ conv[e] = None
    \* the email
    /\ \/ conv[e] = c
       \/ conv[e] = None /\ e \notin outbound /\ p = header[e].with
    \* what changes
    /\ conv' = [m \in Emails |-> IF m = e \/ conv[m] \in gone THEN c ELSE conv[m]]
    /\ who' = [d \in Convs |-> IF d \in gone THEN Nobody ELSE IF d = c THEN p ELSE who[d]]
    /\ known' = IF e \in outbound THEN known \union {e} ELSE known
    /\ Absorb(gone, c)
    /\ UNCHANGED <<header, outbound>>
    \* parents, of the email and of the replies that waited for it
    /\ parent' \in [Emails -> Emails \union {None}]
    /\ conv[e] = None =>
          /\ header[e].parent \in Identified /\ who[conv[header[e].parent]] = p
                => conv'[header[e].parent] = c
          /\ parent'[e] # None =>
                /\ parent'[e] = header[e].parent
                /\ header[e].parent \in Identified /\ who[conv[header[e].parent]] = p
    /\ \A m \in Emails : (m # e \/ conv[e] # None) =>
          \/ parent'[m] = parent[m]
          \/ conv'[m] = c /\ m \in Stored /\ header[m].parent = e /\ parent'[m] = e
    /\ \A m \in Stored : parent[m] = None /\ header[m].parent = e /\ who[conv[m]] = p =>
          conv[m] \in gone \union {c} \union assigned

LEMMA JoinMerges ==
    ASSUME IInv, NEW e \in Emails, Receive(e)
    PROVE  \E c \in Convs, p \in Participants, gone \in SUBSET Convs :
              Merge(e, c, p, gone) /\ conv[e] = None
<1>0. TypeOK /\ HeaderInv /\ ParentInv
  BY DEF IInv
<1> DEFINE p == header[e].with
<1>1. e \in Sent /\ e \notin outbound /\ conv[e] = None /\ UNCHANGED <<header, outbound>>
  BY DEF Receive
<1>2. header[e] \in Headers /\ p \in Participants
  <2>1. header[e] \in Headers
    BY <1>0, <1>1 DEF TypeOK, Sent
  <2> QED
    BY <2>1 DEF Headers
<1>3. PICK c \in Convs :
        /\ Join(e, c)
        /\ \/ c \in Homes(e) /\ created' = created
           \/ Homes(e) = {} /\ c = created + 1 /\ created' = created + 1
  <2>1. CASE Homes(e) # {}
    <3>1. PICK c \in Homes(e) : Join(e, c) /\ created' = created
      BY <2>1 DEF Receive
    <3>2. c \in Convs
      BY <1>0, <3>1, HomesFacts DEF Live
    <3> QED
      BY <3>1, <3>2
  <2>2. CASE Homes(e) = {}
    <3>1. created + 1 \in Convs
      BY <1>0, <2>2, ThreadingBounds DEF Receive, TypeOK, Convs
    <3> QED
      BY <2>2, <3>1 DEF Receive
  <2> QED
    BY <2>1, <2>2
<1> DEFINE S == Related(e) \union Children(e, p)
           gone == Foreign(S, c)
           moved == [Move(gone, c) EXCEPT ![e] = c]
<1>4. \A m \in S : m \in Stored /\ who[conv[m]] = p /\ conv[m] \in Live
  BY <1>0, RelatedFacts DEF TypeOK
<1>5. gone \subseteq Live \ assigned /\ c \notin gone /\ \A d \in gone : who[d] = p
  BY <1>4 DEF Foreign, ConvsOf
<1>6. gone \in SUBSET Convs
  BY <1>5 DEF Live
<1>7. \/ c \in Live /\ who[c] = p /\ created' = created
      \/ c = created + 1 /\ created' = created + 1 /\ conv[e] = None
  BY <1>0, <1>1, <1>3, HomesFacts
<1>8. conv' = moved
  BY <1>3 DEF Join
<1>9. moved = [m \in Emails |-> IF m = e \/ conv[m] \in gone THEN c ELSE conv[m]]
  BY DEF Move
<1> HIDE DEF gone, S
<1>10. who' = [d \in Convs |-> IF d \in gone THEN Nobody ELSE IF d = c THEN p ELSE who[d]]
  BY <1>3 DEF Join, gone, S
<1>11. Absorb(gone, c)
  BY <1>3 DEF Join, gone, S
<1>12. known' = known
  <2>1. known' = known \intersect {m \in Emails : moved[m] # None}
    BY <1>3 DEF Join, gone, S
  <2>2. \A m \in known : m \in Emails /\ conv[m] # None
    BY <1>0 DEF TypeOK, Stored
  <2> QED
    BY <1>9, <2>1, <2>2, Numbers
<1>13. parent' = [m \in Emails |->
              IF m = e THEN IF ParentOf(e) # {} THEN header[e].parent ELSE None
              ELSE IF parent[m] = None /\ moved[m] = c /\ header[m].parent = e
                THEN e ELSE parent[m]]
  BY <1>3 DEF Join, gone, S
<1>14. header[e].parent \in Emails \union {None}
  BY <1>2 DEF Headers
<1>15. parent' \in [Emails -> Emails \union {None}]
  BY <1>0, <1>13, <1>14 DEF TypeOK
\* An email that is answered and on record is a parent, and ends up in c.
<1>16. ASSUME header[e].parent \in Identified, who[conv[header[e].parent]] = p
       PROVE  conv'[header[e].parent] = c
  <2> DEFINE a == header[e].parent
  <2>1. a \in Stored /\ a \in Emails /\ a # e
    BY <1>1, <1>16 DEF Identified, Stored
  <2>2. a \in header[e].refs
    BY <1>0, <1>1, <2>1, Numbers DEF HeaderInv
  <2>3. a \in Related(e) /\ ParentOf(e) = {a}
    BY <1>16, <2>1, <2>2 DEF Related, With, ParentOf
  <2>4. conv[a] \in assigned => conv[a] = c
    <3>1. ASSUME conv[a] \in assigned PROVE c \in Homes(e)
      <4>1. ConvsOf(ParentOf(e)) \intersect assigned # {}
        BY <2>3, <3>1 DEF ConvsOf
      <4>2. Homes(e) # {}
        BY <4>1, HomesNotEmpty
      <4> QED
        BY <1>3, <4>2
    <3>2. ConvsOf(ParentOf(e)) = {conv[a]}
      BY <2>3 DEF ConvsOf
    <3> QED
      BY <1>0, <3>1, <3>2, HomesFacts
  <2>5. conv[a] \in gone \union {c}
    BY <2>3, <2>4 DEF gone, S, Foreign, ConvsOf
  <2> QED
    BY <1>8, <1>9, <2>1, <2>5
<1>17. ASSUME parent'[e] # None
       PROVE  /\ parent'[e] = header[e].parent
              /\ header[e].parent \in Identified /\ who[conv[header[e].parent]] = p
  BY <1>0, <1>13, <1>17, RelatedFacts DEF ParentOf, Related, With
<1>18. ASSUME NEW m \in Emails, m # e, parent'[m] # parent[m]
       PROVE  conv'[m] = c /\ m \in Stored /\ header[m].parent = e /\ parent'[m] = e
  <2>1. moved[m] = c /\ header[m].parent = e /\ parent'[m] = e
    BY <1>13, <1>18
  <2>2. m \in Stored
    BY <1>9, <1>18, <2>1, <1>5, Numbers DEF Stored, Live
  <2> QED
    BY <1>8, <2>1, <2>2
<1>19. ASSUME NEW m \in Stored, parent[m] = None, header[m].parent = e, who[conv[m]] = p
       PROVE  conv[m] \in gone \union {c} \union assigned
  <2>1. m \in S
    BY <1>19 DEF S, Children, With
  <2> QED
    BY <2>1 DEF gone, Foreign, ConvsOf
<1> HIDE DEF p, moved
<1>20. Merge(e, c, p, gone)
  BY <1>1, <1>2, <1>3, <1>5, <1>7, <1>8, <1>9, <1>10, <1>11, <1>12, <1>15, <1>16, <1>17,
     <1>18, <1>19 DEF Merge, p
<1> QED
  BY <1>1, <1>2, <1>3, <1>6, <1>20 DEF p

LEMMA RecordMerges ==
    ASSUME IInv, NEW o \in Emails, Record(o)
    PROVE  \E c \in Convs, p \in Participants, gone \in SUBSET Convs :
              Merge(o, c, p, gone) /\ conv[o] = c
<1>0. TypeOK
  BY DEF IInv
<1> DEFINE c == conv[o]
           p == who[c]
           S == Children(o, p)
           gone == Foreign(S, c)
           moved == Move(gone, c)
<1>1. o \in outbound /\ o \in Stored /\ conv[o] # None
  BY DEF Record, Stored
<1>2. o \in Sent /\ c \in Live /\ c \in Convs /\ p \in Participants
  BY <1>0, <1>1, StoredFacts
<1>3. \A m \in S : /\ m \in Stored /\ who[conv[m]] = p /\ conv[m] \in Live
                   /\ parent[m] = None /\ header[m].parent = o
  BY <1>0, RelatedFacts DEF TypeOK
<1>4. /\ gone \subseteq Live \ assigned /\ c \notin gone /\ \A d \in gone : who[d] = p
      /\ gone \in SUBSET Convs
  BY <1>3 DEF Foreign, ConvsOf, Live
<1>5. moved = [m \in Emails |-> IF m = o \/ conv[m] \in gone THEN c ELSE conv[m]]
  BY <1>4 DEF Move
<1> HIDE DEF gone, S
<1>6. /\ conv' = moved /\ Absorb(gone, c)
      /\ known' = (known \union {o}) \intersect {m \in Emails : moved[m] # None}
      /\ parent' = [m \in Emails |-> IF m \in S /\ moved[m] = c THEN o ELSE parent[m]]
      /\ who' = [d \in Convs |-> IF d \in gone THEN Nobody ELSE who[d]]
      /\ UNCHANGED <<header, outbound, created>>
  BY DEF Record, gone, S
<1>7. who' = [d \in Convs |-> IF d \in gone THEN Nobody ELSE IF d = c THEN p ELSE who[d]]
  BY <1>4, <1>6
<1>8. known' = known \union {o}
  <2>1. \A m \in known \union {o} : m \in Emails /\ conv[m] # None
    BY <1>0, <1>1 DEF TypeOK, Stored
  <2> QED
    BY <1>2, <1>5, <1>6, <2>1, Numbers
<1>9. parent' \in [Emails -> Emails \union {None}]
  BY <1>0, <1>6 DEF TypeOK
<1>10. ASSUME NEW m \in Emails, parent'[m] # parent[m]
       PROVE  conv'[m] = c /\ m \in Stored /\ header[m].parent = o /\ parent'[m] = o
  BY <1>3, <1>6, <1>10
<1>11. ASSUME NEW m \in Stored, parent[m] = None, header[m].parent = o, who[conv[m]] = p
       PROVE  conv[m] \in gone \union {c} \union assigned
  <2>1. m \in S
    BY <1>11 DEF S, Children, With
  <2> QED
    BY <2>1 DEF gone, Foreign, ConvsOf
<1> HIDE DEF c, p, moved
<1>12. Merge(o, c, p, gone)
  BY <1>1, <1>2, <1>4, <1>5, <1>6, <1>7, <1>8, <1>9, <1>10, <1>11 DEF Merge, c, p
<1> QED
  BY <1>2, <1>4, <1>12 DEF c

-----------------------------------------------------------------------------
(* A merge keeps the invariant.                                            *)

\* What a merge does to each email and each conversation.
Merged(e, c, p, gone) ==
    /\ conv' \in [Emails -> Convs \union {None}]
    /\ who' \in [Convs -> Participants \union {Nobody}]
    /\ Live' = (Live \ gone) \union {c}
    /\ assigned' = assigned
    /\ assigned \subseteq Live'
    /\ based' \subseteq Live'
    /\ created' \in 0 .. MaxConvs
    /\ \A d \in Live' : d <= created'
    /\ Stored' = Stored \union {e}
    /\ conv'[e] = c /\ who'[c] = p
    /\ \A m \in Stored :
          /\ conv[m] \in gone => conv'[m] = c
          /\ conv[m] \notin gone => conv'[m] = conv[m]
          /\ who'[conv'[m]] = who[conv[m]]

LEMMA MergeFacts ==
    ASSUME TypeOK, NEW e, NEW c, NEW p, NEW gone, Merge(e, c, p, gone)
    PROVE  Merged(e, c, p, gone)
<1>1. /\ e \in Emails /\ c \in Convs /\ p \in Participants
      /\ gone \subseteq Live \ assigned /\ c \notin gone /\ \A d \in gone : who[d] = p
      /\ \/ c \in Live /\ who[c] = p /\ created' = created
         \/ c = created + 1 /\ created' = created + 1 /\ conv[e] = None
      /\ conv[e] = c \/ conv[e] = None
      /\ conv' = [m \in Emails |-> IF m = e \/ conv[m] \in gone THEN c ELSE conv[m]]
      /\ who' = [d \in Convs |-> IF d \in gone THEN Nobody ELSE IF d = c THEN p ELSE who[d]]
      /\ Absorb(gone, c)
  BY DEF Merge
<1>2. /\ conv \in [Emails -> Convs \union {None}]
      /\ who \in [Convs -> Participants \union {Nobody}]
      /\ created \in 0 .. MaxConvs /\ assigned \subseteq Live /\ based \subseteq Live
      /\ \A d \in Live : d <= created
      /\ \A m \in Stored : conv[m] \in Live
  BY DEF TypeOK
<1>3. conv' \in [Emails -> Convs \union {None}]
  BY <1>1, <1>2
<1>4. who' \in [Convs -> Participants \union {Nobody}]
  BY <1>1, <1>2
<1>5. Live' = (Live \ gone) \union {c}
  BY <1>1, <1>2, Numbers DEF Live
<1>6. assigned' = assigned /\ assigned \subseteq Live' /\ based' \subseteq Live'
  BY <1>1, <1>2, <1>5 DEF Absorb
<1>7. created' \in 0 .. MaxConvs /\ created \in Nat /\ created' \in Nat /\ c <= created'
  BY <1>1, <1>2, Numbers, ThreadingBounds DEF Convs
<1>8. \A d \in Live' : d <= created'
  BY <1>1, <1>2, <1>5, <1>7, Numbers DEF Live
<1>9. Stored' = Stored \union {e}
  BY <1>1, <1>2, Numbers DEF Stored, Live
<1>10. conv'[e] = c /\ who'[c] = p
  BY <1>1
<1>11. ASSUME NEW m \in Stored
       PROVE  /\ conv[m] \in gone => conv'[m] = c
              /\ conv[m] \notin gone => conv'[m] = conv[m]
              /\ who'[conv'[m]] = who[conv[m]]
  <2>1. m \in Emails /\ conv[m] \in Live /\ conv[m] # None /\ conv[m] \in Convs
    BY <1>2 DEF Stored, Live
  <2>2. m = e => conv[m] = c
    BY <1>1, <2>1
  <2>3. conv[m] \in gone => conv'[m] = c
    BY <1>1, <2>1
  <2>4. conv[m] \notin gone => conv'[m] = conv[m]
    BY <1>1, <2>1, <2>2
  <2>5. conv[m] = c => who[c] = p
    <3>1. ASSUME c = created + 1, conv[m] = c PROVE FALSE
      BY <1>2, <1>7, <2>1, <3>1, Numbers
    <3> QED
      BY <1>1, <3>1
  <2> QED
    BY <1>1, <2>1, <2>3, <2>4, <2>5
<1> QED
  BY <1>3, <1>4, <1>5, <1>6, <1>7, <1>8, <1>9, <1>10, <1>11 DEF Merged

LEMMA MergeType ==
    ASSUME TypeOK, NEW e, NEW c, NEW p, NEW gone, Merge(e, c, p, gone), Merged(e, c, p, gone)
    PROVE  TypeOK'
<1>1. UNCHANGED <<header, outbound>> /\ Sent' = Sent
  BY DEF Merge, Sent
<1>2. parent' \in [Emails -> Emails \union {None}]
  BY DEF Merge
<1>3. known' \subseteq (outbound \intersect Stored)'
  BY <1>1 DEF Merged, Merge, TypeOK
<1>4. alias' \in [Convs -> Convs \union {None}]
  BY DEF Merge, Absorb, Aliases, TypeOK
<1>5. ASSUME NEW m \in Stored' PROVE m \in Sent' /\ conv'[m] \in Live'
  <2>1. CASE m = e
    BY <1>1, <2>1 DEF Merged, Merge
  <2>2. CASE m \in Stored
    BY <1>1, <2>2 DEF Merged, TypeOK
  <2> QED
    BY <1>5, <2>1, <2>2 DEF Merged
<1> QED
  BY <1>1, <1>2, <1>3, <1>4, <1>5 DEF Merged, TypeOK

LEMMA MergeHeader ==
    ASSUME HeaderInv, NEW e, NEW c, NEW p, NEW gone, Merge(e, c, p, gone), Merged(e, c, p, gone)
    PROVE  HeaderInv'
BY DEF Merge, HeaderInv, Sent

\* Who shares a conversation shares one after the merge.
LEMMA MergeTogether ==
    ASSUME TypeOK, NEW e, NEW c, NEW p, NEW gone, Merge(e, c, p, gone), Merged(e, c, p, gone),
           NEW m \in Stored, NEW n \in Stored, conv[m] = conv[n]
    PROVE  conv'[m] = conv'[n]
BY DEF Merged

LEMMA MergeParent ==
    ASSUME IInv, NEW e, NEW c, NEW p, NEW gone, Merge(e, c, p, gone), Merged(e, c, p, gone)
    PROVE  ParentInv'
<1>0. TypeOK /\ ParentInv
  BY DEF IInv
<1>1. UNCHANGED header /\ Stored' = Stored \union {e} /\ conv'[e] = c /\ e \in Emails
  BY <1>0 DEF Merged, Merge
<1> SUFFICES ASSUME NEW m \in Emails, parent'[m] # None
             PROVE  /\ m \in Stored' /\ parent'[m] \in Stored'
                    /\ parent'[m] = header[m].parent
                    /\ conv'[m] = conv'[parent'[m]]
  BY <1>1 DEF ParentInv
<1>2. CASE m = e /\ conv[e] = None
  <2>1. /\ parent'[e] = header[e].parent
        /\ header[e].parent \in Identified /\ who[conv[header[e].parent]] = p
        /\ conv'[header[e].parent] = c
    BY <1>2 DEF Merge
  <2> QED
    BY <1>1, <1>2, <2>1 DEF Identified
<1>3. CASE parent'[m] = parent[m] /\ (m # e \/ conv[e] # None)
  <2>1. /\ m \in Stored /\ parent[m] \in Stored /\ parent[m] = header[m].parent
        /\ conv[m] = conv[parent[m]]
    BY <1>0, <1>3 DEF ParentInv
  <2> QED
    BY <1>0, <1>1, <1>3, <2>1, MergeTogether
<1>4. CASE conv'[m] = c /\ m \in Stored /\ header[m].parent = e /\ parent'[m] = e
  BY <1>1, <1>4
<1> QED
  BY <1>2, <1>3, <1>4 DEF Merge

LEMMA MergeAlias ==
    ASSUME IInv, NEW e, NEW c, NEW p, NEW gone, Merge(e, c, p, gone), Merged(e, c, p, gone)
    PROVE  AliasInv'
<1>0. TypeOK /\ AliasInv
  BY DEF IInv
<1>1. /\ alias' = [t \in Convs |->
                      IF alias[t] \in gone \/ t \in gone \intersect based
                        THEN c ELSE alias[t]]
      /\ gone \subseteq Live /\ c \notin gone /\ c \in Convs
      /\ c \in Live \/ c = created + 1
      /\ created' = created \/ created' = created + 1
  BY DEF Merge, Absorb, Aliases
<1>2. Live' = (Live \ gone) \union {c} /\ created \in Nat /\ created' \in Nat /\ created <= created'
  BY <1>0, <1>1, ThreadingBounds DEF Merged, TypeOK
<1>3. \A t \in Convs : t <= created => t # created + 1 /\ t <= created'
  BY <1>2, Numbers
<1>4. None \notin gone
  BY <1>1, Numbers DEF Live
<1> SUFFICES ASSUME NEW t \in Convs, alias'[t] # None
             PROVE  t <= created' /\ t \notin Live' /\ alias'[t] \in Live'
  BY DEF AliasInv
<1>5. CASE alias[t] # None
  <2>1. t <= created /\ t \notin Live /\ alias[t] \in Live
    BY <1>0, <1>5 DEF AliasInv
  <2> QED
    BY <1>1, <1>2, <1>3, <2>1
<1>6. CASE alias[t] = None
  <2>1. t \in gone /\ alias'[t] = c
    BY <1>1, <1>4, <1>6
  <2>2. t <= created
    BY <1>0, <1>1, <2>1 DEF TypeOK
  <2> QED
    BY <1>1, <1>2, <1>3, <2>1, <2>2
<1> QED
  BY <1>5, <1>6

LEMMA MergeLive ==
    ASSUME IInv, NEW e, NEW c, NEW p, NEW gone, Merge(e, c, p, gone), Merged(e, c, p, gone)
    PROVE  LiveInv'
<1>0. TypeOK /\ LiveInv
  BY DEF IInv
<1> SUFFICES ASSUME NEW d \in Live' PROVE \E m \in Emails : conv'[m] = d
  BY DEF LiveInv, Members
<1>1. e \in Emails /\ conv'[e] = c /\ Live' = (Live \ gone) \union {c}
  BY <1>0 DEF Merged, Merge
<1>2. CASE d # c
  <2>1. PICK m \in Emails : conv[m] = d
    BY <1>0, <1>1, <1>2 DEF LiveInv, Members
  <2>2. m \in Stored
    BY <1>1, <1>2, <2>1, Numbers DEF Stored, Live
  <2> QED
    BY <1>0, <1>1, <1>2, <2>1, <2>2 DEF Merged
<1> QED
  BY <1>1, <1>2

LEMMA MergeParticipant ==
    ASSUME IInv, NEW e, NEW c, NEW p, NEW gone, Merge(e, c, p, gone), Merged(e, c, p, gone)
    PROVE  OneParticipant'
<1>0. TypeOK /\ OneParticipant
  BY DEF IInv
<1>1. UNCHANGED <<header, outbound>> /\ Stored' = Stored \union {e}
      /\ conv'[e] = c /\ who'[c] = p
  BY <1>0 DEF Merged, Merge
<1> SUFFICES ASSUME NEW m \in Stored', m \notin outbound
             PROVE  header[m].with = who'[conv'[m]]
  BY <1>1 DEF OneParticipant
<1>2. CASE m \in Stored
  BY <1>0, <1>2 DEF Merged, OneParticipant
<1>3. CASE m = e /\ conv[e] = None
  <2>1. conv[e] = c \/ p = header[e].with
    BY DEF Merge
  <2>2. c # None
    BY Numbers DEF Merge
  <2> QED
    BY <1>1, <1>3, <2>1, <2>2
<1>4. CASE m = e /\ conv[e] = c
  <2>1. c # None
    BY Numbers DEF Merge
  <2> QED
    BY <1>2, <1>4, <2>1 DEF Stored, Merge
<1> QED
  BY <1>1, <1>2, <1>3, <1>4 DEF Merge

LEMMA MergeReplies ==
    ASSUME IInv, NEW e, NEW c, NEW p, NEW gone, Merge(e, c, p, gone), Merged(e, c, p, gone)
    PROVE  RepliesJoined'
<1>0. TypeOK /\ ParentInv /\ RepliesJoined
  BY DEF IInv
<1>1. /\ UNCHANGED <<header, outbound>> /\ Stored' = Stored \union {e} /\ e \in Emails
      /\ conv'[e] = c /\ who'[c] = p /\ assigned' = assigned
      /\ gone \intersect assigned = {}
      /\ known' = IF e \in outbound THEN known \union {e} ELSE known
  BY <1>0 DEF Merged, Merge
<1>2. Identified' \subseteq Identified \union {e} /\ Identified \subseteq Stored
  BY <1>0, <1>1 DEF Identified, TypeOK
<1> SUFFICES ASSUME NEW m \in Stored', header[m].parent \in Identified',
                    who'[conv'[header[m].parent]] = who'[conv'[m]]
             PROVE  conv'[m] = conv'[header[m].parent] \/ conv'[m] \in assigned
  BY <1>1 DEF RepliesJoined
<1> DEFINE a == header[m].parent
\* Both were on record before.
<1>3. CASE m \in Stored /\ a \in Identified
  <2>1. who[conv[a]] = who[conv[m]]
    BY <1>0, <1>2, <1>3 DEF Merged
  <2>2. conv[m] = conv[a] \/ conv[m] \in assigned
    BY <1>0, <1>3, <2>1 DEF RepliesJoined
  <2>3. CASE conv[m] = conv[a]
    BY <1>0, <1>2, <1>3, <2>3, MergeTogether
  <2>4. CASE conv[m] \in assigned
    BY <1>0, <1>1, <1>3, <2>4 DEF Merged
  <2> QED
    BY <2>2, <2>3, <2>4
\* The answered email is the one that was learnt of.
<1>4. CASE m \in Stored /\ a = e
  <2>1. who[conv[m]] = p
    BY <1>0, <1>1, <1>4 DEF Merged
  <2>2. CASE parent[m] = None
    <3>1. conv[m] \in gone \union {c} \union assigned
      BY <1>4, <2>1, <2>2 DEF Merge
    <3> QED
      BY <1>0, <1>1, <1>4, <3>1 DEF Merged
  <2>3. CASE parent[m] # None
    <3>1. a \in Stored /\ conv[m] = conv[a]
      BY <1>4, <1>0, <2>3 DEF ParentInv, Stored
    <3> QED
      BY <1>0, <1>4, <3>1, MergeTogether
  <2> QED
    BY <2>2, <2>3
\* The reply is the new email.
<1>5. CASE m = e /\ conv[e] = None
  <2>1. a = e => conv'[m] = conv'[a]
    BY <1>5
  <2>2. a # e => a \in Identified
    BY <1>2
  <2>3. a # e => who[conv[a]] = p
    BY <1>0, <1>1, <1>2, <1>5, <2>2 DEF Merged
  <2> QED
    BY <1>1, <1>5, <2>1, <2>2, <2>3 DEF Merge
<1>6. CASE m = e /\ conv[e] = c
  <2>1. e \in Stored
    BY <1>1, <1>6, Numbers DEF Stored, Merge
  <2> QED
    BY <1>2, <1>3, <1>4, <1>6, <2>1
<1> QED
  BY <1>1, <1>2, <1>3, <1>4, <1>5, <1>6 DEF Merge

\* The conversations a token leads to.
Names(t) == {c \in Live : (t = c /\ c \in based) \/ alias[t] = c}

LEMMA MergeTokens ==
    ASSUME IInv, NEW e, NEW c, NEW p, NEW gone, Merge(e, c, p, gone), Merged(e, c, p, gone)
    PROVE  TokensResolve'
<1>0. TypeOK /\ AliasInv /\ TokensResolve
  BY DEF IInv
<1>1. /\ UNCHANGED <<header, outbound>> /\ Stored' = Stored \union {e}
      /\ conv[e] = c \/ (conv[e] = None /\ e \notin outbound)
      /\ c \in Convs /\ gone \subseteq Live /\ c \notin gone
      /\ c \in Live \/ c = created + 1
      /\ Live' = (Live \ gone) \union {c}
      /\ Absorb(gone, c)
  BY DEF Merged, Merge
<1>2. /\ alias' = [t \in Convs |->
                      IF alias[t] \in gone \/ t \in gone \intersect based
                        THEN c ELSE alias[t]]
      /\ based \ gone \subseteq based'
  BY <1>1 DEF Absorb, Aliases
<1>3. None \notin gone /\ None \notin Live' /\ None # c
  BY <1>1, Numbers DEF Live
<1> SUFFICES ASSUME NEW o \in (outbound \intersect Stored)', NEW t \in header[o].tokens
             PROVE  Names(t)' = {conv'[o]}
  BY <1>1 DEF TokensResolve, Names
<1>4. o \in outbound /\ o \in Stored
  BY <1>1, Numbers DEF Stored, Merge
<1>5. t \in Convs
  <2>1. header[o] \in Headers
    BY <1>0, <1>4, StoredFacts DEF Stored
  <2> QED
    BY <2>1 DEF Headers
<1> DEFINE d == conv[o]
<1>6. Names(t) = {d} /\ d \in Live
  BY <1>0, <1>4 DEF TokensResolve, Names, TypeOK
<1>7. /\ d \in gone => conv'[o] = c
      /\ d \notin gone => conv'[o] = d
  BY <1>4 DEF Merged
<1>8. \/ t = d /\ d \in based /\ alias[t] = None
      \/ alias[t] = d /\ t \notin Live /\ t # c
  <2>1. CASE t = d /\ d \in based
    BY <1>0, <1>5, <1>6, <2>1 DEF AliasInv
  <2>2. CASE alias[t] = d
    <3>1. alias[t] # None
      BY <1>6, <2>2, Numbers DEF Live
    <3>2. t <= created /\ t \notin Live
      BY <1>0, <1>5, <3>1 DEF AliasInv
    <3>3. t # created + 1
      BY <1>0, <1>5, <3>2, Numbers, ThreadingBounds DEF TypeOK
    <3> QED
      BY <1>1, <2>2, <3>2, <3>3
  <2> QED
    BY <1>6, <2>1, <2>2 DEF Names
<1> HIDE DEF d
<1>9. CASE t = d /\ d \in based /\ alias[t] = None
  <2>1. CASE d \in gone
    BY <1>1, <1>2, <1>3, <1>5, <1>7, <1>9, <2>1 DEF Names
  <2>2. CASE d \notin gone
    <3>1. alias'[t] = None
      BY <1>2, <1>3, <1>5, <1>9, <2>2
    <3>2. d \in Live' /\ d \in based'
      BY <1>1, <1>2, <1>6, <1>9, <2>2
    <3> QED
      BY <1>3, <1>7, <1>9, <2>2, <3>1, <3>2 DEF Names
  <2> QED
    BY <2>1, <2>2
<1>10. CASE alias[t] = d /\ t \notin Live /\ t # c
  <2>1. alias'[t] = conv'[o] /\ conv'[o] \in Live' /\ t \notin Live'
    BY <1>1, <1>2, <1>5, <1>6, <1>7, <1>10
  <2> QED
    BY <2>1 DEF Names
<1> QED
  BY <1>8, <1>9, <1>10

LEMMA MergeStep ==
    ASSUME IInv, NEW e, NEW c, NEW p, NEW gone, Merge(e, c, p, gone)
    PROVE  IInv'
<1>1. Merged(e, c, p, gone)
  BY MergeFacts DEF IInv
<1>2. TypeOK' /\ HeaderInv'
  BY <1>1, MergeType, MergeHeader DEF IInv
<1>3. ParentInv' /\ AliasInv' /\ LiveInv'
  BY <1>1, MergeParent, MergeAlias, MergeLive
<1>4. OneParticipant' /\ RepliesJoined' /\ TokensResolve'
  BY <1>1, MergeParticipant, MergeReplies, MergeTokens
<1> QED
  BY <1>2, <1>3, <1>4 DEF IInv

-----------------------------------------------------------------------------
(* The other steps keep it too.                                            *)

\* The email sent comes after those there are, which stay as they are.
LEMMA Appended ==
    ASSUME TypeOK, NEW r \in Headers, Len(header) < MaxEmails, header' = Append(header, r)
    PROVE  LET e == Len(header) + 1 IN
           /\ header' \in Seq(Headers) /\ Len(header') <= MaxEmails
           /\ Sent' = Sent \union {e} /\ e \in Emails
           /\ e \notin Sent /\ e \notin Stored /\ conv[e] = None /\ e # None
           /\ header'[e] = r
           /\ \A m \in Sent : header'[m] = header[m]
<1> DEFINE e == Len(header) + 1
<1>1. header \in Seq(Headers) /\ Len(header) \in Nat
  BY LenProperties DEF TypeOK
<1>2. /\ header' \in Seq(Headers) /\ Len(header') = Len(header) + 1
      /\ \A m \in 1 .. Len(header) : header'[m] = header[m]
      /\ header'[e] = r
  BY <1>1, AppendProperties
<1>3. e \in Emails /\ e # None /\ Len(header') <= MaxEmails
  BY <1>1, <1>2, ThreadingBounds DEF Emails, None
<1>4. Sent' = Sent \union {e} /\ e \notin Sent
  BY <1>1, <1>2 DEF Sent
<1>5. e \notin Stored
  BY <1>4 DEF TypeOK
<1>6. conv[e] = None
  BY <1>3, <1>5 DEF Stored
<1> QED
  BY <1>2, <1>3, <1>4, <1>5, <1>6 DEF Sent

LEMMA WriteKeeps ==
    ASSUME IInv, NEW p \in Participants, NEW refs, NEW answered, NEW tokens,
           Write(p, refs, answered, tokens)
    PROVE  IInv'
<1>0. /\ TypeOK /\ HeaderInv /\ ParentInv /\ AliasInv /\ LiveInv
      /\ OneParticipant /\ RepliesJoined /\ TokensResolve
  BY DEF IInv
<1> DEFINE r == [with |-> p, parent |-> answered, refs |-> refs, tokens |-> tokens]
           e == Len(header) + 1
<1>1. /\ refs \subseteq Sent /\ tokens \subseteq Emitted
      /\ answered \in refs \/ answered = None
      /\ Len(header) < MaxEmails /\ header' = Append(header, r)
      /\ UNCHANGED <<outbound, messageVars, convVars>>
  BY DEF Write
<1>2. Sent \subseteq Emails
  BY <1>0, LenProperties, ThreadingBounds DEF TypeOK, Sent, Emails
<1>3. Emitted \subseteq Convs
  <2>1. \A o \in outbound : header[o] \in Headers
    BY <1>0 DEF TypeOK, Sent
  <2> QED
    BY <2>1 DEF Emitted, Headers
<1>4. r \in Headers
  BY <1>1, <1>2, <1>3 DEF Headers
<1>5. /\ header' \in Seq(Headers) /\ Len(header') <= MaxEmails
      /\ Sent' = Sent \union {e} /\ e \notin Sent
      /\ header'[e] = r /\ \A m \in Sent : header'[m] = header[m]
  BY <1>0, <1>1, <1>4, Appended
<1> HIDE DEF r, e
<1>6. /\ UNCHANGED <<outbound, conv, parent, known, created, who, assigned, based, alias>>
      /\ Stored' = Stored /\ Live' = Live /\ Identified' = Identified
  BY <1>1 DEF messageVars, convVars, Stored, Live, Identified
<1>7. \A m \in Stored : m \in Sent /\ header'[m] = header[m]
  BY <1>0, <1>5 DEF TypeOK
<1>8. TypeOK'
  BY <1>0, <1>5, <1>6 DEF TypeOK
<1>9. HeaderInv'
  <2>1. ASSUME NEW m \in Sent', header'[m].parent # None
        PROVE  header'[m].parent \in header'[m].refs
    <3>1. CASE m = e
      <4>1. header'[m] = r
        BY <1>5, <3>1
      <4>2. r.parent = answered /\ r.refs = refs
        BY DEF r
      <4> QED
        BY <1>1, <2>1, <4>1, <4>2
    <3>2. CASE m \in Sent
      BY <1>0, <1>5, <2>1, <3>2 DEF HeaderInv
    <3> QED
      BY <1>5, <3>1, <3>2
  <2> QED
    BY <2>1 DEF HeaderInv
<1>10. ParentInv'
  BY <1>0, <1>6, <1>7 DEF ParentInv
<1>11. AliasInv' /\ LiveInv'
  BY <1>0, <1>6 DEF AliasInv, LiveInv, Members
<1>12. OneParticipant' /\ RepliesJoined'
  BY <1>0, <1>6, <1>7 DEF OneParticipant, RepliesJoined
<1>13. TokensResolve'
  BY <1>0, <1>6, <1>7 DEF TokensResolve
<1> QED
  BY <1>8, <1>9, <1>10, <1>11, <1>12, <1>13 DEF IInv

\* A token in a stored email was that of a conversation row, and if that row is
\* still there it has a base address.
LEMMA TokenFacts ==
    ASSUME TypeOK, AliasInv, TokensResolve,
           NEW o \in outbound \intersect Stored, NEW t \in header[o].tokens
    PROVE  /\ t \in Convs /\ t # created + 1
           /\ t \in Live => t \in based
           /\ Names(t) = {conv[o]} /\ conv[o] \in Live
<1>1. header[o] \in Headers /\ conv[o] \in Live
  BY StoredFacts DEF Stored
<1>2. t \in Convs /\ Names(t) = {conv[o]}
  BY <1>1 DEF Headers, TokensResolve, Names
<1>3. t <= created
  BY <1>1, <1>2, Numbers DEF TypeOK, AliasInv, Names, Live
<1>4. t # created + 1
  BY <1>2, <1>3, Numbers, ThreadingBounds DEF TypeOK
<1>5. t \in Live => t \in based
  BY <1>1, <1>2, Numbers DEF AliasInv, Names, Live
<1> QED
  BY <1>1, <1>2, <1>4, <1>5

LEMMA OpenKeeps ==
    ASSUME IInv, NEW p \in Participants, Open(p)
    PROVE  IInv'
<1>0. /\ TypeOK /\ HeaderInv /\ ParentInv /\ AliasInv /\ LiveInv
      /\ OneParticipant /\ RepliesJoined /\ TokensResolve
  BY DEF IInv
<1> DEFINE e == Len(header) + 1
           c == created + 1
           r == [with |-> p, parent |-> None, refs |-> {}, tokens |-> {c}]
<1>1. /\ e <= MaxEmails /\ c <= MaxConvs /\ header' = Append(header, r)
      /\ outbound' = outbound \union {e} /\ conv' = [conv EXCEPT ![e] = c]
      /\ created' = c /\ who' = [who EXCEPT ![c] = p]
      /\ assigned' = assigned \union {c} /\ based' = based \union {c}
      /\ UNCHANGED <<parent, known, alias>>
  BY DEF Open
<1>2. c \in Convs /\ c # None /\ created \in Nat
  BY <1>0, <1>1, ThreadingBounds, Numbers DEF TypeOK, Convs
<1>3. r \in Headers
  BY <1>2 DEF Headers
<1>4. Len(header) < MaxEmails
  BY <1>0, <1>1, LenProperties, ThreadingBounds DEF TypeOK
<1>5. /\ header' \in Seq(Headers) /\ Len(header') <= MaxEmails
      /\ Sent' = Sent \union {e} /\ e \in Emails
      /\ e \notin Sent /\ e \notin Stored /\ conv[e] = None /\ e # None
      /\ header'[e] = r /\ \A m \in Sent : header'[m] = header[m]
  BY <1>0, <1>1, <1>3, <1>4, Appended
<1>6. /\ \A d \in Convs : d <= created => d # c /\ d <= created'
      /\ c <= created' /\ created' \in 0 .. MaxConvs
  BY <1>1, <1>2, Numbers
<1>7. r.with = p /\ r.parent = None /\ r.refs = {} /\ r.tokens = {c}
  OBVIOUS
<1> HIDE DEF r, e, c
<1>8. c \notin Live /\ Live' = Live \union {c}
  <2>1. c \notin Live
    BY <1>0, <1>2, <1>6 DEF TypeOK
  <2> QED
    BY <1>0, <1>1, <1>2, <2>1, Numbers DEF TypeOK, Live
<1>9. /\ Stored' = Stored \union {e}
      /\ \A m \in Emails : m # e => conv'[m] = conv[m]
      /\ conv'[e] = c
  <2>1. conv'[e] = c /\ \A m \in Emails : m # e => conv'[m] = conv[m]
    BY <1>0, <1>1, <1>5 DEF TypeOK
  <2> QED
    BY <1>2, <1>5, <2>1 DEF Stored
<1>10. \A m \in Stored : /\ m \in Emails /\ m \in Sent /\ m # e /\ header'[m] = header[m]
                        /\ conv'[m] = conv[m] /\ conv[m] \in Live /\ conv[m] # c
                        /\ who'[conv[m]] = who[conv[m]]
  <2>1. \A m \in Stored : m \in Emails /\ m \in Sent /\ conv[m] \in Live
    BY <1>0 DEF TypeOK, Stored
  <2> QED
    BY <1>0, <1>1, <1>5, <1>8, <1>9, <2>1 DEF TypeOK, Live
<1>11. Identified' = Identified /\ e \notin Identified
  <2>1. e \notin known
    BY <1>0, <1>5 DEF TypeOK
  <2> QED
    BY <1>1, <1>5, <1>9, <1>10, <2>1 DEF Identified
<1>12. TypeOK'
  <2>1. conv' \in [Emails -> Convs \union {None}]
    BY <1>0, <1>1, <1>2 DEF TypeOK
  <2>2. who' \in [Convs -> Participants \union {Nobody}]
    BY <1>0, <1>1 DEF TypeOK
  <2>3. \A d \in Live' : d <= created'
    BY <1>0, <1>6, <1>8 DEF TypeOK, Live
  <2>4. \A m \in Stored' : m \in Sent' /\ conv'[m] \in Live'
    BY <1>5, <1>8, <1>9, <1>10
  <2>5. outbound' \subseteq Sent' /\ known' \subseteq outbound' \intersect Stored'
    BY <1>0, <1>1, <1>5, <1>9 DEF TypeOK
  <2>6. assigned' \subseteq Live' /\ based' \subseteq Live'
    BY <1>0, <1>1, <1>8 DEF TypeOK
  <2>7. parent' \in [Emails -> Emails \union {None}] /\ alias' \in [Convs -> Convs \union {None}]
    BY <1>0, <1>1 DEF TypeOK
  <2> QED
    BY <1>5, <1>6, <2>1, <2>2, <2>3, <2>4, <2>5, <2>6, <2>7 DEF TypeOK
<1>13. HeaderInv'
  BY <1>0, <1>5, <1>7 DEF HeaderInv
<1>14. ParentInv'
  <2>1. ASSUME NEW m \in Emails, parent'[m] # None
        PROVE  /\ m \in Stored' /\ parent'[m] \in Stored'
               /\ parent'[m] = header'[m].parent
               /\ conv'[m] = conv'[parent'[m]]
    <3>1. /\ m \in Stored /\ parent[m] \in Stored
          /\ parent[m] = header[m].parent /\ conv[m] = conv[parent[m]]
      BY <1>0, <1>1, <2>1 DEF ParentInv
    <3> QED
      BY <1>1, <1>9, <1>10, <3>1
  <2> QED
    BY <2>1 DEF ParentInv
<1>15. AliasInv'
  BY <1>0, <1>1, <1>6, <1>8 DEF AliasInv
<1>16. LiveInv'
  <2>1. ASSUME NEW d \in Live' PROVE \E m \in Emails : conv'[m] = d
    <3>1. CASE d = c
      BY <1>5, <1>9, <3>1
    <3>2. CASE d \in Live
      <4>1. PICK m \in Emails : conv[m] = d
        BY <1>0, <3>2 DEF LiveInv, Members
      <4>2. m # e
        BY <1>5, <3>2, <4>1, Numbers DEF Live
      <4> QED
        BY <1>9, <4>1, <4>2
    <3> QED
      BY <1>8, <3>1, <3>2
  <2> QED
    BY <2>1 DEF LiveInv, Members
<1>17. OneParticipant'
  <2>1. ASSUME NEW m \in Stored', m \notin outbound' PROVE header'[m].with = who'[conv'[m]]
    <3>1. m \in Stored /\ m \notin outbound
      BY <1>1, <1>9, <2>1
    <3>2. header[m].with = who[conv[m]]
      BY <1>0, <3>1 DEF OneParticipant
    <3> QED
      BY <1>10, <3>1, <3>2
  <2> QED
    BY <2>1 DEF OneParticipant
<1>18. RepliesJoined'
  <2>1. Identified \subseteq Stored
    BY DEF Identified
  <2>2. ASSUME NEW m \in Stored', header'[m].parent \in Identified',
               who'[conv'[header'[m].parent]] = who'[conv'[m]]
        PROVE  conv'[m] = conv'[header'[m].parent] \/ conv'[m] \in assigned'
    <3>1. CASE m = e
      BY <1>1, <1>9, <3>1
    <3>2. CASE m \in Stored
      <4>1. /\ header'[m] = header[m] /\ header[m].parent \in Identified
            /\ header[m].parent \in Stored
        BY <1>10, <1>11, <2>1, <2>2, <3>2
      <4>2. who[conv[header[m].parent]] = who[conv[m]]
        BY <1>10, <2>2, <3>2, <4>1
      <4>3. conv[m] = conv[header[m].parent] \/ conv[m] \in assigned
        BY <1>0, <3>2, <4>1, <4>2 DEF RepliesJoined
      <4> QED
        BY <1>1, <1>10, <3>2, <4>1, <4>3
    <3> QED
      BY <1>9, <3>1, <3>2
  <2> QED
    BY <2>2 DEF RepliesJoined
<1>19. TokensResolve'
  <2> SUFFICES ASSUME NEW o \in (outbound \intersect Stored)', NEW t \in header'[o].tokens
               PROVE  Names(t)' = {conv'[o]}
    BY DEF TokensResolve, Names
  <2>1. alias[c] = None
    BY <1>0, <1>2, <1>6 DEF AliasInv
  <2>2. CASE o = e
    <3>1. t = c /\ conv'[o] = c
      BY <1>5, <1>7, <1>9, <2>2
    <3> QED
      BY <1>1, <1>8, <2>1, <3>1, Numbers DEF Names, Live
  <2>3. CASE o # e
    <3>1. o \in outbound \intersect Stored /\ t \in header[o].tokens /\ conv'[o] = conv[o]
      BY <1>1, <1>9, <1>10, <2>3
    <3>2. t \in Convs /\ t # c /\ Names(t) = {conv[o]}
      BY <1>0, <3>1, TokenFacts DEF c
    <3>3. alias[t] # c
      BY <1>0, <1>2, <1>8, <3>2 DEF AliasInv
    <3> QED
      BY <1>1, <1>8, <3>1, <3>2, <3>3 DEF Names
  <2> QED
    BY <2>2, <2>3
<1> QED
  BY <1>12, <1>13, <1>14, <1>15, <1>16, <1>17, <1>18, <1>19 DEF IInv

LEMMA ReplyKeeps ==
    ASSUME IInv, NEW a \in Emails, Reply(a)
    PROVE  IInv'
<1>0. /\ TypeOK /\ HeaderInv /\ ParentInv /\ AliasInv /\ LiveInv
      /\ OneParticipant /\ RepliesJoined /\ TokensResolve
  BY DEF IInv
<1> DEFINE e == Len(header) + 1
           c == conv[a]
           r == [with |-> who[c], parent |-> a, refs |-> header[a].refs \union {a},
                 tokens |-> {c}]
<1>1. /\ e <= MaxEmails /\ a \in Identified /\ header' = Append(header, r)
      /\ outbound' = outbound \union {e} /\ conv' = [conv EXCEPT ![e] = c]
      /\ parent' = [parent EXCEPT ![e] = a] /\ based' = based \union {c}
      /\ UNCHANGED <<known, created, who, assigned, alias>>
  BY DEF Reply
<1>2. /\ a \in Stored /\ conv[a] # None /\ c \in Live /\ c \in Convs
      /\ who[c] \in Participants /\ header[a] \in Headers
  BY <1>0, <1>1, StoredFacts DEF Identified, Stored
<1>3. r \in Headers
  BY <1>2 DEF Headers
<1>4. Len(header) < MaxEmails
  BY <1>0, <1>1, LenProperties, ThreadingBounds DEF TypeOK
<1>5. /\ header' \in Seq(Headers) /\ Len(header') <= MaxEmails
      /\ Sent' = Sent \union {e} /\ e \in Emails
      /\ e \notin Sent /\ e \notin Stored /\ conv[e] = None /\ e # None
      /\ header'[e] = r /\ \A m \in Sent : header'[m] = header[m]
  BY <1>0, <1>1, <1>3, <1>4, Appended
<1>6. r.parent = a /\ a \in r.refs /\ r.tokens = {c}
  OBVIOUS
<1>7. c # None
  BY <1>2
<1> HIDE DEF r, e, c
<1>8. Live' = Live
  BY <1>1 DEF Live
<1>9. /\ Stored' = Stored \union {e} /\ conv'[e] = c
      /\ \A m \in Emails : m # e => conv'[m] = conv[m] /\ parent'[m] = parent[m]
  BY <1>0, <1>1, <1>5, <1>7 DEF TypeOK, Stored
<1>10. \A m \in Stored : /\ m \in Emails /\ m \in Sent /\ m # e /\ header'[m] = header[m]
                        /\ conv'[m] = conv[m] /\ parent'[m] = parent[m]
                        /\ conv[m] \in Live
  <2>1. \A m \in Stored : m \in Emails /\ m \in Sent /\ conv[m] \in Live
    BY <1>0 DEF TypeOK, Stored
  <2> QED
    BY <1>5, <1>9, <2>1
<1>11. Identified' = Identified /\ e \notin Identified /\ conv[a] = c
  <2>1. e \notin known
    BY <1>0, <1>5 DEF TypeOK
  <2> QED
    BY <1>1, <1>5, <1>9, <1>10, <2>1 DEF Identified, c
<1>12. TypeOK'
  <2>1. conv' \in [Emails -> Convs \union {None}]
    BY <1>0, <1>1, <1>2 DEF TypeOK, c
  <2>2. \A m \in Stored' : m \in Sent' /\ conv'[m] \in Live'
    BY <1>2, <1>5, <1>8, <1>9, <1>10
  <2>3. outbound' \subseteq Sent' /\ known' \subseteq outbound' \intersect Stored'
    BY <1>0, <1>1, <1>5, <1>9 DEF TypeOK
  <2>4. assigned' \subseteq Live' /\ based' \subseteq Live'
    BY <1>0, <1>1, <1>2, <1>8 DEF TypeOK
  <2>5. parent' \in [Emails -> Emails \union {None}]
    BY <1>0, <1>1 DEF TypeOK
  <2>6. /\ who' \in [Convs -> Participants \union {Nobody}]
        /\ alias' \in [Convs -> Convs \union {None}]
        /\ created' \in 0 .. MaxConvs /\ \A d \in Live' : d <= created'
    BY <1>0, <1>1, <1>8 DEF TypeOK
  <2> QED
    BY <1>5, <2>1, <2>2, <2>3, <2>4, <2>5, <2>6 DEF TypeOK
<1>13. HeaderInv'
  <2>1. ASSUME NEW m \in Sent', header'[m].parent # None
        PROVE  header'[m].parent \in header'[m].refs
    <3>1. CASE m = e
      BY <1>5, <1>6, <3>1
    <3>2. CASE m \in Sent
      BY <1>0, <1>5, <2>1, <3>2 DEF HeaderInv
    <3> QED
      BY <1>5, <3>1, <3>2
  <2> QED
    BY <2>1 DEF HeaderInv
<1>14. ParentInv'
  <2>1. ASSUME NEW m \in Emails, parent'[m] # None
        PROVE  /\ m \in Stored' /\ parent'[m] \in Stored'
               /\ parent'[m] = header'[m].parent
               /\ conv'[m] = conv'[parent'[m]]
    <3>1. CASE m = e
      <4>1. parent'[e] = a /\ a \in Emails /\ header'[e].parent = a /\ conv'[a] = c
        BY <1>0, <1>1, <1>2, <1>5, <1>6, <1>10, <1>11 DEF TypeOK
      <4> QED
        BY <1>2, <1>9, <3>1, <4>1
    <3>2. CASE m # e
      <4>1. /\ m \in Stored /\ parent[m] \in Stored
            /\ parent[m] = header[m].parent /\ conv[m] = conv[parent[m]]
        BY <1>0, <1>9, <2>1, <3>2 DEF ParentInv
      <4> QED
        BY <1>9, <1>10, <4>1
    <3> QED
      BY <3>1, <3>2
  <2> QED
    BY <2>1 DEF ParentInv
<1>15. AliasInv'
  BY <1>0, <1>1, <1>8 DEF AliasInv
<1>16. LiveInv'
  <2>1. ASSUME NEW d \in Live' PROVE \E m \in Emails : conv'[m] = d
    <3>1. PICK m \in Emails : conv[m] = d
      BY <1>0, <1>8, <2>1 DEF LiveInv, Members
    <3>2. m # e
      BY <1>5, <1>8, <2>1, <3>1, Numbers DEF Live
    <3> QED
      BY <1>9, <3>1, <3>2
  <2> QED
    BY <2>1 DEF LiveInv, Members
<1>17. OneParticipant'
  <2>1. ASSUME NEW m \in Stored', m \notin outbound' PROVE header'[m].with = who'[conv'[m]]
    <3>1. m \in Stored /\ m \notin outbound
      BY <1>1, <1>9, <2>1
    <3>2. header[m].with = who[conv[m]]
      BY <1>0, <3>1 DEF OneParticipant
    <3> QED
      BY <1>1, <1>10, <3>1, <3>2
  <2> QED
    BY <2>1 DEF OneParticipant
<1>18. RepliesJoined'
  <2>1. Identified \subseteq Stored
    BY DEF Identified
  <2>2. ASSUME NEW m \in Stored', header'[m].parent \in Identified',
               who'[conv'[header'[m].parent]] = who'[conv'[m]]
        PROVE  conv'[m] = conv'[header'[m].parent] \/ conv'[m] \in assigned'
    <3>1. CASE m = e
      BY <1>2, <1>5, <1>6, <1>9, <1>10, <1>11, <3>1
    <3>2. CASE m \in Stored
      <4>1. /\ header'[m] = header[m] /\ header[m].parent \in Identified
            /\ header[m].parent \in Stored
        BY <1>10, <1>11, <2>1, <2>2, <3>2
      <4>2. who[conv[header[m].parent]] = who[conv[m]]
        BY <1>1, <1>10, <2>2, <3>2, <4>1
      <4>3. conv[m] = conv[header[m].parent] \/ conv[m] \in assigned
        BY <1>0, <3>2, <4>1, <4>2 DEF RepliesJoined
      <4> QED
        BY <1>1, <1>10, <3>2, <4>1, <4>3
    <3> QED
      BY <1>9, <3>1, <3>2
  <2> QED
    BY <2>2 DEF RepliesJoined
<1>19. TokensResolve'
  <2> SUFFICES ASSUME NEW o \in (outbound \intersect Stored)', NEW t \in header'[o].tokens
               PROVE  Names(t)' = {conv'[o]}
    BY DEF TokensResolve, Names
  <2>1. alias[c] = None /\ None \notin Live
    BY <1>0, <1>2, Numbers DEF AliasInv, Live
  <2>2. CASE o = e
    <3>1. t = c /\ conv'[o] = c
      BY <1>5, <1>6, <1>9, <2>2
    <3> QED
      BY <1>1, <1>2, <1>8, <2>1, <3>1 DEF Names
  <2>3. CASE o # e
    <3>1. o \in outbound \intersect Stored /\ t \in header[o].tokens /\ conv'[o] = conv[o]
      BY <1>1, <1>9, <1>10, <2>3
    <3>2. (t \in Live => t \in based) /\ Names(t) = {conv[o]}
      BY <1>0, <3>1, TokenFacts
    <3> QED
      BY <1>1, <1>2, <1>8, <3>1, <3>2 DEF Names
  <2> QED
    BY <2>2, <2>3
<1> QED
  BY <1>12, <1>13, <1>14, <1>15, <1>16, <1>17, <1>18, <1>19 DEF IInv

LEMMA AssignKeeps ==
    ASSUME IInv, NEW c \in Convs, Assign(c)
    PROVE  IInv'
<1>1. /\ c \in Live /\ assigned' = assigned \union {c}
      /\ UNCHANGED <<header, outbound, conv, parent, known, created, who, based, alias>>
  BY DEF Assign, messageVars
<1>2. Sent' = Sent /\ Stored' = Stored /\ Live' = Live /\ Identified' = Identified
  BY <1>1 DEF Sent, Stored, Live, Identified
<1>3. TypeOK'
  BY <1>1, <1>2 DEF IInv, TypeOK
<1>4. HeaderInv' /\ ParentInv' /\ AliasInv' /\ LiveInv' /\ OneParticipant' /\ TokensResolve'
  BY <1>1, <1>2 DEF IInv, HeaderInv, ParentInv, AliasInv, LiveInv, Members, OneParticipant,
                    TokensResolve
<1>5. RepliesJoined'
  BY <1>1, <1>2 DEF IInv, RepliesJoined
<1> QED
  BY <1>3, <1>4, <1>5 DEF IInv

LEMMA DeleteKeeps ==
    ASSUME IInv, NEW c \in Convs, Delete(c)
    PROVE  IInv'
<1>0. /\ TypeOK /\ HeaderInv /\ ParentInv /\ AliasInv /\ LiveInv
      /\ OneParticipant /\ RepliesJoined /\ TokensResolve
  BY DEF IInv
<1>1. /\ c \in Live
      /\ conv' = [m \in Emails |-> IF conv[m] = c THEN None ELSE conv[m]]
      /\ parent' = [m \in Emails |-> IF conv[m] = c THEN None ELSE parent[m]]
      /\ known' = known \ Members(c)
      /\ who' = [who EXCEPT ![c] = Nobody]
      /\ assigned' = assigned \ {c} /\ based' = based \ {c}
      /\ alias' = [t \in Convs |-> IF alias[t] = c THEN None ELSE alias[t]]
      /\ UNCHANGED <<header, outbound, created>>
  BY DEF Delete
<1>2. Sent' = Sent /\ Live' = Live \ {c} /\ None \notin Live /\ c # None
  BY <1>0, <1>1, Numbers DEF TypeOK, Sent, Live
<1>3. /\ Stored' = {m \in Stored : conv[m] # c}
      /\ \A m \in Stored' : /\ m \in Stored /\ m \in Emails /\ conv[m] # c
                            /\ conv'[m] = conv[m] /\ parent'[m] = parent[m]
                            /\ conv[m] \in Live
                            /\ who'[conv'[m]] = who[conv[m]]
  <2>1. Stored' = {m \in Stored : conv[m] # c}
    BY <1>1, <1>2 DEF Stored
  <2>2. \A m \in Stored : conv[m] \in Live /\ m \in Emails
    BY <1>0 DEF TypeOK, Stored
  <2> QED
    BY <1>0, <1>1, <2>1, <2>2 DEF TypeOK, Live
<1>4. Identified' \subseteq Identified /\ Identified' \subseteq Stored'
  BY <1>1, <1>3 DEF Identified
<1>5. TypeOK'
  <2>1. conv' \in [Emails -> Convs \union {None}] /\ parent' \in [Emails -> Emails \union {None}]
    BY <1>0, <1>1 DEF TypeOK
  <2>2. /\ who' \in [Convs -> Participants \union {Nobody}]
        /\ alias' \in [Convs -> Convs \union {None}]
    BY <1>0, <1>1 DEF TypeOK
  <2>3. known' \subseteq outbound' \intersect Stored'
    BY <1>0, <1>1, <1>3 DEF TypeOK, Members, Stored
  <2>4. \A m \in Stored' : m \in Sent' /\ conv'[m] \in Live'
    BY <1>0, <1>2, <1>3 DEF TypeOK
  <2>5. assigned' \subseteq Live' /\ based' \subseteq Live' /\ \A d \in Live' : d <= created'
    BY <1>0, <1>1, <1>2 DEF TypeOK
  <2> QED
    BY <1>0, <1>1, <1>2, <2>1, <2>2, <2>3, <2>4, <2>5 DEF TypeOK
<1>6. HeaderInv'
  BY <1>0, <1>1, <1>2 DEF HeaderInv
<1>7. ParentInv'
  <2>1. ASSUME NEW m \in Emails, parent'[m] # None
        PROVE  /\ m \in Stored' /\ parent'[m] \in Stored'
               /\ parent'[m] = header'[m].parent
               /\ conv'[m] = conv'[parent'[m]]
    <3>1. conv[m] # c /\ parent'[m] = parent[m]
      BY <1>1, <2>1
    <3>2. /\ m \in Stored /\ parent[m] \in Stored
          /\ parent[m] = header[m].parent /\ conv[m] = conv[parent[m]]
      BY <1>0, <2>1, <3>1 DEF ParentInv
    <3>3. m \in Stored' /\ parent[m] \in Stored'
      BY <1>3, <3>1, <3>2
    <3> QED
      BY <1>1, <1>3, <3>1, <3>2, <3>3
  <2> QED
    BY <2>1 DEF ParentInv
<1>8. AliasInv'
  BY <1>0, <1>1, <1>2 DEF AliasInv
<1>9. LiveInv'
  <2>1. ASSUME NEW d \in Live' PROVE \E m \in Emails : conv'[m] = d
    <3>1. PICK m \in Emails : conv[m] = d
      BY <1>0, <1>2, <2>1 DEF LiveInv, Members
    <3> QED
      BY <1>1, <1>2, <2>1, <3>1
  <2> QED
    BY <2>1 DEF LiveInv, Members
<1>10. OneParticipant'
  BY <1>0, <1>1, <1>3 DEF OneParticipant
<1>11. RepliesJoined'
  <2>1. ASSUME NEW m \in Stored', header[m].parent \in Identified',
               who'[conv'[header[m].parent]] = who'[conv'[m]]
        PROVE  conv'[m] = conv'[header[m].parent] \/ conv'[m] \in assigned'
    <3>1. /\ who[conv[header[m].parent]] = who[conv[m]] /\ m \in Stored
          /\ header[m].parent \in Identified
      BY <1>3, <1>4, <2>1
    <3>2. conv[m] = conv[header[m].parent] \/ conv[m] \in assigned
      BY <1>0, <3>1 DEF RepliesJoined
    <3> QED
      BY <1>1, <1>3, <1>4, <2>1, <3>2
  <2> QED
    BY <1>1, <2>1 DEF RepliesJoined
<1>12. TokensResolve'
  <2> SUFFICES ASSUME NEW o \in outbound \intersect Stored', NEW t \in header[o].tokens
               PROVE  Names(t)' = {conv'[o]}
    BY <1>1 DEF TokensResolve, Names
  <2>1. o \in outbound \intersect Stored /\ conv'[o] = conv[o] /\ conv[o] # c
    BY <1>3
  <2>2. t \in Convs /\ Names(t) = {conv[o]} /\ conv[o] \in Live
    BY <1>0, <2>1, TokenFacts
  <2> QED
    BY <1>1, <1>2, <2>1, <2>2 DEF Names
<1> QED
  BY <1>5, <1>6, <1>7, <1>8, <1>9, <1>10, <1>11, <1>12 DEF IInv

-----------------------------------------------------------------------------
(* The invariant holds.                                                    *)

LEMMA IInvInit == Init => IInv
<1> SUFFICES ASSUME Init PROVE IInv
  OBVIOUS
<1>1. /\ header = <<>> /\ Len(header) = 0 /\ Sent = {} /\ Stored = {} /\ Live = {}
  BY DEF Init, Sent, Stored, Live
<1>2. TypeOK
  BY <1>1, ThreadingBounds DEF Init, TypeOK
<1> QED
  BY <1>1, <1>2 DEF Init, IInv, HeaderInv, ParentInv, AliasInv, LiveInv, OneParticipant,
                    RepliesJoined, TokensResolve

LEMMA IInvStep == IInv /\ [Next]_vars => IInv'
<1> SUFFICES ASSUME IInv, [Next]_vars PROVE IInv'
  OBVIOUS
<1>1. ASSUME NEW p \in Participants, NEW refs \in SUBSET Sent, NEW tokens \in SUBSET Emitted,
             NEW answered \in refs \union {None}, Write(p, refs, answered, tokens)
      PROVE  IInv'
  BY <1>1, WriteKeeps
<1>2. ASSUME NEW p \in Participants, Open(p) PROVE IInv'
  BY <1>2, OpenKeeps
<1>3. ASSUME NEW m \in Emails, Reply(m) PROVE IInv'
  BY <1>3, ReplyKeeps
<1>4. ASSUME NEW m \in Emails, Receive(m) PROVE IInv'
  BY <1>4, JoinMerges, MergeStep
<1>5. ASSUME NEW m \in Emails, Record(m) PROVE IInv'
  BY <1>5, RecordMerges, MergeStep
<1>6. ASSUME NEW c \in Convs, Assign(c) PROVE IInv'
  BY <1>6, AssignKeeps
<1>7. ASSUME NEW c \in Convs, Delete(c) PROVE IInv'
  BY <1>7, DeleteKeeps
<1>8. CASE UNCHANGED vars
  BY <1>8 DEF vars, messageVars, convVars, IInv, TypeOK, Sent, Stored, Live, Members, Identified,
              HeaderInv, ParentInv, AliasInv, LiveInv, OneParticipant, RepliesJoined, TokensResolve
<1> QED
  BY <1>1, <1>2, <1>3, <1>4, <1>5, <1>6, <1>7, <1>8 DEF Next

LEMMA Invariance == Spec => []IInv
BY IInvInit, IInvStep, PTL DEF Spec

\* The variables have their types; a conversation that an email, an assignment
\* or a base address is in has a row.
THEOREM TypeCorrect == Spec => []TypeOK
<1>1. IInv => TypeOK
  BY DEF IInv
<1> QED
  BY Invariance, <1>1, PTL

\* A conversation holds the emails of one participant, whatever is merged.
THEOREM ParticipantsApart == Spec => []OneParticipant
<1>1. IInv => OneParticipant
  BY DEF IInv
<1> QED
  BY Invariance, <1>1, PTL

\* An email and the email it answers share a conversation, in whatever order
\* they came, unless the answer's conversation has a topic of its own.
THEOREM AnswersJoined == Spec => []RepliesJoined
<1>1. IInv => RepliesJoined
  BY DEF IInv
<1> QED
  BY Invariance, <1>1, PTL

\* The token of a sent email leads to the email's conversation and to no other,
\* through any number of merges.
THEOREM TokensLead == Spec => []TokensResolve
<1>1. IInv => TokensResolve
  BY DEF IInv
<1> QED
  BY Invariance, <1>1, PTL

-----------------------------------------------------------------------------
(* Every step is one of the promise, or leaves its threads alone.          *)

Threads == {Members(c) : c \in Convs} \ {{}}
Topics == {Members(c) : c \in assigned}

\* Each conversation row is one thread, and different rows are different ones.
LEMMA ThreadFacts ==
    ASSUME IInv
    PROVE  /\ Threads = {Members(c) : c \in Live}
           /\ Topics \subseteq Threads
           /\ \A c, d \in Live : Members(c) = Members(d) => c = d
           /\ UNION Threads = Stored
<1>1. \A m \in Emails : conv[m] # None => conv[m] \in Live /\ m \in Stored
  BY DEF IInv, TypeOK, Stored
<1>2. \A c \in Live : c \in Convs /\ Members(c) # {} /\ c # None
  BY Numbers DEF IInv, LiveInv, Live
<1>3. \A c \in Convs : c \notin Live => Members(c) = {}
  BY <1>1, Numbers DEF Members
<1>4. Threads = {Members(c) : c \in Live}
  BY <1>2, <1>3 DEF Threads
<1>5. Topics \subseteq Threads
  BY <1>4 DEF Topics, IInv, TypeOK
<1>6. ASSUME NEW c \in Live, NEW d \in Live, Members(c) = Members(d) PROVE c = d
  BY <1>2, <1>6 DEF Members
<1>7. UNION Threads = Stored
  <2>1. \A m \in Stored : m \in Members(conv[m]) /\ conv[m] \in Live
    BY <1>1 DEF Stored, Members
  <2>2. \A c \in Live : Members(c) \subseteq Stored
    BY <1>2 DEF Stored, Members
  <2> QED
    BY <1>4, <2>1, <2>2
<1> QED
  BY <1>4, <1>5, <1>6, <1>7

\* The rows in J become one, c, with the emails in new; a topic among them is c's.
LEMMA RowsJoin ==
    ASSUME IInv, IInv', NEW J \in SUBSET Live, NEW c, NEW new,
           c \in Live => c \in J,
           Live' = (Live \ J) \union {c},
           \A d \in Live \ J : Members(d)' = Members(d),
           Members(c)' = (UNION {Members(d) : d \in J}) \union new,
           assigned' = assigned, J \intersect assigned \subseteq {c}
    PROVE  Promise!Join({Members(d) : d \in J}, new)
<1> DEFINE joined == {Members(d) : d \in J}
           whole == (UNION joined) \union new
<1>1. /\ Threads = {Members(d) : d \in Live} /\ assigned \subseteq Live
      /\ \A d, f \in Live : Members(d) = Members(f) => d = f
  BY ThreadFacts DEF IInv, TypeOK
<1>2. Threads' = {Members(d)' : d \in Live'} /\ assigned \subseteq Live'
  <2>1. \A d \in Convs : d \in Live' <=> Members(d)' # {}
    <3>1. \A m \in Emails : conv'[m] # None => conv'[m] \in Live'
      BY DEF IInv, TypeOK, Stored
    <3>2. \A d \in Live' : Members(d)' # {}
      BY DEF IInv, LiveInv
    <3>3. ASSUME NEW d \in Convs, d \notin Live' PROVE Members(d)' = {}
      <4>1. \A m \in Emails : conv'[m] # d
        BY <3>1, <3>3, Numbers
      <4> QED
        BY <4>1 DEF Members
    <3> QED
      BY <3>2, <3>3
  <2>2. Live' \subseteq Convs
    BY DEF Live
  <2> QED
    BY <2>1, <2>2 DEF Threads, IInv, TypeOK
<1>3. Threads' = (Threads \ joined) \union {whole}
  <2>1. {Members(d)' : d \in Live'} = {Members(d) : d \in Live \ J} \union {whole}
    OBVIOUS
  <2>2. {Members(d) : d \in Live \ J} = Threads \ joined
    BY <1>1
  <2> QED
    BY <1>2, <2>1, <2>2
<1>4. CASE c \in assigned
  <2>1. c \in J /\ c \in Live
    BY <1>1, <1>4
  <2>2. joined \intersect Topics = {Members(c)}
    BY <1>1, <1>4, <2>1 DEF Topics
  <2>4. Topics' = (Topics \ joined) \union {whole}
    <3>1. Topics' = {Members(d)' : d \in assigned}
      BY DEF Topics
    <3>2. {Members(d)' : d \in assigned} = {Members(d) : d \in assigned \ {c}} \union {whole}
      <4>1. \A d \in assigned \ {c} : Members(d)' = Members(d)
        BY <1>1
      <4>2. Members(c)' = whole
        OBVIOUS
      <4> QED
        BY <1>4, <4>1, <4>2
    <3>3. {Members(d) : d \in assigned \ {c}} = Topics \ joined
      BY <1>1, <2>1, <2>2 DEF Topics
    <3> QED
      BY <3>1, <3>2, <3>3
  <2> QED
    BY <1>3, <2>2, <2>4 DEF Promise!Join, Threads, Topics
<1>5. CASE c \notin assigned
  <2>1. joined \intersect Topics = {}
    BY <1>1, <1>5 DEF Topics
  <2>3. Topics' = Topics
    <3>1. \A d \in assigned : Members(d)' = Members(d)
      BY <1>1, <1>5
    <3> QED
      BY <3>1 DEF Topics
  <2> QED
    BY <1>3, <2>1, <2>3 DEF Promise!Join, Threads, Topics
<1> QED
  BY <1>4, <1>5

LEMMA PromisedJoin ==
    ASSUME IInv, NEW J \in SUBSET Live, NEW new, new \subseteq Emails,
           \/ \E e \in Emails \ Stored : new = {e}
           \/ new = {} /\ J # {},
           Promise!Join({Members(d) : d \in J}, new)
    PROVE  Promise!Next
<1> DEFINE joined == {Members(d) : d \in J}
<1>1. Threads = {Members(d) : d \in Live} /\ UNION Threads = Stored
  BY ThreadFacts
<1>2. joined \in SUBSET Threads /\ {} \notin Threads
  BY <1>1 DEF Threads
<1>3. CASE \E e \in Emails \ Stored : new = {e}
  <2>1. PICK e \in Emails \ Stored : new = {e}
    BY <1>3
  <2>2. Promise!Join(joined, {e})
    BY <2>1
  <2>3. e \in Emails \ Promise!Stored
    BY <1>1, <2>1 DEF Promise!Stored, Threads
  <2> HIDE DEF joined
  <2> QED
    BY <1>2, <2>2, <2>3 DEF Promise!Next, Threads
<1>4. CASE new = {} /\ J # {}
  <2>1. joined \in SUBSET Threads \ {{}}
    BY <1>2, <1>4
  <2>2. Promise!Join(joined, {})
    BY <1>4
  <2> HIDE DEF joined
  <2> QED
    BY <2>1, <2>2 DEF Promise!Next, Threads
<1> QED
  BY <1>3, <1>4

LEMMA MergeJoins ==
    ASSUME IInv, IInv', NEW e, NEW c, NEW p, NEW gone, Merge(e, c, p, gone)
    PROVE  Promise!Next
<1>0. TypeOK /\ Merged(e, c, p, gone)
  BY MergeFacts DEF IInv
<1> DEFINE J == gone \union (Live \intersect {c})
           new == {e} \ Stored
<1>1. /\ e \in Emails /\ c \in Convs /\ gone \subseteq Live \ assigned /\ c \notin gone
      /\ conv[e] = c \/ conv[e] = None
      /\ conv' = [m \in Emails |-> IF m = e \/ conv[m] \in gone THEN c ELSE conv[m]]
      /\ Live' = (Live \ gone) \union {c} /\ assigned' = assigned
  BY <1>0 DEF Merge, Merged
<1>2. /\ c # None /\ None \notin Live
      /\ \A m \in Emails : m \in Stored <=> conv[m] # None
      /\ \A m \in Stored : conv[m] \in Live
  BY <1>0, <1>1, Numbers DEF Stored, Live, TypeOK
<1>3. \A d \in Live \ J : Members(d)' = Members(d)
  BY <1>1, <1>2 DEF Members
<1>4. Members(c)' = (UNION {Members(d) : d \in J}) \union new
  <2>1. ASSUME NEW m \in Emails
        PROVE  conv'[m] = c <=> m \in new \/ conv[m] \in J
    <3>1. m \in new <=> m = e /\ conv[e] = None
      BY <1>1, <1>2
    <3>2. conv[m] = c => c \in Live
      BY <1>2
    <3> QED
      BY <1>1, <3>1, <3>2
  <2>2. UNION {Members(d) : d \in J} = {m \in Emails : conv[m] \in J}
    BY DEF Members
  <2>3. new \subseteq Emails
    BY <1>1
  <2> HIDE DEF J, new
  <2> QED
    BY <2>1, <2>2, <2>3 DEF Members
<1>5. Live' = (Live \ J) \union {c} /\ J \in SUBSET Live /\ J \intersect assigned \subseteq {c}
  BY <1>1
<1>6. c \in Live => c \in J
  OBVIOUS
<1>7. new \subseteq Emails
  BY <1>1
<1>8. \/ \E f \in Emails \ Stored : new = {f}
      \/ new = {} /\ J # {}
  <2>1. CASE e \in Stored
    <3>1. c \in Live
      BY <1>1, <1>2, <2>1
    <3> QED
      BY <2>1, <3>1
  <2>2. CASE e \notin Stored
    BY <1>1, <2>2
  <2> QED
    BY <2>1, <2>2
<1> HIDE DEF J, new
<1>9. Promise!Join({Members(d) : d \in J}, new)
  BY <1>1, <1>3, <1>4, <1>5, <1>6, RowsJoin
<1> QED
  BY <1>5, <1>7, <1>8, <1>9, PromisedJoin

LEMMA OpenOpens ==
    ASSUME IInv, IInv', NEW p \in Participants, Open(p)
    PROVE  Promise!Next
<1>0. TypeOK
  BY DEF IInv
<1>1. PICK e \in Emails, c \in Convs :
         /\ e = Len(header) + 1 /\ c = created + 1
         /\ conv' = [conv EXCEPT ![e] = c]
         /\ who' = [who EXCEPT ![c] = p] /\ assigned' = assigned \union {c}
  <2>1. Len(header) + 1 \in Emails
    BY <1>0, LenProperties, ThreadingBounds DEF Open, TypeOK, Emails
  <2>2. created + 1 \in Convs
    BY <1>0, ThreadingBounds DEF Open, TypeOK, Convs
  <2> QED
    BY <2>1, <2>2 DEF Open
<1>2. e \notin Sent
  BY <1>0, <1>1, LenProperties DEF TypeOK, Sent
<1>3. e \notin Stored /\ conv[e] = None
  BY <1>0, <1>2 DEF TypeOK, Stored
<1>4. c \notin Live
  BY <1>0, <1>1, ThreadingBounds DEF TypeOK, Live
<1>5. \A m \in Emails : conv[m] \in Live \union {None}
  BY <1>0 DEF TypeOK, Stored
<1>6. \A d \in Convs : d # c => Members(d)' = Members(d)
  BY <1>0, <1>1, <1>2, <1>3, Numbers DEF TypeOK, Members
<1>7. Members(c) = {} /\ Members(c)' = {e}
  <2>1. c # None
    BY <1>1, Numbers
  <2>2. \A m \in Emails : conv[m] # c
    BY <1>4, <1>5, <2>1
  <2>3. conv'[e] = c /\ \A m \in Emails : m # e => conv'[m] = conv[m]
    BY <1>0, <1>1 DEF TypeOK
  <2> QED
    BY <1>1, <2>2, <2>3 DEF Members
<1>8. Threads' = Threads \union {{e}}
  <2>1. Threads' = {Members(d)' : d \in Convs} \ {{}}
    BY DEF Threads
  <2>2. {Members(d)' : d \in Convs} = {Members(d) : d \in Convs \ {c}} \union {{e}}
    BY <1>4, <1>6, <1>7
  <2>3. {Members(d) : d \in Convs} = {Members(d) : d \in Convs \ {c}} \union {{}}
    BY <1>4, <1>7
  <2> QED
    BY <2>1, <2>2, <2>3 DEF Threads
<1>9. Topics' = Topics \union {{e}}
  <2>1. Topics' = {Members(d)' : d \in assigned \union {c}}
    BY <1>1 DEF Topics
  <2>2. \A d \in assigned : Members(d)' = Members(d)
    BY <1>0, <1>4, <1>6 DEF TypeOK, Live
  <2> QED
    BY <1>7, <2>1, <2>2 DEF Topics
<1>10. e \in Emails \ Promise!Stored
  <2>1. UNION Threads = Stored
    BY ThreadFacts
  <2> QED
    BY <1>2, <1>3, <2>1 DEF Promise!Stored, Threads
<1>11. Promise!Open(e)
  BY <1>8, <1>9, <1>10 DEF Promise!Open, Threads, Topics
<1> QED
  BY <1>10, <1>11 DEF Promise!Next

LEMMA ReplyJoins ==
    ASSUME IInv, IInv', NEW a \in Emails, Reply(a)
    PROVE  Promise!Next
<1>0. TypeOK
  BY DEF IInv
<1>1. PICK e \in Emails, c \in Convs :
         /\ e = Len(header) + 1 /\ c = conv[a] /\ a \in Stored
         /\ conv' = [conv EXCEPT ![e] = c] /\ UNCHANGED <<who, assigned>>
  <2>1. Len(header) + 1 \in Emails
    BY <1>0, LenProperties, ThreadingBounds DEF Reply, TypeOK, Emails
  <2>2. conv[a] \in Convs
    BY <1>0, StoredFacts DEF Reply, Identified, Stored
  <2> QED
    BY <2>1, <2>2 DEF Reply, Identified
<1>2. e \notin Sent
  BY <1>0, <1>1, LenProperties DEF TypeOK, Sent
<1>3. e \notin Stored /\ conv[e] = None
  BY <1>0, <1>2 DEF TypeOK, Stored
<1>4. c \in Live /\ None \notin Live
  BY <1>0, <1>1, Numbers DEF TypeOK, Live
<1>5. \A d \in Live \ {c} : Members(d)' = Members(d)
  BY <1>0, <1>1, <1>2, <1>3, <1>4 DEF TypeOK, Members
<1>6. Members(c)' = Members(c) \union {e}
  BY <1>0, <1>1, <1>3 DEF TypeOK, Members
<1>7. Members(c)' = (UNION {Members(d) : d \in {c}}) \union {e}
  BY <1>6
<1>8. Live' = (Live \ {c}) \union {c}
  BY <1>1, <1>4 DEF Live
<1>9. Promise!Join({Members(d) : d \in {c}}, {e})
  <2>1. {c} \in SUBSET Live /\ c \in {c} /\ {c} \intersect assigned \subseteq {c}
    BY <1>4
  <2>2. assigned' = assigned
    BY <1>1
  <2> QED
    BY <1>5, <1>7, <1>8, <2>1, <2>2, RowsJoin
<1> QED
  BY <1>2, <1>3, <1>4, <1>9, PromisedJoin

LEMMA AssignAssigns ==
    ASSUME IInv, NEW c \in Convs, Assign(c)
    PROVE  Promise!Next
<1>1. c \in Live /\ assigned' = assigned \union {c} /\ UNCHANGED conv
  BY DEF Assign, messageVars
<1>2. Threads' = Threads /\ Topics' = Topics \union {Members(c)}
  BY <1>1 DEF Threads, Topics, Members
<1>3. Members(c) \in Threads
  BY <1>1, ThreadFacts
<1>4. Promise!Assign(Members(c))
  BY <1>2 DEF Promise!Assign, Threads, Topics
<1> QED
  BY <1>3, <1>4 DEF Promise!Next, Threads

LEMMA DeleteRemoves ==
    ASSUME IInv, NEW c \in Convs, Delete(c)
    PROVE  Promise!Next
<1>1. /\ c \in Live /\ assigned' = assigned \ {c}
      /\ conv' = [m \in Emails |-> IF conv[m] = c THEN None ELSE conv[m]]
  BY DEF Delete
<1>2. /\ Threads = {Members(d) : d \in Live} /\ assigned \subseteq Live
      /\ \A d, f \in Live : Members(d) = Members(f) => d = f
  BY ThreadFacts DEF IInv, TypeOK
<1>3. Members(c)' = {} /\ \A d \in Convs : d # c => Members(d)' = Members(d)
  BY <1>1, Numbers DEF Members
<1>4. Threads' = Threads \ {Members(c)}
  <2>1. Threads' = {Members(d)' : d \in Convs} \ {{}}
    BY DEF Threads
  <2>2. {Members(d)' : d \in Convs} = {Members(d) : d \in Convs \ {c}} \union {{}}
    BY <1>3
  <2>3. \A d \in Convs \ {c} : Members(d) = Members(c) => FALSE
    <3>1. \A d \in Convs : d \notin Live => Members(d) = {}
      <4>1. \A m \in Emails : conv[m] # None => conv[m] \in Live
        BY DEF IInv, TypeOK, Stored
      <4> QED
        BY <4>1, Numbers DEF Members
    <3>2. Members(c) # {}
      BY <1>1 DEF IInv, LiveInv
    <3> QED
      BY <1>1, <1>2, <3>1, <3>2
  <2> QED
    BY <2>1, <2>2, <2>3 DEF Threads
<1>5. Topics' = Topics \ {Members(c)}
  <2>1. Topics' = {Members(d)' : d \in assigned \ {c}}
    BY <1>1 DEF Topics
  <2>2. \A d \in assigned \ {c} : Members(d)' = Members(d)
    BY <1>2, <1>3 DEF Live
  <2> QED
    BY <1>1, <1>2, <2>1, <2>2 DEF Topics
<1>6. Promise!Remove(Members(c))
  BY <1>4, <1>5 DEF Promise!Remove, Threads, Topics
<1>7. Members(c) \in Threads
  BY <1>1, <1>2
<1> QED
  BY <1>6, <1>7 DEF Promise!Next, Threads

LEMMA StepKeeps == IInv /\ IInv' /\ [Next]_vars => [Promise!Next]_(Promise!vars)
<1> SUFFICES ASSUME IInv, IInv', [Next]_vars PROVE [Promise!Next]_(Promise!vars)
  OBVIOUS
<1>1. ASSUME NEW p \in Participants, NEW refs \in SUBSET Sent, NEW tokens \in SUBSET Emitted,
             NEW answered \in refs \union {None}, Write(p, refs, answered, tokens)
      PROVE  UNCHANGED Promise!vars
  BY <1>1 DEF Write, messageVars, convVars, Promise!vars, Members
<1>2. ASSUME NEW p \in Participants, Open(p) PROVE Promise!Next
  BY <1>2, OpenOpens
<1>3. ASSUME NEW m \in Emails, Reply(m) PROVE Promise!Next
  BY <1>3, ReplyJoins
<1>4. ASSUME NEW m \in Emails, Receive(m) PROVE Promise!Next
  BY <1>4, JoinMerges, MergeJoins
<1>5. ASSUME NEW m \in Emails, Record(m) PROVE Promise!Next
  BY <1>5, RecordMerges, MergeJoins
<1>6. ASSUME NEW c \in Convs, Assign(c) PROVE Promise!Next
  BY <1>6, AssignAssigns
<1>7. ASSUME NEW c \in Convs, Delete(c) PROVE Promise!Next
  BY <1>7, DeleteRemoves
<1>8. CASE UNCHANGED vars
  BY <1>8 DEF vars, messageVars, convVars, Promise!vars, Members
<1> QED
  BY <1>1, <1>2, <1>3, <1>4, <1>5, <1>6, <1>7, <1>8 DEF Next

\* Merges, late ids and redeliveries never split a conversation, lose an email
\* or put two topics into one: grouping implements MailThreads.
THEOREM Implements == Spec => KeepsThreads
<1>1. Init => Promise!Init
  BY Numbers DEF Init, Promise!Init, Members
<1> QED
  BY Invariance, StepKeeps, <1>1, PTL DEF Spec, KeepsThreads, Promise!Spec
=============================================================================
