----------------------- MODULE ConversationEventsProofs -----------------------
(***************************************************************************)
(* Proofs about the event feed, for any conversations, replicas, number of *)
(* events and number of crashes.                                           *)
(***************************************************************************)
EXTENDS ConversationEvents, TLAPS

-----------------------------------------------------------------------------
(* The inductive invariant.                                                *)

\* A conversation has the rows of all its events until its deletion leaves the
\* row of the deletion only; a live one has room for its last event.
RowsInv ==
    \A c \in Convs :
        /\ conv[c] = "absent" => sequence[c] = 0
        /\ conv[c] = "live" => sequence[c] <= MaxEvents
        /\ \A n \in 1 .. MaxEvents + 1 :
              <<c, n>> \in rows
                  <=> n <= sequence[c] /\ (conv[c] = "deleted" => n = sequence[c])

InFeed(c, n) == \E k \in DOMAIN feed[c] : feed[c][k] = n

\* The feed holds events that were appended, among them all those recorded as
\* published or about to be.
FeedInv ==
    /\ \A c \in Convs : \A k \in DOMAIN feed[c] : feed[c][k] <= sequence[c]
    /\ \A e \in published : InFeed(e[1], e[2])
    /\ \A w \in Workers :
          job[w].stage = "stored" => InFeed(job[w].event[1], job[w].event[2])

\* A worker holds the event, or a request with it is on its way.
Handled(c, n) ==
    \E w \in Workers : <<c, n>> \in todo[w] \/ <<w, <<c, n>>>> \in wire

\* Only the deletion may be handled before all earlier events are in the feed.
HandInv ==
    /\ \A c \in Convs, n \in 1 .. MaxEvents + 1 :
          Handled(c, n) =>
              /\ n <= sequence[c]
              /\ ~IsDeletion(c, n) => \A j \in 1 .. n - 1 : InFeed(c, j)
    /\ \A e \in Events : holder[e] # {} => e \in rows

\* Once an event follows the deletion, no event that is handled is new.
StragglerInv ==
    \A c \in Convs : \A k \in DOMAIN feed[c] :
        IsDeletion(c, feed[c][k]) =>
            \/ Len(feed[c]) = k
            \/ /\ Len(feed[c]) = k + 1
               /\ \A n \in 1 .. MaxEvents + 1 : Handled(c, n) => InFeed(c, n)

IInv == TypeOK /\ RowsInv /\ FeedInv /\ HandInv /\ FeedInOrder /\ StragglerInv

-----------------------------------------------------------------------------
(* What the operators say.                                                 *)

LEMMA EventFacts ==
    /\ \A e \in Events : /\ e = <<e[1], e[2]>>
                         /\ e[1] \in Convs
                         /\ e[2] \in 1 .. MaxEvents + 1
    /\ \A c \in Convs, n \in 1 .. MaxEvents + 1 : <<c, n>> \in Events
BY DEF Events

LEMMA JobFacts ==
    ASSUME TypeOK, NEW w \in Workers
    PROVE  /\ job[w].stage \in {"resting", "publishing", "stored", "failed"}
           /\ job[w].stage = "resting" <=> job[w] = Resting
           /\ job[w].stage # "resting" =>
                 /\ job[w].event \in Events
                 /\ \A s \in {"publishing", "stored", "failed"} :
                       LET j == [job EXCEPT ![w].stage = s]
                       IN  /\ j \in [Workers -> Jobs]
                           /\ j[w].stage = s /\ j[w].event = job[w].event
                           /\ \A v \in Workers \ {w} : j[v] = job[v]
<1>1. job[w] \in Jobs
  BY DEF TypeOK
<1>2. CASE job[w] = Resting
  BY <1>2 DEF Resting
<1>3. CASE job[w] \in [stage : {"publishing", "stored", "failed"}, event : Events]
  <2>1. job[w].stage \in {"publishing", "stored", "failed"} /\ job[w].event \in Events
    BY <1>3
  <2>2. job[w] # Resting
    BY <2>1 DEF Resting
  <2>3. ASSUME NEW s \in {"publishing", "stored", "failed"}
        PROVE  LET j == [job EXCEPT ![w].stage = s]
               IN  /\ j \in [Workers -> Jobs]
                   /\ j[w].stage = s /\ j[w].event = job[w].event
                   /\ \A v \in Workers \ {w} : j[v] = job[v]
    <3> DEFINE r == [job[w] EXCEPT !.stage = s]
    <3>1. r \in [stage : {"publishing", "stored", "failed"}, event : Events]
          /\ r.stage = s /\ r.event = job[w].event
      BY <1>3
    <3>2. [job EXCEPT ![w].stage = s] = [job EXCEPT ![w] = r]
      OBVIOUS
    <3> HIDE DEF r
    <3> QED
      BY <3>1, <3>2 DEF TypeOK, Jobs
  <2> QED
    BY <2>1, <2>2, <2>3
<1> QED
  BY <1>1, <1>2, <1>3 DEF Jobs

\* The transactions that append: no conversation is deleted or comes back.
Appends ==
    \E added \in [Convs -> Nat] :
        /\ AppendTo(added)
        /\ conv' \in [Convs -> {"absent", "live", "merged", "deleted"}]
        /\ \A c \in Convs :
              /\ conv[c] = "deleted" <=> conv'[c] = "deleted"
              /\ conv[c] = "deleted" => added[c] = 0
              /\ conv'[c] = "absent" => conv[c] = "absent" /\ added[c] = 0
              /\ conv'[c] = "live" => sequence[c] + added[c] <= MaxEvents
              /\ sequence[c] + added[c] <= MaxEvents + 1
        /\ UNCHANGED <<deliveryVars, todo, job, wire, feed, crashes>>

LEMMA ServiceFacts ==
    ASSUME TypeOK, RowsInv, Service
    PROVE  Appends \/ \E c \in Convs : Delete(c)
<1> USE EventBounds
<1>1. ASSUME NEW c \in Convs, Create(c)
      PROVE  Appends
  <2> DEFINE added == Only(c, 2)
  <2>1. added \in [Convs -> Nat] /\ \A d \in Convs : added[d] = IF d = c THEN 2 ELSE 0
    BY DEF Only
  <2> HIDE DEF added
  <2>2. AppendTo(added)
    BY <1>1 DEF Create, added
  <2>3. /\ conv' \in [Convs -> {"absent", "live", "merged", "deleted"}]
        /\ UNCHANGED <<deliveryVars, todo, job, wire, feed, crashes>>
    BY <1>1 DEF Create, TypeOK
  <2>4. ASSUME NEW d \in Convs
        PROVE  /\ conv[d] = "deleted" <=> conv'[d] = "deleted"
               /\ conv[d] = "deleted" => added[d] = 0
               /\ conv'[d] = "absent" => conv[d] = "absent" /\ added[d] = 0
               /\ conv'[d] = "live" => sequence[d] + added[d] <= MaxEvents
               /\ sequence[d] + added[d] <= MaxEvents + 1
    BY <1>1, <2>1 DEF Create, TypeOK, RowsInv
  <2> QED
    BY <2>1, <2>2, <2>3, <2>4 DEF Appends
<1>2. ASSUME NEW c \in Convs, NEW n \in 1 .. 2, Record(c, n)
      PROVE  Appends
  <2> DEFINE added == Only(c, n)
  <2>1. added \in [Convs -> Nat] /\ \A d \in Convs : added[d] = IF d = c THEN n ELSE 0
    BY DEF Only
  <2> HIDE DEF added
  <2>2. AppendTo(added)
    BY <1>2 DEF Record, added
  <2>3. /\ conv' \in [Convs -> {"absent", "live", "merged", "deleted"}]
        /\ UNCHANGED <<deliveryVars, todo, job, wire, feed, crashes>>
    BY <1>2 DEF Record, TypeOK
  <2>4. ASSUME NEW d \in Convs
        PROVE  /\ conv[d] = "deleted" <=> conv'[d] = "deleted"
               /\ conv[d] = "deleted" => added[d] = 0
               /\ conv'[d] = "absent" => conv[d] = "absent" /\ added[d] = 0
               /\ conv'[d] = "live" => sequence[d] + added[d] <= MaxEvents
               /\ sequence[d] + added[d] <= MaxEvents + 1
    BY <1>2, <2>1 DEF Record, TypeOK, RowsInv
  <2> QED
    BY <2>1, <2>2, <2>3, <2>4 DEF Appends
<1>3. ASSUME NEW gone \in SUBSET Convs, NEW to \in Convs, NEW n \in 0 .. 2,
             Merge(gone, to, n)
      PROVE  Appends
  <2> DEFINE added == [c \in Convs |-> CASE c \in gone -> 1
                                         [] c = to -> 1 + n
                                         [] OTHER -> 0]
  <2>1. to \notin gone /\ \A c \in gone \union {to} : conv[c] = "live"
    BY <1>3 DEF Merge
  <2>2. /\ added \in [Convs -> Nat]
        /\ \A c \in gone : added[c] = 1
        /\ added[to] = 1 + n
        /\ \A c \in Convs : c \notin gone /\ c # to => added[c] = 0
    BY <2>1
  <2> HIDE DEF added
  <2>3. AppendTo(added)
    BY <1>3 DEF Merge, added
  <2>4. /\ conv' = [c \in Convs |-> IF c \in gone THEN "merged" ELSE conv[c]]
        /\ sequence[to] + 1 + n <= MaxEvents
        /\ UNCHANGED <<deliveryVars, todo, job, wire, feed, crashes>>
    BY <1>3 DEF Merge
  <2>5. conv' \in [Convs -> {"absent", "live", "merged", "deleted"}]
    BY <2>4 DEF TypeOK
  <2>6. ASSUME NEW c \in Convs
        PROVE  /\ conv[c] = "deleted" <=> conv'[c] = "deleted"
               /\ conv[c] = "deleted" => added[c] = 0
               /\ conv'[c] = "absent" => conv[c] = "absent" /\ added[c] = 0
               /\ conv'[c] = "live" => sequence[c] + added[c] <= MaxEvents
               /\ sequence[c] + added[c] <= MaxEvents + 1
    BY <2>1, <2>2, <2>4 DEF TypeOK, RowsInv
  <2> QED
    BY <2>2, <2>3, <2>4, <2>5, <2>6 DEF Appends
<1> QED
  BY <1>1, <1>2, <1>3 DEF Service

-----------------------------------------------------------------------------
(* Types.                                                                  *)

LEMMA DeleteType ==
    ASSUME TypeOK, RowsInv, NEW c \in Convs, Delete(c)
    PROVE  TypeOK'
<1>1. sequence[c] + 1 \in 1 .. MaxEvents + 1
  BY EventBounds DEF TypeOK, RowsInv, Delete
<1>2. <<c, sequence[c] + 1>> \in Events
  BY <1>1, EventFacts
<1>3. sequence' \in [Convs -> 0 .. MaxEvents + 1]
  BY <1>1 DEF TypeOK, Delete
<1>4. /\ rows' \subseteq Events
      /\ published' \subseteq rows' /\ lapsed' \subseteq rows' /\ delayed' \subseteq rows'
  BY <1>2 DEF TypeOK, Delete
<1>5. holder' \in [Events -> SUBSET Workers]
  BY DEF TypeOK, Delete
<1> QED
  BY <1>3, <1>4, <1>5 DEF TypeOK, Delete

LEMMA AppendType ==
    ASSUME TypeOK, Appends
    PROVE  TypeOK'
<1>1. PICK added \in [Convs -> Nat] :
         /\ AppendTo(added)
         /\ conv' \in [Convs -> {"absent", "live", "merged", "deleted"}]
         /\ \A c \in Convs : sequence[c] + added[c] <= MaxEvents + 1
         /\ UNCHANGED <<deliveryVars, todo, job, wire, feed, crashes>>
  BY DEF Appends
<1>2. sequence' \in [Convs -> 0 .. MaxEvents + 1]
  BY <1>1, EventBounds DEF AppendTo, TypeOK
<1>3. rows' \subseteq Events /\ rows \subseteq rows'
  BY <1>1 DEF AppendTo, TypeOK
<1> QED
  BY <1>1, <1>2, <1>3 DEF TypeOK, deliveryVars

LEMMA DrainType ==
    ASSUME TypeOK, HandInv, NEW w \in Workers, Drain(w) \/ Crash(w)
    PROVE  TypeOK'
<1> USE EventBounds
<1>0. Resting \in Jobs
  BY DEF Jobs
<1>1. CASE Claim(w)
  <2>1. PICK S \in SUBSET Claimable :
           /\ todo' = [todo EXCEPT ![w] = S]
           /\ holder' = [e \in Events |-> IF e \in S THEN {w} ELSE holder[e]]
           /\ lapsed' = lapsed \ S
    BY <1>1 DEF Claim
  <2>2. S \subseteq Events
    BY DEF Claimable, Unpublished, TypeOK
  <2> QED
    BY <1>1, <2>1, <2>2 DEF TypeOK, Claim, convVars
<1>2. ASSUME NEW e \in Events, Publish(w, e)
      PROVE  TypeOK'
  <2>1. [stage |-> "publishing", event |-> e] \in Jobs
    BY DEF Jobs
  <2> QED
    BY <1>2, <2>1 DEF TypeOK, Publish, convVars, deliveryVars
<1>3. CASE PublishFails(w)
  BY <1>3, JobFacts DEF PublishFails, TypeOK, convVars, deliveryVars
<1>4. CASE Acknowledge(w)
  <2>1. job[w].event \in Events
    BY <1>4, JobFacts DEF Acknowledge
  <2>2. holder[job[w].event] = {w} => job[w].event \in rows
    BY <2>1 DEF HandInv
  <2> QED
    BY <1>0, <1>4, <2>1, <2>2 DEF TypeOK, Acknowledge, Release, Owns, convVars
<1>5. CASE AcknowledgeFails(w)
  BY <1>5, JobFacts DEF AcknowledgeFails, TypeOK, convVars, deliveryVars
<1>6. CASE Retry(w)
  <2>1. job[w].event \in Events
    BY <1>6, JobFacts DEF Retry
  <2>2. holder[job[w].event] = {w} => job[w].event \in rows
    BY <2>1 DEF HandInv
  <2> QED
    BY <1>0, <1>6, <2>1, <2>2 DEF TypeOK, Retry, Release, Owns, convVars
<1>7. CASE Crash(w)
  <2>1. crashes' \in 0 .. MaxCrashes
    BY <1>7 DEF Crash, TypeOK
  <2> QED
    BY <1>0, <1>7, <2>1 DEF TypeOK, Crash, convVars, deliveryVars
<1> QED
  BY <1>1, <1>2, <1>3, <1>4, <1>5, <1>6, <1>7 DEF Drain

LEMMA StoredType ==
    ASSUME TypeOK, NEW w \in Workers, NEW e \in Events, Stored(w, e)
    PROVE  /\ wire' \subseteq Workers \X Events
           /\ feed' \in [Convs -> Seq(1 .. MaxEvents + 1)]
<1>1. e[1] \in Convs /\ e[2] \in 1 .. MaxEvents + 1
  BY EventFacts
<1>2. Append(feed[e[1]], e[2]) \in Seq(1 .. MaxEvents + 1)
  BY <1>1 DEF TypeOK
<1> QED
  BY <1>1, <1>2 DEF TypeOK, Stored

LEMMA BrokerType ==
    ASSUME TypeOK, NEW w \in Workers, NEW e \in Events, Broker(w, e)
    PROVE  TypeOK'
<1>1. CASE BrokerAnswers(w, e)
  BY <1>1, StoredType, JobFacts DEF BrokerAnswers, Waiting, TypeOK, convVars, deliveryVars
<1>2. CASE BrokerStoresSilently(w, e)
  BY <1>2, StoredType DEF BrokerStoresSilently, TypeOK, convVars, deliveryVars
<1>3. CASE RequestLost(w, e)
  BY <1>3 DEF RequestLost, TypeOK, convVars, deliveryVars
<1> QED
  BY <1>1, <1>2, <1>3 DEF Broker

LEMMA ClockType ==
    ASSUME TypeOK, NEW e \in Events, LeaseLapses(e) \/ RetryComesDue(e)
    PROVE  TypeOK'
BY DEF TypeOK, LeaseLapses, RetryComesDue, Unpublished, convVars

-----------------------------------------------------------------------------
(* Steps that append.                                                      *)

LEMMA AppendStep ==
    ASSUME IInv, Appends
    PROVE  IInv'
<1> USE EventBounds
<1>1. PICK added \in [Convs -> Nat] :
         /\ AppendTo(added)
         /\ conv' \in [Convs -> {"absent", "live", "merged", "deleted"}]
         /\ \A c \in Convs :
               /\ conv[c] = "deleted" <=> conv'[c] = "deleted"
               /\ conv[c] = "deleted" => added[c] = 0
               /\ conv'[c] = "absent" => conv[c] = "absent" /\ added[c] = 0
               /\ conv'[c] = "live" => sequence[c] + added[c] <= MaxEvents
               /\ sequence[c] + added[c] <= MaxEvents + 1
         /\ UNCHANGED <<deliveryVars, todo, job, wire, feed, crashes>>
  BY DEF Appends
<1>2. \A c \in Convs : /\ sequence[c] \in Nat /\ added[c] \in Nat
                       /\ sequence'[c] = sequence[c] + added[c]
  BY <1>1 DEF IInv, TypeOK, AppendTo
<1>3. ASSUME NEW c \in Convs, NEW n \in 1 .. MaxEvents + 1
      PROVE  <<c, n>> \in rows' <=> \/ <<c, n>> \in rows
                                    \/ sequence[c] < n /\ n <= sequence[c] + added[c]
  BY <1>1, EventFacts DEF AppendTo
<1>4. RowsInv'
  <2>1. ASSUME NEW c \in Convs
        PROVE  /\ conv'[c] = "absent" => sequence'[c] = 0
               /\ conv'[c] = "live" => sequence'[c] <= MaxEvents
    BY <1>1, <1>2 DEF IInv, RowsInv
  <2>2. ASSUME NEW c \in Convs, NEW n \in 1 .. MaxEvents + 1
        PROVE  <<c, n>> \in rows'
                  <=> n <= sequence'[c] /\ (conv'[c] = "deleted" => n = sequence'[c])
    BY <1>1, <1>2, <1>3 DEF IInv, RowsInv
  <2> QED
    BY <2>1, <2>2 DEF RowsInv
<1>5. \A c \in Convs : \A n \in Nat : IsDeletion(c, n) <=> IsDeletion(c, n)'
  BY <1>1, <1>2 DEF IsDeletion
<1>6. /\ feed' = feed /\ job' = job /\ todo' = todo /\ wire' = wire
      /\ published' = published /\ holder' = holder
  BY <1>1 DEF deliveryVars
<1>7. \A c \in Convs : \A k \in DOMAIN feed[c] : feed[c][k] \in 1 .. MaxEvents + 1
  BY DEF IInv, TypeOK
<1>8. FeedInv'
  <2>1. ASSUME NEW c \in Convs, NEW k \in DOMAIN feed[c]
        PROVE  feed[c][k] <= sequence'[c]
    BY <1>2, <1>7 DEF IInv, FeedInv
  <2> QED
    BY <1>6, <2>1 DEF IInv, FeedInv, InFeed
<1>9. HandInv'
  <2>1. ASSUME NEW c \in Convs, NEW n \in 1 .. MaxEvents + 1, Handled(c, n)
        PROVE  /\ n <= sequence'[c]
               /\ ~IsDeletion(c, n)' => \A j \in 1 .. n - 1 : InFeed(c, j)
    BY <1>2, <1>5, <2>1 DEF IInv, HandInv
  <2>2. rows \subseteq rows'
    BY <1>1 DEF AppendTo
  <2> QED
    BY <1>6, <2>1, <2>2 DEF IInv, HandInv, Handled, InFeed
<1>10. FeedInOrder'
  BY <1>5, <1>6, <1>7 DEF IInv, FeedInOrder
<1>11. StragglerInv'
  <2>1. ASSUME NEW c \in Convs, NEW k \in DOMAIN feed[c], IsDeletion(c, feed[c][k])'
        PROVE  IsDeletion(c, feed[c][k])
    <3>1. feed[c][k] \in Nat
      BY <1>7
    <3> QED
      BY <1>1, <1>2, <1>6, <2>1, <3>1 DEF IsDeletion
  <2> QED
    BY <1>6, <2>1 DEF IInv, StragglerInv, Handled, InFeed
<1> QED
  BY <1>4, <1>8, <1>9, <1>10, <1>11, AppendType DEF IInv

LEMMA DeleteStep ==
    ASSUME IInv, NEW c \in Convs, Delete(c)
    PROVE  IInv'
<1> USE EventBounds
<1>1. /\ conv[c] = "live" /\ sequence[c] \in Nat /\ sequence[c] <= MaxEvents
      /\ conv'[c] = "deleted" /\ sequence'[c] = sequence[c] + 1
      /\ \A d \in Convs \ {c} : conv'[d] = conv[d] /\ sequence'[d] = sequence[d]
      /\ feed' = feed /\ todo' = todo /\ job' = job /\ wire' = wire
  BY DEF Delete, IInv, TypeOK, RowsInv
<1>2. ASSUME NEW d \in Convs, NEW n \in 1 .. MaxEvents + 1
      PROVE  <<d, n>> \in rows'
                <=> IF d = c THEN n = sequence[c] + 1 ELSE <<d, n>> \in rows
  BY DEF Delete, History
<1>3. RowsInv'
  <2>1. ASSUME NEW d \in Convs
        PROVE  /\ conv'[d] = "absent" => sequence'[d] = 0
               /\ conv'[d] = "live" => sequence'[d] <= MaxEvents
    BY <1>1 DEF IInv, RowsInv
  <2>2. ASSUME NEW d \in Convs, NEW n \in 1 .. MaxEvents + 1
        PROVE  <<d, n>> \in rows'
                  <=> n <= sequence'[d] /\ (conv'[d] = "deleted" => n = sequence'[d])
    BY <1>1, <1>2 DEF IInv, RowsInv
  <2> QED
    BY <2>1, <2>2 DEF RowsInv
<1>4. \A d \in Convs : \A k \in DOMAIN feed[d] :
         feed[d][k] \in 1 .. MaxEvents + 1 /\ feed[d][k] <= sequence[d]
  BY DEF IInv, TypeOK, FeedInv
<1>5. ASSUME NEW d \in Convs, NEW n \in Nat, n <= sequence[d]
      PROVE  IsDeletion(d, n)' => IsDeletion(d, n) /\ d # c
  BY <1>1, <1>5 DEF IsDeletion
<1>6. ASSUME NEW d \in Convs \ {c}, NEW n \in Nat
      PROVE  IsDeletion(d, n)' <=> IsDeletion(d, n)
  BY <1>1 DEF IsDeletion
<1>7. ~\E n \in Nat : IsDeletion(c, n)
  BY <1>1 DEF IsDeletion
<1>8. FeedInv'
  <2>1. ASSUME NEW d \in Convs, NEW k \in DOMAIN feed[d]
        PROVE  feed[d][k] <= sequence'[d]
    BY <1>1, <1>4
  <2>2. published' \subseteq published
    BY DEF Delete
  <2> QED
    BY <1>1, <2>1, <2>2 DEF IInv, FeedInv, InFeed
<1>9. HandInv'
  <2>1. ASSUME NEW d \in Convs, NEW n \in 1 .. MaxEvents + 1, Handled(d, n)
        PROVE  /\ n <= sequence'[d]
               /\ ~IsDeletion(d, n)' => \A j \in 1 .. n - 1 : InFeed(d, j)
    <3>1. /\ n <= sequence[d]
          /\ ~IsDeletion(d, n) => \A j \in 1 .. n - 1 : InFeed(d, j)
      BY <2>1 DEF IInv, HandInv
    <3>2. sequence[d] \in Nat
      BY DEF IInv, TypeOK
    <3> QED
      BY <1>1, <1>6, <1>7, <3>1, <3>2
  <2>2. ASSUME NEW e \in Events, holder'[e] # {}
        PROVE  e \in rows'
    <3>1. e \notin History(c) /\ holder[e] # {}
      BY <2>2 DEF Delete
    <3>2. e \in rows
      BY <3>1 DEF IInv, HandInv
    <3> QED
      BY <3>1, <3>2 DEF Delete
  <2> QED
    BY <1>1, <2>1, <2>2 DEF HandInv, Handled, InFeed
<1>10. FeedInOrder'
  <2>1. ASSUME NEW d \in Convs, NEW k \in DOMAIN feed[d], ~IsDeletion(d, feed[d][k])'
        PROVE  ~IsDeletion(d, feed[d][k])
    <3>1. feed[d][k] \in Nat
      BY <1>4
    <3>2. CASE d = c
      BY <1>7, <3>1, <3>2
    <3>3. CASE d # c
      BY <1>1, <2>1, <3>3 DEF IsDeletion
    <3> QED
      BY <3>2, <3>3
  <2> QED
    BY <1>1, <2>1 DEF IInv, FeedInOrder
<1>11. StragglerInv'
  <2>1. ASSUME NEW d \in Convs, NEW k \in DOMAIN feed[d], IsDeletion(d, feed[d][k])'
        PROVE  IsDeletion(d, feed[d][k])
    <3>1. conv'[d] = "deleted" /\ feed[d][k] = sequence'[d]
      BY <1>1, <2>1 DEF IsDeletion
    <3>2. feed[d][k] <= sequence[d]
      BY <1>4
    <3>3. d # c
      <4>1. ~(sequence'[c] <= sequence[c])
        BY <1>1
      <4> QED
        BY <3>1, <3>2, <4>1
    <3> QED
      BY <1>1, <3>1, <3>3 DEF IsDeletion
  <2>2. ASSUME NEW d \in Convs, NEW k \in DOMAIN feed[d], IsDeletion(d, feed[d][k])'
        PROVE  \/ Len(feed[d]) = k
               \/ /\ Len(feed[d]) = k + 1
                  /\ \A n \in 1 .. MaxEvents + 1 : Handled(d, n) => InFeed(d, n)
    BY <2>1, <2>2 DEF IInv, StragglerInv
  <2> QED
    BY <1>1, <2>2 DEF StragglerInv, Handled, InFeed
<1> QED
  BY <1>3, <1>8, <1>9, <1>10, <1>11, DeleteType DEF IInv

-----------------------------------------------------------------------------
(* Steps that leave the conversations and the feed alone.                  *)

\* No event comes into a worker's hands.
LEMMA KeepStep ==
    ASSUME IInv, TypeOK', UNCHANGED <<convVars, feed>>,
           \A w \in Workers : todo'[w] \subseteq todo[w],
           wire' \subseteq wire,
           \A e \in published' : InFeed(e[1], e[2]),
           \A w \in Workers :
              job'[w].stage = "stored" => InFeed(job'[w].event[1], job'[w].event[2]),
           \A e \in Events : holder'[e] # {} => e \in rows
    PROVE  IInv'
<1>1. \A c \in Convs, n \in 1 .. MaxEvents + 1 : Handled(c, n)' => Handled(c, n)
  BY DEF Handled
<1>2. \A c \in Convs, n \in Nat : InFeed(c, n)' <=> InFeed(c, n)
  BY DEF InFeed
<1>3. RowsInv'
  BY DEF IInv, RowsInv, convVars
<1>4. FeedInv'
  BY DEF IInv, FeedInv, InFeed, convVars
<1>5. HandInv'
  BY <1>1 DEF IInv, HandInv, InFeed, IsDeletion, convVars
<1>6. FeedInOrder'
  BY DEF IInv, FeedInOrder, IsDeletion, convVars
<1>7. StragglerInv'
  BY <1>1 DEF IInv, StragglerInv, InFeed, IsDeletion, convVars
<1> QED
  BY <1>3, <1>4, <1>5, <1>6, <1>7 DEF IInv

LEMMA ClaimStep ==
    ASSUME IInv, TypeOK', NEW w \in Workers, Claim(w)
    PROVE  IInv'
<1> USE EventBounds
<1>1. PICK S \in SUBSET Claimable :
         /\ todo' = [todo EXCEPT ![w] = S]
         /\ holder' = [e \in Events |-> IF e \in S THEN {w} ELSE holder[e]]
  BY DEF Claim
<1>2. UNCHANGED <<convVars, published, job, wire, feed>>
  BY DEF Claim
<1>3. ASSUME NEW c \in Convs, NEW n \in 1 .. MaxEvents + 1, <<c, n>> \in S
      PROVE  /\ n <= sequence[c]
             /\ ~IsDeletion(c, n) => \A j \in 1 .. n - 1 : InFeed(c, j)
  <2>1. /\ <<c, n>> \in rows
        /\ \A e \in rows \ published : ~(e[1] = c /\ e[2] < n)
    BY <1>3 DEF Claimable, Unpublished
  <2>2. n <= sequence[c] /\ (conv[c] = "deleted" => n = sequence[c])
    BY <2>1 DEF IInv, RowsInv
  <2>3. ASSUME ~IsDeletion(c, n), NEW j \in 1 .. n - 1
        PROVE  InFeed(c, j)
    <3>1. conv[c] # "deleted"
      BY <2>2, <2>3 DEF IsDeletion
    <3>2. j \in 1 .. MaxEvents + 1 /\ j <= sequence[c] /\ j < n
      BY <2>2 DEF IInv, TypeOK
    <3>3. <<c, j>> \in rows
      BY <3>1, <3>2 DEF IInv, RowsInv
    <3>4. <<c, j>> \in published
      BY <2>1, <3>2, <3>3
    <3> QED
      BY <3>4 DEF IInv, FeedInv
  <2> QED
    BY <2>2, <2>3
<1>4. \A c \in Convs, n \in 1 .. MaxEvents + 1 :
         Handled(c, n)' => Handled(c, n) \/ <<c, n>> \in S
  BY <1>1, <1>2 DEF Handled, IInv, TypeOK
<1>5. \A c \in Convs, n \in Nat : InFeed(c, n)' <=> InFeed(c, n)
  BY <1>2 DEF InFeed
<1>6. RowsInv' /\ FeedInv' /\ FeedInOrder'
  BY <1>2 DEF IInv, RowsInv, FeedInv, InFeed, FeedInOrder, IsDeletion, convVars
<1>7. HandInv'
  <2>1. ASSUME NEW c \in Convs, NEW n \in 1 .. MaxEvents + 1, Handled(c, n)'
        PROVE  /\ n <= sequence'[c]
               /\ ~IsDeletion(c, n)' => \A j \in 1 .. n - 1 : InFeed(c, j)'
    <3>1. /\ n <= sequence[c]
          /\ ~IsDeletion(c, n) => \A j \in 1 .. n - 1 : InFeed(c, j)
      BY <1>3, <1>4, <2>1 DEF IInv, HandInv
    <3> QED
      BY <1>2, <1>5, <3>1 DEF IsDeletion, convVars
  <2>2. ASSUME NEW e \in Events, holder'[e] # {}
        PROVE  e \in rows'
    BY <1>1, <1>2, <2>2 DEF IInv, HandInv, Claimable, Unpublished, convVars
  <2> QED
    BY <2>1, <2>2 DEF HandInv
<1>8. StragglerInv'
  <2>1. ASSUME NEW c \in Convs, NEW k \in DOMAIN feed[c], IsDeletion(c, feed[c][k])
        PROVE  \/ Len(feed[c]) = k
               \/ /\ Len(feed[c]) = k + 1
                  /\ \A n \in 1 .. MaxEvents + 1 : Handled(c, n)' => InFeed(c, n)
    <3>1. \/ Len(feed[c]) = k
          \/ /\ Len(feed[c]) = k + 1
             /\ \A n \in 1 .. MaxEvents + 1 : Handled(c, n) => InFeed(c, n)
      BY <2>1 DEF IInv, StragglerInv
    <3>2. ASSUME NEW n \in 1 .. MaxEvents + 1, <<c, n>> \in S
          PROVE  InFeed(c, n)
      <4>1. <<c, n>> \in rows
        BY <3>2 DEF Claimable, Unpublished
      <4>2. n = sequence[c] /\ feed[c][k] = sequence[c]
        BY <2>1, <4>1 DEF IInv, RowsInv, IsDeletion
      <4> QED
        BY <4>2 DEF InFeed
    <3> QED
      BY <1>4, <3>1, <3>2
  <2> QED
    BY <1>2, <2>1 DEF StragglerInv, InFeed, IsDeletion, convVars
<1> QED
  BY <1>6, <1>7, <1>8 DEF IInv

\* A worker publishes what it claimed; the event stays in its hands.
LEMMA PublishStep ==
    ASSUME IInv, TypeOK', NEW w \in Workers, NEW e \in Events, Publish(w, e)
    PROVE  IInv'
<1>1. /\ UNCHANGED <<convVars, published, holder, feed>>
      /\ e \in todo[w]
      /\ todo' = [todo EXCEPT ![w] = @ \ {e}]
      /\ wire' = wire \union {<<w, e>>}
      /\ job' = [job EXCEPT ![w] = [stage |-> "publishing", event |-> e]]
  BY DEF Publish, deliveryVars
<1>2. \A c \in Convs, n \in 1 .. MaxEvents + 1 : Handled(c, n)' => Handled(c, n)
  <2>1. ASSUME NEW c \in Convs, NEW n \in 1 .. MaxEvents + 1, NEW v \in Workers,
               <<c, n>> \in todo'[v] \/ <<v, <<c, n>>>> \in wire'
        PROVE  Handled(c, n)
    <3>1. todo'[v] \subseteq todo[v]
      BY <1>1 DEF IInv, TypeOK
    <3>2. <<v, <<c, n>>>> \in wire' => <<v, <<c, n>>>> \in wire \/ <<c, n>> = e
      BY <1>1
    <3> QED
      BY <1>1, <2>1, <3>1, <3>2 DEF Handled
  <2> QED
    BY <2>1 DEF Handled
<1>3. \A v \in Workers : job'[v].stage = "stored" => job'[v] = job[v]
  BY <1>1 DEF IInv, TypeOK
<1>4. RowsInv' /\ FeedInOrder'
  BY <1>1 DEF IInv, RowsInv, FeedInOrder, IsDeletion, convVars
<1>5. FeedInv'
  <2>1. ASSUME NEW v \in Workers, job'[v].stage = "stored"
        PROVE  InFeed(job'[v].event[1], job'[v].event[2])
    BY <1>3, <2>1 DEF IInv, FeedInv
  <2> QED
    BY <1>1, <2>1 DEF IInv, FeedInv, InFeed, convVars
<1>6. HandInv'
  BY <1>1, <1>2 DEF IInv, HandInv, InFeed, IsDeletion, convVars
<1>7. StragglerInv'
  BY <1>1, <1>2 DEF IInv, StragglerInv, InFeed, IsDeletion, convVars
<1> QED
  BY <1>4, <1>5, <1>6, <1>7 DEF IInv

LEMMA DrainStep ==
    ASSUME IInv, NEW w \in Workers, Drain(w) \/ Crash(w)
    PROVE  IInv'
<1> USE DEF deliveryVars
<1>0. TypeOK'
  BY DrainType DEF IInv
<1>1. /\ \A e \in published : InFeed(e[1], e[2])
      /\ \A v \in Workers :
            job[v].stage = "stored" => InFeed(job[v].event[1], job[v].event[2])
      /\ \A e \in Events : holder[e] # {} => e \in rows
  BY DEF IInv, FeedInv, HandInv
<1>2. CASE Claim(w)
  BY <1>0, <1>2, ClaimStep
<1>3. ASSUME NEW e \in Events, Publish(w, e)
      PROVE  IInv'
  BY <1>0, <1>3, PublishStep
<1>4. CASE PublishFails(w) \/ AcknowledgeFails(w)
  <2>1. \A v \in Workers : job'[v].stage = "stored" => job'[v] = job[v]
    <3>1. job[w].stage # "resting" /\ job' = [job EXCEPT ![w].stage = "failed"]
      BY <1>4 DEF PublishFails, AcknowledgeFails
    <3>2. job'[w].stage = "failed" /\ \A v \in Workers \ {w} : job'[v] = job[v]
      BY <3>1, JobFacts DEF IInv
    <3> QED
      BY <3>2
  <2> QED
    BY <1>0, <1>1, <1>4, <2>1, KeepStep DEF PublishFails, AcknowledgeFails
<1>5. CASE Acknowledge(w) \/ Retry(w)
  <2>1. /\ UNCHANGED <<convVars, todo, wire, feed>>
        /\ Release(w, job[w].event)
    BY <1>5 DEF Acknowledge, Retry
  <2>2. \A v \in Workers : job'[v].stage = "stored" => job'[v] = job[v]
    BY <2>1 DEF Release, Resting, IInv, TypeOK
  <2>3. \A e \in Events : holder'[e] # {} => holder[e] # {}
    BY <2>1 DEF Release, IInv, TypeOK
  <2>4. \A e \in published' : InFeed(e[1], e[2])
    BY <1>1, <1>5 DEF Acknowledge, Retry
  <2> QED
    BY <1>0, <1>1, <2>1, <2>2, <2>3, <2>4, KeepStep
<1>6. CASE Crash(w)
  <2>1. /\ UNCHANGED <<convVars, published, holder, wire, feed>>
        /\ \A v \in Workers : todo'[v] \subseteq todo[v]
        /\ \A v \in Workers : job'[v].stage = "stored" => job'[v] = job[v]
    BY <1>6 DEF Crash, Resting, IInv, TypeOK
  <2> QED
    BY <1>0, <1>1, <2>1, KeepStep
<1> QED
  BY <1>2, <1>3, <1>4, <1>5, <1>6 DEF Drain

LEMMA ClockStep ==
    ASSUME IInv, NEW e \in Events, LeaseLapses(e) \/ RetryComesDue(e)
    PROVE  IInv'
<1>1. TypeOK'
  BY ClockType DEF IInv
<1>2. UNCHANGED <<convVars, published, holder, todo, job, wire, feed>>
  BY DEF LeaseLapses, RetryComesDue
<1>3. /\ \A x \in published : InFeed(x[1], x[2])
      /\ \A v \in Workers :
            job[v].stage = "stored" => InFeed(job[v].event[1], job[v].event[2])
      /\ \A x \in Events : holder[x] # {} => x \in rows
  BY DEF IInv, FeedInv, HandInv
<1> QED
  BY <1>1, <1>2, <1>3, KeepStep

-----------------------------------------------------------------------------
(* Requests that arrive.                                                   *)

LEMMA StoredFacts ==
    ASSUME IInv, NEW w \in Workers, NEW e \in Events, Stored(w, e)
    PROVE  LET c == e[1] n == e[2]
           IN  /\ c \in Convs /\ n \in 1 .. MaxEvents + 1
               /\ Handled(c, n)
               /\ \/ InFeed(c, n) /\ feed' = feed
                  \/ ~InFeed(c, n) /\ feed' = [feed EXCEPT ![c] = Append(@, n)]
<1>1. e = <<e[1], e[2]>> /\ e[1] \in Convs /\ e[2] \in 1 .. MaxEvents + 1
  BY EventFacts
<1>2. <<w, <<e[1], e[2]>>>> \in wire
  BY <1>1 DEF Stored
<1>3. feed[e[1]] \in Seq(1 .. MaxEvents + 1)
  BY <1>1 DEF IInv, TypeOK
<1>4. Contains(feed[e[1]], e[2]) <=> InFeed(e[1], e[2])
  BY <1>3 DEF Contains, InFeed
<1> QED
  BY <1>1, <1>2, <1>4 DEF Handled, Stored

LEMMA AppendFacts ==
    ASSUME TypeOK, NEW c \in Convs, NEW n \in 1 .. MaxEvents + 1,
           feed' = [feed EXCEPT ![c] = Append(@, n)]
    PROVE  /\ \A d \in Convs \ {c} : feed'[d] = feed[d]
           /\ Len(feed[c]) \in Nat
           /\ DOMAIN feed[c] = 1 .. Len(feed[c])
           /\ Len(feed'[c]) = Len(feed[c]) + 1
           /\ DOMAIN feed'[c] = 1 .. Len(feed[c]) + 1
           /\ feed'[c][Len(feed[c]) + 1] = n
           /\ \A k \in DOMAIN feed[c] : /\ feed'[c][k] = feed[c][k]
                                        /\ feed[c][k] \in 1 .. MaxEvents + 1
<1>1. feed[c] \in Seq(1 .. MaxEvents + 1)
  BY DEF TypeOK
<1>2. feed'[c] = Append(feed[c], n) /\ \A d \in Convs \ {c} : feed'[d] = feed[d]
  BY DEF TypeOK
<1>3. Len(feed[c]) \in Nat /\ DOMAIN feed[c] = 1 .. Len(feed[c])
  BY <1>1
<1>4. /\ Len(feed'[c]) = Len(feed[c]) + 1
      /\ DOMAIN feed'[c] = 1 .. Len(feed[c]) + 1
      /\ feed'[c][Len(feed[c]) + 1] = n
  BY <1>1, <1>2, <1>3
<1>5. ASSUME NEW k \in DOMAIN feed[c]
      PROVE  feed'[c][k] = feed[c][k] /\ feed[c][k] \in 1 .. MaxEvents + 1
  <2>1. k \in 1 .. Len(feed[c])
    BY <1>3
  <2>2. feed[c][k] \in 1 .. MaxEvents + 1
    BY <2>1, EventBounds DEF TypeOK
  <2>3. Append(feed[c], n)[k] = feed[c][k]
    BY <1>1, <1>3, <2>1
  <2> QED
    BY <1>2, <2>2, <2>3
<1> QED
  BY <1>2, <1>3, <1>4, <1>5

\* A new event is the first that was missing, or the deletion.
LEMMA StoreStep ==
    ASSUME IInv, TypeOK', NEW c \in Convs, NEW n \in 1 .. MaxEvents + 1,
           Handled(c, n), ~InFeed(c, n),
           feed' = [feed EXCEPT ![c] = Append(@, n)],
           UNCHANGED <<convVars, published, holder, todo>>,
           wire' \subseteq wire,
           \A w \in Workers :
              job'[w].stage = "stored" =>
                 \/ job'[w] = job[w]
                 \/ job'[w].event = <<c, n>>
    PROVE  IInv'
<1> USE EventBounds
<1> DEFINE len == Len(feed[c])
<1>1. /\ \A d \in Convs \ {c} : feed'[d] = feed[d]
      /\ len \in Nat
      /\ DOMAIN feed[c] = 1 .. len
      /\ Len(feed'[c]) = len + 1
      /\ DOMAIN feed'[c] = 1 .. len + 1
      /\ feed'[c][len + 1] = n
      /\ \A k \in DOMAIN feed[c] : feed'[c][k] = feed[c][k]
                                   /\ feed[c][k] \in 1 .. MaxEvents + 1
  BY AppendFacts DEF IInv
<1> HIDE DEF len
<1>2. /\ n <= sequence[c]
      /\ ~IsDeletion(c, n) => \A j \in 1 .. n - 1 : InFeed(c, j)
  BY DEF IInv, HandInv
<1>3. \A d \in Convs, m \in Nat : InFeed(d, m) => InFeed(d, m)'
  <2>1. ASSUME NEW d \in Convs, NEW m \in Nat, NEW k \in DOMAIN feed[d], feed[d][k] = m
        PROVE  k \in DOMAIN feed'[d] /\ feed'[d][k] = m
    <3>1. CASE d = c
      BY <1>1, <2>1, <3>1
    <3>2. CASE d # c
      BY <1>1, <2>1, <3>2
    <3> QED
      BY <3>1, <3>2
  <2> QED
    BY <2>1 DEF InFeed
<1>4. InFeed(c, n)'
  BY <1>1 DEF InFeed
<1>5. \A d \in Convs, m \in 1 .. MaxEvents + 1 : Handled(d, m)' => Handled(d, m)
  BY DEF Handled
<1>6. RowsInv'
  BY DEF IInv, RowsInv, convVars
<1>7. FeedInv'
  <2>1. ASSUME NEW d \in Convs, NEW k \in DOMAIN feed'[d]
        PROVE  feed'[d][k] <= sequence[d]
    <3>1. CASE d # c
      BY <1>1, <3>1 DEF IInv, FeedInv
    <3>2. CASE d = c /\ k = len + 1
      BY <1>1, <1>2, <3>2
    <3>3. CASE d = c /\ k # len + 1
      <4>1. k \in DOMAIN feed[c]
        BY <1>1, <3>3
      <4> QED
        BY <1>1, <3>3, <4>1 DEF IInv, FeedInv
    <3> QED
      BY <3>1, <3>2, <3>3
  <2>2. \A e \in Events : InFeed(e[1], e[2]) =>
            \E k \in DOMAIN feed'[e[1]] : feed'[e[1]][k] = e[2]
    <3>1. \A e \in Events : e[1] \in Convs /\ e[2] \in Nat
      BY EventFacts
    <3> QED
      BY <1>3, <3>1 DEF InFeed
  <2>3. ASSUME NEW w \in Workers, job'[w].stage = "stored"
        PROVE  \E k \in DOMAIN feed'[job'[w].event[1]] :
                  feed'[job'[w].event[1]][k] = job'[w].event[2]
    <3>1. CASE job'[w] = job[w]
      <4>1. job[w].event \in Events /\ InFeed(job[w].event[1], job[w].event[2])
        BY <2>3, <3>1, JobFacts DEF IInv, FeedInv
      <4> QED
        BY <2>2, <3>1, <4>1
    <3>2. CASE job'[w].event = <<c, n>>
      BY <1>4, <3>2 DEF InFeed
    <3> QED
      BY <2>3, <3>1, <3>2
  <2>4. published \subseteq Events
    BY DEF IInv, TypeOK
  <2>5. \A e \in published : InFeed(e[1], e[2])
    BY DEF IInv, FeedInv
  <2> QED
    BY <2>1, <2>2, <2>3, <2>4, <2>5 DEF FeedInv, InFeed, convVars
<1>8. HandInv'
  <2>1. ASSUME NEW d \in Convs, NEW m \in 1 .. MaxEvents + 1, Handled(d, m)'
        PROVE  /\ m <= sequence'[d]
               /\ ~IsDeletion(d, m)' => \A j \in 1 .. m - 1 : InFeed(d, j)'
    <3>1. /\ m <= sequence[d]
          /\ ~IsDeletion(d, m) => \A j \in 1 .. m - 1 : InFeed(d, j)
      BY <1>5, <2>1 DEF IInv, HandInv
    <3> QED
      BY <1>3, <3>1 DEF IsDeletion, convVars
  <2> QED
    BY <2>1 DEF IInv, HandInv, convVars
<1>9. FeedInOrder'
  <2>1. ASSUME NEW i \in 1 .. len + 1, NEW k \in 1 .. len + 1, feed'[c][i] = feed'[c][k]
        PROVE  i = k
    <3>1. CASE i \in DOMAIN feed[c] /\ k \in DOMAIN feed[c]
      BY <1>1, <2>1, <3>1 DEF IInv, FeedInOrder
    <3>2. CASE i = len + 1 \/ k = len + 1
      <4>1. \A x \in DOMAIN feed[c] : feed'[c][x] # n
        BY <1>1 DEF InFeed
      <4> QED
        BY <1>1, <2>1, <3>2, <4>1
    <3> QED
      BY <1>1, <3>1, <3>2
  <2>2. ASSUME NEW k \in 1 .. len + 1, ~IsDeletion(c, feed'[c][k]),
               NEW m \in 1 .. feed'[c][k] - 1
        PROVE  \E i \in 1 .. k - 1 : feed'[c][i] = m
    <3>1. CASE k \in DOMAIN feed[c]
      <4>1. \E i \in 1 .. k - 1 : feed[c][i] = m
        BY <1>1, <2>2, <3>1 DEF IInv, FeedInOrder
      <4> QED
        BY <1>1, <3>1, <4>1
    <3>2. CASE k = len + 1
      <4>1. InFeed(c, m)
        BY <1>1, <1>2, <2>2, <3>2
      <4> QED
        BY <1>1, <3>2, <4>1 DEF InFeed
    <3> QED
      BY <1>1, <3>1, <3>2
  <2>3. ASSUME NEW d \in Convs \ {c}
        PROVE  /\ \A i, k \in DOMAIN feed'[d] : feed'[d][i] = feed'[d][k] => i = k
               /\ \A k \in DOMAIN feed'[d] :
                     ~IsDeletion(d, feed'[d][k]) =>
                         \A m \in 1 .. feed'[d][k] - 1 :
                             \E i \in 1 .. k - 1 : feed'[d][i] = m
    BY <1>1 DEF IInv, FeedInOrder
  <2>4. ASSUME NEW d \in Convs
        PROVE  /\ \A i, k \in DOMAIN feed'[d] : feed'[d][i] = feed'[d][k] => i = k
               /\ \A k \in DOMAIN feed'[d] :
                     ~IsDeletion(d, feed'[d][k]) =>
                         \A m \in 1 .. feed'[d][k] - 1 :
                             \E i \in 1 .. k - 1 : feed'[d][i] = m
    <3>1. CASE d = c
      <4>1. \A i, k \in DOMAIN feed'[c] : feed'[c][i] = feed'[c][k] => i = k
        BY <1>1, <2>1
      <4>2. \A k \in DOMAIN feed'[c] :
               ~IsDeletion(c, feed'[c][k]) =>
                   \A m \in 1 .. feed'[c][k] - 1 : \E i \in 1 .. k - 1 : feed'[c][i] = m
        BY <1>1, <2>2
      <4> QED
        BY <3>1, <4>1, <4>2
    <3>2. CASE d # c
      BY <2>3, <3>2
    <3> QED
      BY <3>1, <3>2
  <2>5. ASSUME NEW d \in Convs
        PROVE  (/\ \A i, k \in DOMAIN feed[d] : feed[d][i] = feed[d][k] => i = k
                /\ \A k \in DOMAIN feed[d] :
                      ~IsDeletion(d, feed[d][k]) =>
                          \A m \in 1 .. feed[d][k] - 1 :
                              \E i \in 1 .. k - 1 : feed[d][i] = m)'
    <3>1. \A x : IsDeletion(d, x)' <=> IsDeletion(d, x)
      BY DEF IsDeletion, convVars
    <3> QED
      BY <2>4, <3>1
  <2> QED
    BY <2>5, Zenon DEF FeedInOrder
<1>10. StragglerInv'
  <2>1. ASSUME NEW k \in 1 .. len + 1, IsDeletion(c, feed'[c][k])
        PROVE  \/ len + 1 = k
               \/ /\ len + 1 = k + 1
                  /\ \A m \in 1 .. MaxEvents + 1 : Handled(c, m) => InFeed(c, m)'
    <3>1. CASE k = len + 1
      BY <3>1
    <3>2. CASE k \in DOMAIN feed[c]
      <4>1. IsDeletion(c, feed[c][k])
        BY <1>1, <2>1, <3>2
      <4>2. len = k
        BY <3>2, <4>1 DEF IInv, StragglerInv, len
      <4>3. InFeed(c, sequence[c]) /\ ~IsDeletion(c, n)
        BY <3>2, <4>1 DEF IsDeletion, InFeed
      <4>4. ASSUME NEW m \in 1 .. MaxEvents + 1, Handled(c, m), ~InFeed(c, m)
            PROVE  m = n
        <5>1. ~IsDeletion(c, m)
          BY <4>3, <4>4 DEF IsDeletion
        <5>2. \A j \in 1 .. m - 1 : InFeed(c, j)
          BY <4>4, <5>1 DEF IInv, HandInv
        <5>3. ~(n < m) /\ ~(m < n)
          BY <1>2, <4>3, <4>4, <5>2
        <5> QED
          BY <5>3
      <4> QED
        BY <1>1, <1>3, <1>4, <4>2, <4>4
    <3> QED
      BY <1>1, <3>1, <3>2
  <2>2. ASSUME NEW d \in Convs \ {c}, NEW k \in DOMAIN feed'[d], IsDeletion(d, feed'[d][k])
        PROVE  \/ Len(feed'[d]) = k
               \/ /\ Len(feed'[d]) = k + 1
                  /\ \A m \in 1 .. MaxEvents + 1 : Handled(d, m) => InFeed(d, m)'
    <3>1. \/ Len(feed[d]) = k
          \/ /\ Len(feed[d]) = k + 1
             /\ \A m \in 1 .. MaxEvents + 1 : Handled(d, m) => InFeed(d, m)
      BY <1>1, <2>2 DEF IInv, StragglerInv
    <3>2. feed'[d] = feed[d] /\ \A m \in 1 .. MaxEvents + 1 : InFeed(d, m) => InFeed(d, m)'
      BY <1>1, <1>3
    <3> QED
      BY <3>1, <3>2
  <2>3. ASSUME NEW d \in Convs, NEW k \in DOMAIN feed'[d], IsDeletion(d, feed'[d][k])
        PROVE  \/ Len(feed'[d]) = k
               \/ /\ Len(feed'[d]) = k + 1
                  /\ \A m \in 1 .. MaxEvents + 1 : Handled(d, m)' => InFeed(d, m)'
    BY <1>1, <1>5, <2>1, <2>2, <2>3
  <2> QED
    BY <2>3 DEF StragglerInv, IsDeletion, convVars
<1> QED
  BY <1>6, <1>7, <1>8, <1>9, <1>10 DEF IInv

LEMMA BrokerStep ==
    ASSUME IInv, NEW w \in Workers, NEW e \in Events, Broker(w, e)
    PROVE  IInv'
<1> USE DEF deliveryVars
<1>0. TypeOK'
  BY BrokerType DEF IInv
<1>1. /\ \A x \in published : InFeed(x[1], x[2])
      /\ \A v \in Workers :
            job[v].stage = "stored" => InFeed(job[v].event[1], job[v].event[2])
      /\ \A x \in Events : holder[x] # {} => x \in rows
  BY DEF IInv, FeedInv, HandInv
<1>2. e = <<e[1], e[2]>>
  BY EventFacts
<1>3. ASSUME Stored(w, e), UNCHANGED <<convVars, published, holder, todo>>,
             \A v \in Workers : job'[v].stage = "stored" =>
                                   job'[v] = job[v] \/ job'[v].event = e
      PROVE  IInv'
  <2>1. wire' \subseteq wire
    BY <1>3 DEF Stored
  <2>2. CASE InFeed(e[1], e[2]) /\ feed' = feed
    <3>1. \A v \in Workers :
             job'[v].stage = "stored" => InFeed(job'[v].event[1], job'[v].event[2])
      BY <1>1, <1>3, <2>2
    <3> QED
      BY <1>0, <1>1, <1>3, <2>1, <2>2, <3>1, KeepStep
  <2>3. CASE ~InFeed(e[1], e[2]) /\ feed' = [feed EXCEPT ![e[1]] = Append(@, e[2])]
    <3>1. /\ e[1] \in Convs /\ e[2] \in 1 .. MaxEvents + 1
          /\ Handled(e[1], e[2])
      BY <1>3, StoredFacts
    <3>2. \A v \in Workers : job'[v].stage = "stored" =>
                                job'[v] = job[v] \/ job'[v].event = <<e[1], e[2]>>
      BY <1>2, <1>3
    <3> QED
      BY <1>0, <1>3, <2>1, <2>3, <3>1, <3>2, StoreStep
  <2> QED
    BY <1>3, <2>2, <2>3, StoredFacts
<1>4. CASE BrokerAnswers(w, e)
  <2>1. \A v \in Workers : job'[v].stage = "stored" =>
                              job'[v] = job[v] \/ job'[v].event = e
    BY <1>4, JobFacts DEF BrokerAnswers, Waiting, IInv
  <2> QED
    BY <1>3, <1>4, <2>1 DEF BrokerAnswers
<1>5. CASE BrokerStoresSilently(w, e)
  BY <1>3, <1>5 DEF BrokerStoresSilently
<1>6. CASE RequestLost(w, e)
  BY <1>0, <1>1, <1>6, KeepStep DEF RequestLost
<1> QED
  BY <1>4, <1>5, <1>6 DEF Broker

-----------------------------------------------------------------------------
(* The theorems.                                                           *)

LEMMA InitInv == Init => IInv
<1> SUFFICES ASSUME Init
             PROVE  IInv
  OBVIOUS
<1> USE EventBounds DEF Init
<1>1. TypeOK
  BY DEF TypeOK, Jobs
<1>2. RowsInv /\ FeedInOrder /\ StragglerInv
  BY DEF RowsInv, FeedInOrder, StragglerInv
<1>3. FeedInv /\ HandInv
  BY DEF FeedInv, HandInv, Handled, Resting
<1> QED
  BY <1>1, <1>2, <1>3 DEF IInv

LEMMA StepInv == IInv /\ [Next]_vars => IInv'
<1> SUFFICES ASSUME IInv, [Next]_vars
             PROVE  IInv'
  OBVIOUS
<1>1. CASE Service
  BY <1>1, ServiceFacts, AppendStep, DeleteStep DEF IInv
<1>2. ASSUME NEW w \in Workers, Drain(w) \/ Crash(w)
      PROVE  IInv'
  BY <1>2, DrainStep
<1>3. ASSUME NEW w \in Workers, NEW e \in Events, Broker(w, e)
      PROVE  IInv'
  BY <1>3, BrokerStep
<1>4. ASSUME NEW e \in Events, LeaseLapses(e) \/ RetryComesDue(e)
      PROVE  IInv'
  BY <1>4, ClockStep
<1>5. CASE UNCHANGED vars
  <2>1. TypeOK'
    BY <1>5 DEF vars, convVars, deliveryVars, IInv, TypeOK
  <2>2. /\ UNCHANGED <<convVars, feed>>
        /\ todo' = todo /\ wire' = wire /\ published' = published
        /\ job' = job /\ holder' = holder
    BY <1>5 DEF vars, deliveryVars
  <2>3. /\ \A x \in published : InFeed(x[1], x[2])
        /\ \A v \in Workers :
              job[v].stage = "stored" => InFeed(job[v].event[1], job[v].event[2])
        /\ \A x \in Events : holder[x] # {} => x \in rows
    BY DEF IInv, FeedInv, HandInv
  <2> QED
    BY <2>1, <2>2, <2>3, KeepStep
<1> QED
  BY <1>1, <1>2, <1>3, <1>4, <1>5 DEF Next

LEMMA Inductive == Spec => []IInv
BY InitInv, StepInv, PTL DEF Spec

\* The rows, deliveries, workers and feeds of the event runtime are what the
\* schema and its code say.
THEOREM TypeCorrect == Spec => []TypeOK
<1>1. IInv => TypeOK
  BY DEF IInv
<1> QED
  BY <1>1, Inductive, PTL

\* For any number of replicas, conversations, events, crashes and lapsed leases,
\* the feed of a conversation has its events in order and without gaps, the
\* deletion apart.
THEOREM EventsInOrder == Spec => []FeedInOrder
<1>1. IInv => FeedInOrder
  BY DEF IInv
<1> QED
  BY <1>1, Inductive, PTL

\* However many workers hold events of a conversation when it is deleted, one
\* event at most comes after the deletion.
THEOREM StragglersEnd == Spec => []OneStraggler
<1>1. IInv => OneStraggler
  <2>1. \A c \in Convs : Len(feed[c]) \in Nat /\ DOMAIN feed[c] = 1 .. Len(feed[c])
    BY DEF IInv, TypeOK
  <2> QED
    BY <2>1 DEF IInv, StragglerInv, OneStraggler
<1> QED
  BY <1>1, Inductive, PTL
=============================================================================
