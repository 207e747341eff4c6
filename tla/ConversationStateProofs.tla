----------------------- MODULE ConversationStateProofs -----------------------
(***************************************************************************)
(* Proofs about the states of conversations and of their emails, for any   *)
(* conversations, messages and transactions, and any number of events.     *)
(***************************************************************************)
EXTENDS ConversationState, WellFoundedInduction, NaturalsInduction, TLAPS

-----------------------------------------------------------------------------
(* The inductive invariant.                                                *)

\* What a transaction is about: an event the provider emitted, or the message it
\* accepts, which nobody else accepts or gives up meanwhile.
TxInv ==
    \A w \in Workers :
        LET t == tx[w]
        IN  \/ t = NoTx
            \/ /\ t.pc # "idle" /\ t.m \in Msgs
               /\ t.kind = "event" => t.event \in DOMAIN emitted[t.m]
               /\ t.kind = "accept" =>
                    /\ sent[t.m] = "PENDING"
                    /\ \A v \in Workers : v # w /\ tx[v].m = t.m => tx[v].kind = "event"

\* Reduced, of a log of events.
ReducedOf(log, S) ==
    LET firm == {i \in S : log[i] # "DELAYED"}
    IN  CASE firm # {} -> log[Max(firm)]
          [] S # {} /\ firm = {} -> "DELAYED"
          [] OTHER -> "UNKNOWN"

\* The events a transaction has read.
Seen(w) == stored[tx[w].m] \union IF tx[w].kind = "event" THEN {tx[w].event} ELSE {}

\* What a transaction read under the email's lock still holds of the email when
\* it writes; the conversation it read is the message's, or is gone.
ReadInv ==
    \A w \in Workers : tx[w].pc = "read" =>
        LET t == tx[w]
        IN  /\ \A v \in Workers : v # w /\ tx[v].m = t.m => tx[v].pc # "read"
            /\ t.new = ReducedOf(emitted[t.m], Seen(w))
            /\ t.old = IF t.kind = "event" THEN delivery[t.m] ELSE "UNKNOWN"
            /\ t.conv = None => t.kind = "event" /\ sent[t.m] # "ACCEPTED"
            /\ t.conv # None => sent[t.m] # "ABSENT"
            /\ t.conv # None /\ Exists(t.m) =>
                  home[t.m] = t.conv \/ state[t.conv] = "GONE"

IInv ==
    /\ StateTypeOK
    /\ TxInv
    /\ ReadInv
    /\ Converges

-----------------------------------------------------------------------------
(* Reducing delivery events.                                               *)

LEMMA Names == None \notin Convs /\ None \notin Msgs
BY StateNames

\* A set of numbers up to n has a greatest one.
LEMMA Greatest ==
    ASSUME NEW n \in Nat, NEW S \in SUBSET (1 .. n), S # {}
    PROVE  Max(S) \in S
<1> DEFINE Below == {n - x : x \in S}
<1>1. Below \subseteq Nat /\ Below # {}
  <2>1. \A x \in 1 .. n : n - x \in Nat
    OBVIOUS
  <2> QED
    BY <2>1
<1>2. PICK x \in Below : \A y \in Below : ~ (<<y, x>> \in OpToRel(<, Nat))
  <2>1. IsWellFoundedOn(OpToRel(<, Nat), Nat)
    BY NatLessThanWellFounded
  <2> HIDE DEF Below
  <2> QED
    BY <1>1, <2>1, WFMin
<1>3. \A y \in Below : y >= x
  <2> SUFFICES ASSUME NEW y \in Below
               PROVE  y >= x
    OBVIOUS
  <2>1. x \in Nat /\ y \in Nat
    BY <1>1, <1>2
  <2>2. ~ (y < x)
    BY <1>2, <2>1 DEF OpToRel
  <2> QED
    BY <2>1, <2>2
<1>4. PICK s \in S : x = n - s
  BY <1>2
<1>5. \A y \in S : s >= y
  <2> SUFFICES ASSUME NEW y \in S
               PROVE  s >= y
    OBVIOUS
  <2>1. n - y >= x
    BY <1>3
  <2> QED
    BY <1>4, <2>1
<1> QED
  BY <1>5 DEF Max

LEMMA ReducedType ==
    ASSUME NEW log \in Seq(EventTypes), NEW S \in SUBSET (DOMAIN log)
    PROVE  ReducedOf(log, S) \in EventTypes \union {"UNKNOWN"}
<1> DEFINE firm == {i \in S : log[i] # "DELAYED"}
<1>1. Len(log) \in Nat /\ firm \in SUBSET (1 .. Len(log))
  OBVIOUS
<1>2. firm # {} => Max(firm) \in firm
  <2> HIDE DEF firm
  <2> QED
    BY <1>1, Greatest
<1>3. firm # {} => log[Max(firm)] \in EventTypes
  BY <1>1, <1>2
<1> QED
  BY <1>3 DEF ReducedOf, EventTypes

\* Events that come later leave it as it is.
LEMMA ReducedStays ==
    ASSUME NEW log \in Seq(EventTypes), NEW S \in SUBSET (DOMAIN log),
           NEW type \in EventTypes
    PROVE  ReducedOf(Append(log, type), S) = ReducedOf(log, S)
<1> DEFINE firm == {i \in S : log[i] # "DELAYED"}
           more == {i \in S : Append(log, type)[i] # "DELAYED"}
<1>1. \A i \in S : Append(log, type)[i] = log[i]
  OBVIOUS
<1>2. more = firm
  BY <1>1
<1>3. Len(log) \in Nat /\ firm \in SUBSET (1 .. Len(log)) /\ firm \subseteq S
  OBVIOUS
<1>4. firm # {} => Max(firm) \in S
  <2> HIDE DEF firm
  <2> QED
    BY <1>3, Greatest
<1>5. firm # {} => Append(log, type)[Max(firm)] = log[Max(firm)]
  BY <1>1, <1>4
<1> HIDE DEF firm
<1> QED
  BY <1>2, <1>5 DEF ReducedOf, firm

-----------------------------------------------------------------------------
(* Type correctness, one action after another.                             *)

Txs == [pc : {"idle", "begun", "read"}, kind : {"event", "accept"},
        m : Msgs \union {None}, event : 0 .. MaxEvents,
        conv : Convs \union {None}, old : EventTypes \union {"UNKNOWN"},
        new : EventTypes \union {"UNKNOWN"}]

LEMMA Idle ==
    NoTx \in Txs /\ NoTx.pc = "idle" /\ NoTx.m = None /\ NoTx.kind = "event"
<1>1. 0 \in 0 .. MaxEvents
  BY StateBound
<1> QED
  BY <1>1 DEF NoTx, Txs

\* The transaction w of a message about to begin, or to have read.
BegunAs(w, m, kind, i) ==
    /\ tx' \in [Workers -> Txs]
    /\ tx'[w].pc = "begun" /\ tx'[w].m = m /\ tx'[w].kind = kind
    /\ kind = "event" => tx'[w].event = i
    /\ \A v \in Workers : v # w => tx'[v] = tx[v]

LEMMA BegunEvent ==
    ASSUME StateTypeOK, NEW w \in Workers, NEW m \in Msgs,
           NEW i \in 1 .. MaxEvents, BeginEvent(w, m, i)
    PROVE  BegunAs(w, m, "event", i)
<1> DEFINE t == [NoTx EXCEPT !.pc = "begun", !.m = m, !.event = i]
<1>1. t \in Txs /\ t.pc = "begun" /\ t.m = m /\ t.kind = "event" /\ t.event = i
  <2>1. i \in 0 .. MaxEvents
    BY StateBound
  <2> QED
    BY <2>1, Idle DEF Txs
<1>2. tx \in [Workers -> Txs]
  BY DEF StateTypeOK, Txs
<1>3. tx' = [tx EXCEPT ![w] = t]
  BY DEF BeginEvent
<1> HIDE DEF t
<1> QED
  BY <1>1, <1>2, <1>3 DEF BegunAs

LEMMA BegunAccept ==
    ASSUME StateTypeOK, NEW w \in Workers, NEW m \in Msgs, BeginAccept(w, m)
    PROVE  BegunAs(w, m, "accept", 0)
<1> DEFINE t == [NoTx EXCEPT !.pc = "begun", !.m = m, !.kind = "accept"]
<1>1. t \in Txs /\ t.pc = "begun" /\ t.m = m /\ t.kind = "accept"
  BY Idle DEF Txs
<1>2. tx \in [Workers -> Txs]
  BY DEF StateTypeOK, Txs
<1>3. tx' = [tx EXCEPT ![w] = t]
  BY DEF BeginAccept
<1> HIDE DEF t
<1> QED
  BY <1>1, <1>2, <1>3 DEF BegunAs

LEMMA SeenTyped ==
    ASSUME StateTypeOK, TxInv, NEW w \in Workers, tx[w].pc # "idle"
    PROVE  /\ tx[w].m \in Msgs /\ tx[w] \in Txs
           /\ Seen(w) \in SUBSET (DOMAIN emitted[tx[w].m])
           /\ emitted[tx[w].m] \in Seq(EventTypes)
<1>1. tx[w] # NoTx
  BY DEF NoTx
<1> QED
  BY <1>1 DEF StateTypeOK, TxInv, Seen, Txs

\* What a transaction finds under the email's lock.
LEMMA ReadAs ==
    ASSUME StateTypeOK, TxInv, NEW w \in Workers, Read(w)
    PROVE  LET t == tx[w]
               found == t.kind = "accept" \/ sent[t.m] = "ACCEPTED"
           IN  /\ tx' \in [Workers -> Txs]
               /\ t.pc = "begun" /\ LockFree(t.m)
               /\ tx'[w].pc = "read" /\ tx'[w].m = t.m /\ tx'[w].kind = t.kind
               /\ tx'[w].event = t.event
               /\ tx'[w].conv = IF found THEN home[t.m] ELSE None
               /\ tx'[w].old = IF t.kind = "event" THEN delivery[t.m] ELSE "UNKNOWN"
               /\ tx'[w].new = ReducedOf(emitted[t.m], Seen(w))
               /\ \A v \in Workers : v # w => tx'[v] = tx[v]
<1> DEFINE t == tx[w]
           found == t.kind = "accept" \/ sent[t.m] = "ACCEPTED"
           conv == IF found THEN home[t.m] ELSE None
           old == IF t.kind = "event" THEN delivery[t.m] ELSE "UNKNOWN"
           new == ReducedOf(emitted[t.m], Seen(w))
<1>1. t.pc = "begun" /\ LockFree(t.m)
  BY DEF Read
<1>2. t \in Txs /\ t.m \in Msgs
  BY <1>1, SeenTyped
<1>3. new \in EventTypes \union {"UNKNOWN"}
  <2>1. /\ emitted[t.m] \in Seq(EventTypes)
        /\ Seen(w) \in SUBSET (DOMAIN emitted[t.m])
    BY <1>1, SeenTyped
  <2> QED
    BY <2>1, ReducedType
<1>4. conv \in Convs \union {None} /\ old \in EventTypes \union {"UNKNOWN"}
  BY <1>2 DEF StateTypeOK
<1>a. Reduced(t.m, Seen(w)) = new
  BY DEF Reduced, ReducedOf
<1>5. tx' = [tx EXCEPT ![w] = [@ EXCEPT !.pc = "read", !.conv = conv,
                                        !.old = old, !.new = new]]
  <2>1. t.kind \in {"event", "accept"}
    BY <1>2 DEF Txs
  <2>2. tx' = [tx EXCEPT ![w] =
           [@ EXCEPT !.pc = "read",
                     !.conv = IF ~(t.kind = "event") \/ sent[t.m] = "ACCEPTED"
                                THEN home[t.m] ELSE None,
                     !.old = old, !.new = Reduced(t.m, Seen(w))]]
    BY DEF Read, Seen
  <2>3. (~(t.kind = "event") \/ sent[t.m] = "ACCEPTED") <=> found
    BY <2>1
  <2> HIDE DEF found
  <2> QED
    BY <1>a, <2>2, <2>3
<1>6. tx \in [Workers -> Txs]
  BY DEF StateTypeOK, Txs
<1> HIDE DEF conv, old, new
<1> DEFINE u == [t EXCEPT !.pc = "read", !.conv = conv, !.old = old, !.new = new]
<1>7. /\ u \in Txs /\ u.pc = "read" /\ u.m = t.m /\ u.kind = t.kind
      /\ u.event = t.event /\ u.conv = conv /\ u.old = old /\ u.new = new
  BY <1>2, <1>3, <1>4 DEF Txs
<1>8. tx' = [tx EXCEPT ![w] = u]
  BY <1>5
<1> HIDE DEF u
<1>9. tx'[w] = u /\ tx' \in [Workers -> Txs] /\ \A v \in Workers : v # w => tx'[v] = tx[v]
  BY <1>6, <1>7, <1>8
<1> QED
  BY <1>1, <1>7, <1>9 DEF conv, old, new

LEMMA Ended ==
    ASSUME StateTypeOK, NEW w \in Workers, tx' = [tx EXCEPT ![w] = NoTx]
    PROVE  /\ tx' \in [Workers -> Txs] /\ tx'[w] = NoTx
           /\ \A v \in Workers : v # w => tx'[v] = tx[v]
BY Idle DEF StateTypeOK, Txs

LEMMA InitTypes == Init => StateTypeOK
<1> SUFFICES ASSUME Init
             PROVE  StateTypeOK
  OBVIOUS
<1>1. tx \in [Workers -> Txs]
  BY Idle DEF Init
<1>2. emitted \in [Msgs -> Seq(EventTypes)]
  BY DEF Init
<1> QED
  BY <1>1, <1>2 DEF Init, StateTypeOK, Txs, Live, Exists, States

\* The tables of conversations and messages, apart from the transactions.
TablesOK ==
    /\ state \in [Convs -> States \union {"ABSENT", "GONE"}]
    /\ topical \subseteq Live
    /\ home \in [Msgs -> Convs \union {None}]
    /\ sent \in [Msgs -> {"ABSENT", "PENDING", "ACCEPTED", "FAILED", "GONE"}]
    /\ \A m \in Msgs : Exists(m) => home[m] \in Live

LEMMA TypesSplit ==
    StateTypeOK <=>
        /\ TablesOK
        /\ delivery \in [Msgs -> EventTypes \union {"UNKNOWN"}]
        /\ emitted \in [Msgs -> Seq(EventTypes)]
        /\ stored \in [Msgs -> SUBSET (1 .. MaxEvents)]
        /\ \A m \in Msgs : stored[m] \subseteq DOMAIN emitted[m]
        /\ tx \in [Workers -> Txs]
BY DEF StateTypeOK, TablesOK, Txs

LEMMA ConvergesIs ==
    Converges <=>
        \A m \in Msgs : sent[m] = "ACCEPTED" =>
                            delivery[m] = ReducedOf(emitted[m], stored[m])
BY DEF Converges, Reduced, ReducedOf

LEMMA ConvergesNext ==
    ASSUME \A m \in Msgs : sent'[m] = "ACCEPTED" =>
                               delivery'[m] = ReducedOf(emitted'[m], stored'[m])
    PROVE  Converges'
BY DEF Converges, Reduced, ReducedOf

-----------------------------------------------------------------------------
(* What is done around the transactions: conversations and messages come,  *)
(* go and are moved, and the delivery states stay.                         *)

Around ==
    /\ UNCHANGED <<delivery, emitted, stored, tx>>
    /\ \A m \in Msgs :
          /\ \/ sent'[m] = sent[m] \/ sent'[m] = "GONE"
             \/ sent[m] = "ABSENT" /\ sent'[m] = "PENDING"
             \/ sent[m] = "PENDING" /\ sent'[m] = "FAILED"
          /\ \A w \in Workers :
                tx[w].pc # "idle" /\ tx[w].kind = "accept" /\ tx[w].m = m
                    => (sent[m] = "PENDING" => sent'[m] = "PENDING")
          /\ sent[m] # "ABSENT" => home'[m] = home[m] \/ state'[home[m]] = "GONE"
    /\ \A c \in Convs : state[c] = "GONE" => state'[c] = "GONE"

LEMMA OpenAround ==
    ASSUME StateTypeOK, NEW c \in Convs, NEW m \in Msgs,
           Open(c, m) \/ Reply(c, m) \/ Reopen(c, m)
    PROVE  TablesOK' /\ Around
<1>1. /\ sent[m] = "ABSENT" /\ state[c] # "GONE"
      /\ sent' = [sent EXCEPT ![m] = "PENDING"] /\ home' = [home EXCEPT ![m] = c]
      /\ UNCHANGED <<delivery, emitted, stored, tx>>
      /\ topical' = topical \/ topical' = topical \union {c}
  BY DEF Open, Reply, Reopen, NewMessage, StateTypeOK, Live, States
<1>2. PICK s \in States : state' = [state EXCEPT ![c] = s]
  BY DEF Open, Reply, Reopen, StateTypeOK, Live, Automatic, States
<1>3. TablesOK
  BY TypesSplit
<1>4. TablesOK'
  BY <1>1, <1>2, <1>3 DEF TablesOK, Live, Exists
<1> QED
  BY <1>1, <1>2, <1>3, <1>4 DEF TablesOK, Around

LEMMA AssignAround ==
    ASSUME StateTypeOK, NEW c \in Convs,
           \/ Assign(c) \/ ReceiveNew(c) \/ \E s \in States : Override(c, s)
    PROVE  TablesOK' /\ Around
<1>1. TablesOK
  BY TypesSplit
<1>2. /\ UNCHANGED <<messageVars, emitted, stored, tx>>
      /\ topical' \subseteq topical \union Live
  BY <1>1 DEF Assign, ReceiveNew, Override, TablesOK
<1>3. \/ state' = state
      \/ state[c] # "GONE" /\ \E s \in States : state' = [state EXCEPT ![c] = s]
  BY <1>1 DEF Assign, ReceiveNew, Override, TablesOK, Live, States
<1>4. /\ Live \subseteq Live' /\ state' \in [Convs -> States \union {"ABSENT", "GONE"}]
      /\ \A d \in Convs : state[d] = "GONE" => state'[d] = "GONE"
  BY <1>1, <1>3 DEF TablesOK, Live
<1>5. TablesOK'
  BY <1>1, <1>2, <1>4 DEF TablesOK, Exists, messageVars
<1> QED
  BY <1>1, <1>2, <1>4, <1>5 DEF TablesOK, Around, messageVars

LEMMA MergedIsState == \A S : Merged(S) \in States
BY DEF Merged, States

LEMMA MergeAround ==
    ASSUME StateTypeOK, NEW c \in Convs, NEW S \in SUBSET (Convs \ {c}),
           NEW next \in States, MergeInto(c, S, next)
    PROVE  TablesOK' /\ Around
<1>1. TablesOK
  BY TypesSplit
<1>2. /\ c \in Live \ S /\ S \subseteq Live \ topical
      /\ home' = [m \in Msgs |-> IF Exists(m) /\ home[m] \in S THEN c ELSE home[m]]
      /\ state' = [d \in Convs |->
           IF d = c THEN next ELSE IF d \in S THEN "GONE" ELSE state[d]]
      /\ UNCHANGED <<topical, sent, delivery, emitted, stored, tx>>
  BY DEF MergeInto
<1>3. Live' = Live \ S
  BY <1>1, <1>2 DEF TablesOK, Live, States
<1>4. /\ state' \in [Convs -> States \union {"ABSENT", "GONE"}]
      /\ \A d \in Convs : state[d] = "GONE" => state'[d] = "GONE"
      /\ \A d \in S : state'[d] = "GONE"
  BY <1>1, <1>2 DEF TablesOK, Live, States
<1>5. TablesOK'
  BY <1>1, <1>2, <1>3, <1>4 DEF TablesOK, Exists
<1> QED
  BY <1>1, <1>2, <1>4, <1>5 DEF TablesOK, Around

LEMMA DeleteAround ==
    ASSUME StateTypeOK, NEW c \in Convs, Delete(c)
    PROVE  TablesOK' /\ Around
<1>1. TablesOK
  BY TypesSplit
<1>2. /\ c \in Live /\ UNCHANGED <<home, delivery, emitted, stored, tx>>
      /\ state' = [state EXCEPT ![c] = "GONE"] /\ topical' = topical \ {c}
      /\ sent' = [m \in Msgs |-> IF m \in Members(c) THEN "GONE" ELSE sent[m]]
  BY DEF Delete
<1>3. Live' = Live \ {c}
  BY <1>1, <1>2 DEF TablesOK, Live, States
<1>4. TablesOK'
  BY <1>1, <1>2, <1>3 DEF TablesOK, Exists, Members
<1>5. \A w \in Workers, m \in Msgs :
          tx[w].pc # "idle" /\ tx[w].kind = "accept" /\ tx[w].m = m => m \notin Members(c)
  BY DEF Delete, Unlocked
<1> QED
  BY <1>1, <1>2, <1>4, <1>5 DEF TablesOK, Around

LEMMA FailAround ==
    ASSUME StateTypeOK, NEW m \in Msgs, Fail(m)
    PROVE  TablesOK' /\ Around
<1>1. TablesOK
  BY TypesSplit
<1>2. /\ sent[m] = "PENDING" /\ sent' = [sent EXCEPT ![m] = "FAILED"]
      /\ UNCHANGED <<state, topical, home, delivery, emitted, stored, tx>>
      /\ \A w \in Workers : tx[w].m = m => tx[w].kind = "event"
  BY DEF Fail, convVars
<1>3. TablesOK'
  BY <1>1, <1>2 DEF TablesOK, Exists, Live
<1> QED
  BY <1>1, <1>2, <1>3 DEF TablesOK, Around

\* Every step is one of these.
LEMMA Steps ==
    ASSUME StateTypeOK, Next
    PROVE  \/ TablesOK' /\ Around
           \/ \E m \in Msgs, type \in EventTypes : Emit(m, type)
           \/ \E w \in Workers :
                 \/ \E m \in Msgs : BeginAccept(w, m)
                 \/ \E m \in Msgs, i \in 1 .. MaxEvents : BeginEvent(w, m, i)
                 \/ Read(w) \/ Commit(w) \/ Rollback(w)
<1>1. ASSUME NEW c \in Convs, NEW m \in Msgs, Open(c, m) \/ Reply(c, m) \/ Reopen(c, m)
      PROVE  TablesOK' /\ Around
  BY <1>1, OpenAround
<1>2. ASSUME NEW c \in Convs,
             Assign(c) \/ ReceiveNew(c) \/ \E s \in States : Override(c, s)
      PROVE  TablesOK' /\ Around
  BY <1>2, AssignAround
<1>3. ASSUME NEW c \in Convs, Delete(c)
      PROVE  TablesOK' /\ Around
  BY <1>3, DeleteAround
<1>4. ASSUME NEW c \in Convs, NEW S \in SUBSET (Convs \ {c}),
             Record(c, S) \/ Receive(c, S)
      PROVE  TablesOK' /\ Around
  <2>1. PICK next \in States : MergeInto(c, S, next)
    BY <1>4, MergedIsState DEF Record, Receive, MergedWith, Automatic, States
  <2> QED
    BY <2>1, MergeAround
<1>5. ASSUME NEW m \in Msgs, Fail(m)
      PROVE  TablesOK' /\ Around
  BY <1>5, FailAround
<1> QED
  BY <1>1, <1>2, <1>3, <1>4, <1>5 DEF Next

-----------------------------------------------------------------------------
(* Type correctness.                                                       *)

LEMMA StepTypes ==
    ASSUME StateTypeOK, TxInv, ReadInv, Next
    PROVE  StateTypeOK'
<1>1. CASE TablesOK' /\ Around
  BY <1>1, TypesSplit DEF Around, StateTypeOK, TablesOK, Txs
<1>2. ASSUME NEW m \in Msgs, NEW type \in EventTypes, Emit(m, type)
      PROVE  StateTypeOK'
  <2>1. /\ UNCHANGED <<state, topical, home, sent, delivery, stored, tx>>
        /\ emitted' = [emitted EXCEPT ![m] = Append(@, type)]
    BY <1>2 DEF Emit, convVars, messageVars
  <2>2. emitted' \in [Msgs -> Seq(EventTypes)]
    BY <2>1 DEF StateTypeOK
  <2>3. \A n \in Msgs : DOMAIN emitted[n] \subseteq DOMAIN emitted'[n]
    BY <2>1 DEF StateTypeOK
  <2> QED
    BY <2>1, <2>2, <2>3 DEF StateTypeOK, Live, Exists
<1>3. ASSUME NEW w \in Workers,
             \/ \E m \in Msgs : BeginAccept(w, m)
             \/ \E m \in Msgs, i \in 1 .. MaxEvents : BeginEvent(w, m, i)
             \/ Read(w) \/ Rollback(w)
      PROVE  StateTypeOK'
  <2>1. UNCHANGED <<state, topical, home, sent, delivery, emitted, stored>>
    BY <1>3 DEF BeginAccept, BeginEvent, Read, Rollback, convVars, messageVars
  <2>2. CASE \E m \in Msgs : BeginAccept(w, m)
    BY <2>1, <2>2, BegunAccept DEF BegunAs, StateTypeOK, Live, Exists, Txs
  <2>3. CASE \E m \in Msgs, i \in 1 .. MaxEvents : BeginEvent(w, m, i)
    BY <2>1, <2>3, BegunEvent DEF BegunAs, StateTypeOK, Live, Exists, Txs
  <2>4. CASE Read(w)
    BY <2>1, <2>4, ReadAs DEF StateTypeOK, Live, Exists, Txs
  <2>5. CASE Rollback(w)
    BY <2>1, <2>5, Ended DEF Rollback, StateTypeOK, Live, Exists, Txs
  <2> QED
    BY <1>3, <2>2, <2>3, <2>4, <2>5
<1>4. ASSUME NEW w \in Workers, Commit(w)
      PROVE  StateTypeOK'
  <2> DEFINE t == tx[w]
  <2>1. t.pc = "read" /\ t \in Txs /\ t.m \in Msgs
    BY <1>4, SeenTyped DEF Commit
  <2>2. tx' \in [Workers -> Txs]
    BY <1>4, Ended DEF Commit
  <2>3. topical' = topical /\ home' = home /\ emitted' = emitted
    BY <1>4 DEF Commit
  <2>4. /\ delivery' \in [Msgs -> EventTypes \union {"UNKNOWN"}]
        /\ state' \in [Convs -> States \union {"ABSENT", "GONE"}]
        /\ Live' = Live
    BY <1>4, <2>1 DEF Commit, Ends, StateTypeOK, Live, States, Txs
  <2>5. /\ sent' \in [Msgs -> {"ABSENT", "PENDING", "ACCEPTED", "FAILED", "GONE"}]
        /\ \A m \in Msgs : Exists(m)' => Exists(m)
    BY <1>4, <2>1 DEF Commit, StateTypeOK, TxInv, Exists, NoTx
  <2>6. /\ stored' \in [Msgs -> SUBSET (1 .. MaxEvents)]
        /\ \A m \in Msgs : stored'[m] \subseteq DOMAIN emitted[m]
    <3>1. t.kind = "event" =>
            t.event \in DOMAIN emitted[t.m] /\ t.event \in 1 .. MaxEvents
      <4>1. DOMAIN emitted[t.m] = 1 .. Len(emitted[t.m]) /\ Len(emitted[t.m]) \in Nat
        BY <2>1 DEF StateTypeOK
      <4>2. t.event \in 0 .. MaxEvents
        BY <2>1 DEF Txs
      <4>3. t.kind = "event" => t.event \in DOMAIN emitted[t.m]
        BY <2>1 DEF TxInv, NoTx
      <4> QED
        BY <4>1, <4>2, <4>3, StateBound
    <3> QED
      BY <1>4, <2>1, <3>1 DEF Commit, StateTypeOK
  <2> QED
    BY <2>2, <2>3, <2>4, <2>5, <2>6 DEF StateTypeOK, Txs
<1> QED
  BY <1>1, <1>2, <1>3, <1>4, Steps

-----------------------------------------------------------------------------
(* The transactions.                                                       *)

LEMMA StepTx ==
    ASSUME StateTypeOK, TxInv, Next
    PROVE  TxInv'
<1>0. \A w \in Workers : tx[w] # NoTx <=> tx[w].pc # "idle"
  BY Idle DEF TxInv
<1>1. CASE TablesOK' /\ Around
  BY <1>0, <1>1 DEF Around, TxInv
<1>2. ASSUME NEW m \in Msgs, NEW type \in EventTypes, Emit(m, type)
      PROVE  TxInv'
  <2>1. /\ UNCHANGED <<sent, tx>>
        /\ emitted' = [emitted EXCEPT ![m] = Append(@, type)]
    BY <1>2 DEF Emit, convVars, messageVars
  <2>2. \A n \in Msgs : DOMAIN emitted[n] \subseteq DOMAIN emitted'[n]
    BY <2>1 DEF StateTypeOK
  <2> QED
    BY <2>1, <2>2 DEF TxInv
<1>3. ASSUME NEW w \in Workers, NEW m \in Msgs, BeginAccept(w, m)
      PROVE  TxInv'
  <2>1. BegunAs(w, m, "accept", 0) /\ UNCHANGED <<sent, emitted>>
    BY <1>3, BegunAccept DEF BeginAccept, messageVars
  <2>2. sent[m] = "PENDING" /\ \A v \in Workers : tx[v].m = m => tx[v].kind = "event"
    BY <1>3 DEF BeginAccept
  <2> SUFFICES ASSUME NEW v \in Workers, tx'[v] # NoTx
               PROVE  LET t == tx'[v]
                      IN  /\ t.pc # "idle" /\ t.m \in Msgs
                          /\ t.kind = "event" => t.event \in DOMAIN emitted[t.m]
                          /\ t.kind = "accept" =>
                               /\ sent[t.m] = "PENDING"
                               /\ \A u \in Workers : u # v /\ tx'[u].m = t.m =>
                                                        tx'[u].kind = "event"
    BY <2>1 DEF TxInv
  <2> QED
    BY <2>1, <2>2 DEF BegunAs, TxInv
<1>4. ASSUME NEW w \in Workers, NEW m \in Msgs, NEW i \in 1 .. MaxEvents,
             BeginEvent(w, m, i)
      PROVE  TxInv'
  <2>1. /\ BegunAs(w, m, "event", i) /\ UNCHANGED <<sent, emitted>>
        /\ i \in DOMAIN emitted[m]
    BY <1>4, BegunEvent DEF BeginEvent, messageVars
  <2> SUFFICES ASSUME NEW v \in Workers, tx'[v] # NoTx
               PROVE  LET t == tx'[v]
                      IN  /\ t.pc # "idle" /\ t.m \in Msgs
                          /\ t.kind = "event" => t.event \in DOMAIN emitted[t.m]
                          /\ t.kind = "accept" =>
                               /\ sent[t.m] = "PENDING"
                               /\ \A u \in Workers : u # v /\ tx'[u].m = t.m =>
                                                        tx'[u].kind = "event"
    BY <2>1 DEF TxInv
  <2> QED
    BY <2>1 DEF BegunAs, TxInv
<1>5. ASSUME NEW w \in Workers, Read(w)
      PROVE  TxInv'
  <2>1. /\ UNCHANGED <<sent, emitted>> /\ tx[w].pc = "begun" /\ tx'[w].pc = "read"
        /\ tx'[w].m = tx[w].m /\ tx'[w].kind = tx[w].kind
        /\ tx'[w].event = tx[w].event
        /\ \A v \in Workers : v # w => tx'[v] = tx[v]
    BY <1>5, ReadAs DEF Read, messageVars
  <2> QED
    BY <1>0, <2>1 DEF TxInv
<1>6. ASSUME NEW w \in Workers, Rollback(w)
      PROVE  TxInv'
  <2>1. /\ UNCHANGED <<sent, emitted>> /\ tx'[w] = NoTx
        /\ \A v \in Workers : v # w => tx'[v] = tx[v]
    BY <1>6, Ended DEF Rollback, messageVars
  <2> QED
    BY <2>1, Idle DEF TxInv
<1>7. ASSUME NEW w \in Workers, Commit(w)
      PROVE  TxInv'
  <2>1. /\ UNCHANGED emitted /\ tx'[w] = NoTx /\ tx[w] # NoTx
        /\ \A v \in Workers : v # w => tx'[v] = tx[v]
    BY <1>7, Ended, Idle DEF Commit
  <2>2. \A v \in Workers : v # w /\ tx[v] # NoTx /\ tx[v].kind = "accept"
                              => sent'[tx[v].m] = "PENDING"
    <3> SUFFICES ASSUME NEW v \in Workers, v # w, tx[v] # NoTx, tx[v].kind = "accept"
                 PROVE  sent'[tx[v].m] = "PENDING"
      OBVIOUS
    <3>1. sent[tx[v].m] = "PENDING" /\ tx[v].m \in Msgs
      BY DEF TxInv
    <3>2. tx[w].m = tx[v].m => tx[w].kind = "event"
      BY DEF TxInv
    <3> QED
      BY <1>7, <3>1, <3>2 DEF Commit, StateTypeOK
  <2> QED
    BY <2>1, <2>2, Idle DEF TxInv
<1> QED
  BY <1>1, <1>2, <1>3, <1>4, <1>5, <1>6, <1>7, Steps

\* What a transaction read stays true, of the same email, while others go on.
LEMMA StepReadAround ==
    ASSUME StateTypeOK, TxInv, ReadInv, Around
    PROVE  ReadInv'
<1>1. /\ UNCHANGED <<delivery, emitted, stored, tx>>
      /\ \A w \in Workers : Seen(w)' = Seen(w)
  BY DEF Around, Seen
<1> SUFFICES ASSUME NEW w \in Workers, tx[w].pc = "read"
             PROVE  LET t == tx[w]
                    IN  /\ t.conv = None => t.kind = "event" /\ sent'[t.m] # "ACCEPTED"
                        /\ t.conv # None => sent'[t.m] # "ABSENT"
                        /\ t.conv # None /\ Exists(t.m)' =>
                              home'[t.m] = t.conv \/ state'[t.conv] = "GONE"
  BY <1>1 DEF ReadInv
<1> DEFINE t == tx[w]
<1>2. t.m \in Msgs /\ t \in Txs
  BY SeenTyped
<1>3. t.conv # None => t.conv \in Convs
  BY <1>2 DEF Txs
<1>4. /\ t.conv = None => t.kind = "event" /\ sent[t.m] # "ACCEPTED"
      /\ t.conv # None => sent[t.m] # "ABSENT"
      /\ t.conv # None /\ Exists(t.m) => home[t.m] = t.conv \/ state[t.conv] = "GONE"
  BY DEF ReadInv
<1>5. /\ \/ sent'[t.m] = sent[t.m] \/ sent'[t.m] = "GONE"
         \/ sent[t.m] = "ABSENT" /\ sent'[t.m] = "PENDING"
         \/ sent[t.m] = "PENDING" /\ sent'[t.m] = "FAILED"
      /\ sent[t.m] # "ABSENT" => home'[t.m] = home[t.m] \/ state'[home[t.m]] = "GONE"
      /\ \A c \in Convs : state[c] = "GONE" => state'[c] = "GONE"
  BY <1>2 DEF Around
<1> QED
  BY <1>1, <1>3, <1>4, <1>5 DEF Exists

LEMMA StepRead ==
    ASSUME StateTypeOK, TxInv, ReadInv, Next
    PROVE  ReadInv'
<1>1. CASE Around
  BY <1>1, StepReadAround
<1>2. ASSUME NEW m \in Msgs, NEW type \in EventTypes, Emit(m, type)
      PROVE  ReadInv'
  <2>1. /\ UNCHANGED <<state, home, sent, delivery, stored, tx>>
        /\ emitted' = [emitted EXCEPT ![m] = Append(@, type)]
    BY <1>2 DEF Emit, convVars, messageVars
  <2>2. ASSUME NEW w \in Workers, tx[w].pc = "read"
        PROVE  ReducedOf(emitted'[tx[w].m], Seen(w)) = ReducedOf(emitted[tx[w].m], Seen(w))
    <3>1. /\ tx[w].m \in Msgs /\ Seen(w) \in SUBSET (DOMAIN emitted[tx[w].m])
          /\ emitted[tx[w].m] \in Seq(EventTypes)
      BY <2>2, SeenTyped
    <3>2. \/ emitted'[tx[w].m] = emitted[tx[w].m]
          \/ emitted'[tx[w].m] = Append(emitted[tx[w].m], type)
      BY <2>1, <3>1 DEF StateTypeOK
    <3> QED
      BY <3>1, <3>2, ReducedStays
  <2>3. \A w \in Workers : Seen(w)' = Seen(w)
    BY <2>1 DEF Seen
  <2> QED
    BY <2>1, <2>2, <2>3 DEF ReadInv, Exists
<1>3. ASSUME NEW w \in Workers,
             \/ \E m \in Msgs : BeginAccept(w, m)
             \/ \E m \in Msgs, i \in 1 .. MaxEvents : BeginEvent(w, m, i)
             \/ Rollback(w)
      PROVE  ReadInv'
  <2>1. UNCHANGED <<state, home, sent, delivery, emitted, stored>>
    BY <1>3 DEF BeginAccept, BeginEvent, Rollback, convVars, messageVars
  <2>2. tx'[w].pc # "read" /\ \A v \in Workers : v # w => tx'[v] = tx[v]
    BY <1>3, BegunAccept, BegunEvent, Ended, Idle DEF Rollback, BegunAs
  <2>3. \A v \in Workers : v # w => Seen(v)' = Seen(v)
    BY <2>1, <2>2 DEF Seen
  <2> QED
    BY <2>1, <2>2, <2>3 DEF ReadInv, Exists
<1>4. ASSUME NEW w \in Workers, Read(w)
      PROVE  ReadInv'
  <2>1. UNCHANGED <<state, home, sent, delivery, emitted, stored>>
    BY <1>4 DEF Read, convVars, messageVars
  <2> DEFINE t == tx[w]
             found == t.kind = "accept" \/ sent[t.m] = "ACCEPTED"
  <2>2. /\ t.pc = "begun" /\ LockFree(t.m)
        /\ tx'[w].pc = "read" /\ tx'[w].m = t.m /\ tx'[w].kind = t.kind
        /\ tx'[w].event = t.event
        /\ tx'[w].conv = IF found THEN home[t.m] ELSE None
        /\ tx'[w].old = IF t.kind = "event" THEN delivery[t.m] ELSE "UNKNOWN"
        /\ tx'[w].new = ReducedOf(emitted[t.m], Seen(w))
        /\ \A v \in Workers : v # w => tx'[v] = tx[v]
    BY <1>4, ReadAs
  <2>3. t.m \in Msgs /\ t.kind \in {"event", "accept"}
    BY <2>2, SeenTyped DEF Txs
  <2>4. found => sent[t.m] \in {"PENDING", "ACCEPTED"} /\ home[t.m] # None
    <3>1. found => sent[t.m] \in {"PENDING", "ACCEPTED"}
      BY <2>2, Idle DEF TxInv
    <3> QED
      BY <2>3, <3>1, Names DEF StateTypeOK, Exists, Live
  <2>5. \A v \in Workers : Seen(v)' = Seen(v)
    BY <2>1, <2>2 DEF Seen
  <2>6. \A v \in Workers : tx[v].m = t.m => tx[v].pc # "read"
    BY <2>2 DEF LockFree
  <2> SUFFICES ASSUME NEW v \in Workers, tx'[v].pc = "read"
               PROVE  LET u == tx'[v]
                      IN  /\ \A x \in Workers : x # v /\ tx'[x].m = u.m => tx'[x].pc # "read"
                          /\ u.new = ReducedOf(emitted[u.m], Seen(v))
                          /\ u.old = IF u.kind = "event" THEN delivery[u.m] ELSE "UNKNOWN"
                          /\ u.conv = None => u.kind = "event" /\ sent[u.m] # "ACCEPTED"
                          /\ u.conv # None => sent[u.m] # "ABSENT"
                          /\ u.conv # None /\ Exists(u.m) =>
                                home[u.m] = u.conv \/ state[u.conv] = "GONE"
    BY <2>1, <2>5 DEF ReadInv, Exists
  <2>7. CASE v = w
    BY <2>2, <2>3, <2>4, <2>6, <2>7
  <2>8. CASE v # w
    BY <2>2, <2>6, <2>8 DEF ReadInv
  <2> QED
    BY <2>7, <2>8
<1>5. ASSUME NEW w \in Workers, Commit(w)
      PROVE  ReadInv'
  <2>1. /\ tx[w].pc = "read" /\ tx[w].m \in Msgs /\ tx[w] \in Txs
        /\ UNCHANGED <<home, emitted>>
    BY <1>5, SeenTyped DEF Commit
  <2>2. /\ tx'[w].pc # "read" /\ \A v \in Workers : v # w => tx'[v] = tx[v]
    BY <1>5, Ended, Idle DEF Commit
  <2>3. \A m \in Msgs : m # tx[w].m =>
            sent'[m] = sent[m] /\ delivery'[m] = delivery[m] /\ stored'[m] = stored[m]
    BY <1>5 DEF Commit, StateTypeOK
  <2>4. \A c \in Convs : state[c] = "GONE" => state'[c] = "GONE"
    BY <1>5 DEF Commit, Ends, StateTypeOK, Live, States
  <2> SUFFICES ASSUME NEW v \in Workers, v # w, tx[v].pc = "read"
               PROVE  LET t == tx[v]
                      IN  /\ \A u \in Workers : u # v /\ tx'[u].m = t.m => tx'[u].pc # "read"
                          /\ t.new = ReducedOf(emitted[t.m], Seen(v)')
                          /\ t.old = IF t.kind = "event" THEN delivery'[t.m] ELSE "UNKNOWN"
                          /\ t.conv = None => t.kind = "event" /\ sent'[t.m] # "ACCEPTED"
                          /\ t.conv # None => sent'[t.m] # "ABSENT"
                          /\ t.conv # None /\ sent'[t.m] \notin {"ABSENT", "GONE"} =>
                                home[t.m] = t.conv \/ state'[t.conv] = "GONE"
    BY <2>1, <2>2 DEF ReadInv, Exists
  <2> DEFINE m == tx[v].m
  <2>5. m \in Msgs /\ m # tx[w].m /\ tx[v] \in Txs
    BY <2>1, SeenTyped DEF ReadInv
  <2>6. sent'[m] = sent[m] /\ delivery'[m] = delivery[m] /\ stored'[m] = stored[m]
    BY <2>3, <2>5
  <2>7. Seen(v)' = Seen(v)
    BY <2>2, <2>6 DEF Seen
  <2>8. tx[v].conv # None => tx[v].conv \in Convs
    BY <2>5 DEF Txs
  <2>9. \A u \in Workers : u # v /\ tx'[u].m = m => tx'[u].pc # "read"
    BY <2>2 DEF ReadInv
  <2> QED
    BY <2>4, <2>6, <2>7, <2>8, <2>9 DEF ReadInv, Exists
<1> QED
  BY <1>1, <1>2, <1>3, <1>4, <1>5, Steps

-----------------------------------------------------------------------------
(* Converges, and what a commit records.                                   *)

\* What a commit leaves of its own email, and of the others.
LEMMA Committed ==
    ASSUME StateTypeOK, TxInv, ReadInv, NEW w \in Workers, Commit(w)
    PROVE  LET t == tx[w]
           IN  /\ t.m \in Msgs
               /\ stored'[t.m] = Seen(w)
               /\ sent'[t.m] = "ACCEPTED" =>
                     sent[t.m] \in {"PENDING", "ACCEPTED"} /\ delivery'[t.m] = t.new
               /\ \A n \in Msgs : n # t.m =>
                     /\ sent'[n] = sent[n] /\ delivery'[n] = delivery[n]
                     /\ stored'[n] = stored[n]
<1> DEFINE t == tx[w]
<1>1. t.pc = "read" /\ t.m \in Msgs /\ t.kind \in {"event", "accept"}
  BY SeenTyped DEF Commit, Txs
<1>2. \A n \in Msgs : n # t.m =>
          sent'[n] = sent[n] /\ delivery'[n] = delivery[n] /\ stored'[n] = stored[n]
  BY DEF Commit, StateTypeOK
<1>3. stored'[t.m] = Seen(w)
  BY <1>1 DEF Commit, StateTypeOK, Seen
<1>4. ASSUME sent'[t.m] = "ACCEPTED"
      PROVE  sent[t.m] \in {"PENDING", "ACCEPTED"} /\ delivery'[t.m] = t.new
  <2>1. sent[t.m] \in {"PENDING", "ACCEPTED"}
    BY <1>1, <1>4, Idle DEF Commit, TxInv, StateTypeOK
  <2>2. t.conv # None
    BY <1>1, <1>4, <2>1 DEF ReadInv, Commit
  <2> QED
    BY <1>1, <2>1, <2>2 DEF Commit, Exists, StateTypeOK
<1> QED
  BY <1>1, <1>2, <1>3, <1>4

LEMMA StepConverges ==
    ASSUME IInv, Next
    PROVE  Converges'
<1> USE DEF IInv
<1>1. \A m \in Msgs : sent[m] = "ACCEPTED" => delivery[m] = ReducedOf(emitted[m], stored[m])
  BY ConvergesIs
<1> SUFFICES ASSUME NEW m \in Msgs, sent'[m] = "ACCEPTED"
             PROVE  delivery'[m] = ReducedOf(emitted'[m], stored'[m])
  BY ConvergesNext
<1>2. CASE Around
  BY <1>1, <1>2 DEF Around
<1>3. ASSUME NEW n \in Msgs, NEW type \in EventTypes, Emit(n, type)
      PROVE  delivery'[m] = ReducedOf(emitted'[m], stored'[m])
  <2>1. /\ UNCHANGED <<sent, delivery, stored>>
        /\ emitted' = [emitted EXCEPT ![n] = Append(@, type)]
    BY <1>3 DEF Emit, messageVars
  <2>2. emitted[m] \in Seq(EventTypes) /\ stored[m] \in SUBSET (DOMAIN emitted[m])
    BY DEF StateTypeOK
  <2>3. emitted'[m] = emitted[m] \/ emitted'[m] = Append(emitted[m], type)
    BY <2>1 DEF StateTypeOK
  <2>4. ReducedOf(emitted'[m], stored[m]) = ReducedOf(emitted[m], stored[m])
    BY <2>2, <2>3, ReducedStays
  <2> QED
    BY <1>1, <2>1, <2>4
<1>4. ASSUME NEW w \in Workers,
             \/ \E n \in Msgs : BeginAccept(w, n)
             \/ \E n \in Msgs, i \in 1 .. MaxEvents : BeginEvent(w, n, i)
             \/ Read(w) \/ Rollback(w)
      PROVE  delivery'[m] = ReducedOf(emitted'[m], stored'[m])
  <2>1. UNCHANGED <<sent, delivery, emitted, stored>>
    BY <1>4 DEF BeginAccept, BeginEvent, Read, Rollback, messageVars
  <2> QED
    BY <1>1, <2>1
<1>5. ASSUME NEW w \in Workers, Commit(w)
      PROVE  delivery'[m] = ReducedOf(emitted'[m], stored'[m])
  <2>1. UNCHANGED emitted /\ tx[w].pc = "read"
    BY <1>5 DEF Commit
  <2>2. tx[w].new = ReducedOf(emitted[tx[w].m], Seen(w))
    BY <2>1 DEF ReadInv
  <2>3. CASE m = tx[w].m
    BY <1>5, <2>1, <2>2, <2>3, Committed
  <2>4. CASE m # tx[w].m
    BY <1>1, <1>5, <2>1, <2>4, Committed
  <2> QED
    BY <2>3, <2>4
<1> QED
  BY <1>2, <1>3, <1>4, <1>5, Steps

\* What BounceTerminates and BounceEndsUnlessMerged say of a step.
BounceEnds == \A m \in Msgs : Bounces(m) => state'[home'[m]] = "TERMINATED"

BounceEndsOr ==
    \A m \in Msgs : Bounces(m) =>
        \/ state'[home'[m]] = "TERMINATED"
        \/ \E w \in Workers :
              /\ tx[w].pc = "read" /\ tx[w].m = m
              /\ tx[w].conv # home[m] /\ state[tx[w].conv] = "GONE"

\* Only a commit records a bounce: of its own message, whose conversation it
\* read, and not as what it was before.
LEMMA BounceCommits ==
    ASSUME IInv, Next, NEW m \in Msgs, Bounces(m)
    PROVE  \E w \in Workers :
              /\ Commit(w) /\ tx[w].pc = "read" /\ tx[w].m = m
              /\ tx[w].conv \in Convs
              /\ tx[w].new = "BOUNCED" /\ tx[w].old # "BOUNCED"
              /\ home[m] = tx[w].conv \/ state[tx[w].conv] = "GONE"
<1> USE DEF IInv, Bounces
<1>1. PICK w \in Workers : Commit(w)
  <2>1. ~ UNCHANGED delivery
    OBVIOUS
  <2> QED
    BY <2>1, Steps DEF Around, Emit, BeginAccept, BeginEvent, Read, Rollback, messageVars
<1> DEFINE t == tx[w]
<1>2. t.pc = "read" /\ t \in Txs /\ t.m \in Msgs
  BY <1>1, SeenTyped DEF Commit
<1>3. m = t.m /\ t.conv # None /\ t.new = "BOUNCED"
  BY <1>1 DEF Commit, StateTypeOK
<1>4. t.old # "BOUNCED" /\ (home[m] = t.conv \/ state[t.conv] = "GONE")
  BY <1>2, <1>3 DEF ReadInv
<1>5. t.conv \in Convs
  BY <1>2, <1>3 DEF Txs
<1> QED
  BY <1>1, <1>2, <1>3, <1>4, <1>5

\* A commit that records a bounce while the conversation it read is there.
LEMMA LiveEnds ==
    ASSUME StateTypeOK, NEW w \in Workers, Commit(w),
           tx[w].new = "BOUNCED", tx[w].conv \in Live
    PROVE  home' = home /\ state'[tx[w].conv] = "TERMINATED"
<1>1. home' = home /\ state' = [state EXCEPT ![tx[w].conv] = "TERMINATED"]
  BY DEF Commit, Ends
<1> QED
  BY <1>1 DEF StateTypeOK, Live

LEMMA StepBounce ==
    ASSUME IInv, Next
    PROVE  BounceEndsOr /\ (EventSinks => BounceEnds)
<1> SUFFICES ASSUME NEW m \in Msgs, Bounces(m)
             PROVE  \/ state'[home'[m]] = "TERMINATED"
                    \/ /\ ~ EventSinks
                       /\ \E w \in Workers :
                             /\ tx[w].pc = "read" /\ tx[w].m = m
                             /\ tx[w].conv # home[m] /\ state[tx[w].conv] = "GONE"
  BY DEF BounceEnds, BounceEndsOr
<1>1. PICK w \in Workers :
          /\ Commit(w) /\ tx[w].pc = "read" /\ tx[w].m = m
          /\ tx[w].conv \in Convs
          /\ tx[w].new = "BOUNCED" /\ tx[w].old # "BOUNCED"
          /\ home[m] = tx[w].conv \/ state[tx[w].conv] = "GONE"
  BY BounceCommits
<1>2. home[m] \in Live
  BY DEF IInv, StateTypeOK, Bounces
<1>3. CASE tx[w].conv \in Live
  <2>1. home[m] = tx[w].conv
    BY <1>1, <1>3 DEF Live, States
  <2> QED
    BY <1>1, <1>3, <2>1, LiveEnds DEF IInv
<1>4. CASE tx[w].conv \notin Live
  <2>1. tx[w].conv # home[m] /\ state[tx[w].conv] = "GONE"
    BY <1>1, <1>2, <1>4
  <2>2. ~ EventSinks
    <3>1. tx[w].conv # None
      BY <1>1, StateNames
    <3> QED
      BY <1>1, <1>4, <3>1 DEF Commit, Appends
  <2> QED
    BY <1>1, <2>1, <2>2
<1> QED
  BY <1>3, <1>4

\* What TerminatedStays says of a step.
EndStays ==
    \/ \A m \in Msgs :
          /\ Exists(m) /\ state[home[m]] = "TERMINATED"
          => sent'[m] = "GONE" \/ state'[home'[m]] = "TERMINATED"
    \/ \E c \in Convs :
          \/ \E s \in States : Override(c, s)
          \/ \E m \in Msgs : Reopen(c, m)

LEMMA MergeKeepsEnd ==
    ASSUME StateTypeOK, NEW c \in Convs, NEW S \in SUBSET (Convs \ {c}),
           Record(c, S) \/ Receive(c, S),
           NEW m \in Msgs, Exists(m), state[home[m]] = "TERMINATED"
    PROVE  state'[home'[m]] = "TERMINATED"
<1>1. PICK next \in {MergedWith(c, S), Automatic(MergedWith(c, S), "AWAITING_US")} :
          MergeInto(c, S, next)
  BY DEF Record, Receive
<1>2. home[m] \in Convs
  BY DEF StateTypeOK, Live
<1>3. home[m] \in S \union {c} => next = "TERMINATED"
  <2>1. home[m] \in S \union {c} => MergedWith(c, S) = "TERMINATED"
    <3>1. home[m] \in S \union {c} => "TERMINATED" \in {state[b] : b \in S \union {c}}
      BY <1>2
    <3>2. \A T : "TERMINATED" \in T => Merged(T) = "TERMINATED"
      BY DEF Merged
    <3> QED
      BY <3>1, <3>2 DEF MergedWith
  <2> QED
    BY <1>1, <2>1 DEF Automatic
<1>4. /\ home'[m] = IF home[m] \in S THEN c ELSE home[m]
      /\ \A d \in Convs : state'[d] = IF d = c THEN next
                                      ELSE IF d \in S THEN "GONE" ELSE state[d]
  BY <1>1 DEF MergeInto
<1>5. home'[m] \in Convs /\ home'[m] \notin S
  BY <1>1, <1>2, <1>4 DEF MergeInto
<1> QED
  BY <1>2, <1>3, <1>4, <1>5

LEMMA StepEnd ==
    ASSUME StateTypeOK, TxInv, Next
    PROVE  EndStays
<1> SUFFICES ASSUME NEW m \in Msgs, Exists(m), state[home[m]] = "TERMINATED",
                    sent'[m] # "GONE",
                    ~ \E c \in Convs : \/ \E s \in States : Override(c, s)
                                       \/ \E n \in Msgs : Reopen(c, n)
             PROVE  state'[home'[m]] = "TERMINATED"
  BY DEF EndStays
<1>1. home[m] \in Convs /\ state \in [Convs -> States \union {"ABSENT", "GONE"}]
  BY DEF StateTypeOK, Live
<1>2. ASSUME NEW c \in Convs, NEW n \in Msgs, Open(c, n) \/ Reply(c, n)
      PROVE  state'[home'[m]] = "TERMINATED"
  <2>1. home'[m] = home[m]
    BY <1>1, <1>2 DEF Open, Reply, NewMessage, Exists, StateTypeOK
  <2> QED
    BY <1>1, <1>2, <2>1 DEF Open, Reply, Automatic
<1>3. ASSUME NEW c \in Convs, Assign(c) \/ ReceiveNew(c)
      PROVE  state'[home'[m]] = "TERMINATED"
  BY <1>1, <1>3 DEF Assign, ReceiveNew, messageVars
<1>4. ASSUME NEW c \in Convs, Delete(c)
      PROVE  state'[home'[m]] = "TERMINATED"
  BY <1>1, <1>4 DEF Delete, Members
<1>5. ASSUME NEW c \in Convs, NEW S \in SUBSET (Convs \ {c}),
             Record(c, S) \/ Receive(c, S)
      PROVE  state'[home'[m]] = "TERMINATED"
  BY <1>5, MergeKeepsEnd
<1>6. ASSUME NEW n \in Msgs, Fail(n) \/ \E type \in EventTypes : Emit(n, type)
      PROVE  state'[home'[m]] = "TERMINATED"
  BY <1>6 DEF Fail, Emit, convVars, messageVars
<1>7. ASSUME NEW w \in Workers,
             \/ \E n \in Msgs :
                   BeginAccept(w, n) \/ \E i \in 1 .. MaxEvents : BeginEvent(w, n, i)
             \/ Read(w) \/ Rollback(w)
      PROVE  state'[home'[m]] = "TERMINATED"
  BY <1>7 DEF BeginAccept, BeginEvent, Read, Rollback, convVars, messageVars
<1>8. ASSUME NEW w \in Workers, Commit(w)
      PROVE  state'[home'[m]] = "TERMINATED"
  BY <1>1, <1>8 DEF Commit
<1> QED
  BY <1>2, <1>3, <1>4, <1>5, <1>6, <1>7, <1>8 DEF Next

-----------------------------------------------------------------------------
(* The inductive invariant is one, and the theorems.                       *)

LEMMA InitIInv == Init => IInv
<1> SUFFICES ASSUME Init
             PROVE  IInv
  OBVIOUS
<1>1. TxInv /\ ReadInv
  BY Idle DEF Init, TxInv, ReadInv
<1> QED
  BY <1>1, InitTypes DEF Init, IInv, Converges

LEMMA StepIInv ==
    ASSUME IInv, [Next]_vars
    PROVE  IInv'
<1>1. CASE Next
  BY <1>1, StepTypes, StepTx, StepRead, StepConverges DEF IInv
<1>2. CASE UNCHANGED vars
  <2> USE <1>2 DEF vars, convVars, messageVars
  <2>1. StateTypeOK'
    BY DEF IInv, StateTypeOK, Live, Exists
  <2>2. TxInv'
    BY DEF IInv, TxInv
  <2>3. ReadInv'
    <3>1. \A w \in Workers : Seen(w)' = Seen(w)
      BY DEF Seen
    <3> QED
      BY <3>1 DEF IInv, ReadInv, Exists
  <2>4. Converges'
    BY ConvergesIs, ConvergesNext DEF IInv
  <2> QED
    BY <2>1, <2>2, <2>3, <2>4 DEF IInv
<1> QED
  BY <1>1, <1>2

\* The tables, the messages' conversations and the transactions stay what they
\* are declared to be, whatever transactions overlap.
THEOREM TypeCorrect == Spec => []StateTypeOK
<1>1. IInv => StateTypeOK
  BY DEF IInv
<1> QED
  BY <1>1, InitIInv, StepIInv, PTL DEF Spec

\* An accepted message shows what its stored events add up to, however many of
\* them there are and in whatever order they and the acceptance were committed.
THEOREM EventsConverge == Spec => []Converges
<1>1. IInv => Converges
  BY DEF IInv
<1> QED
  BY <1>1, InitIInv, StepIInv, PTL DEF Spec

\* A recorded bounce ends the conversation its message is in, unless the one that
\* was read for it has been merged away since: with or without event sinks.
THEOREM BouncesEndUnlessMerged == Spec => BounceEndsUnlessMerged
<1>1. ASSUME IInv, [Next]_vars
      PROVE  [BounceEndsOr]_vars
  BY <1>1, StepBounce
<1> QED
  BY <1>1, InitIInv, StepIInv, PTL DEF Spec, BounceEndsUnlessMerged, BounceEndsOr

\* Where event sinks are configured, the append that throws makes it every recorded
\* bounce: a merge that came in between undoes the transaction, which is repeated.
THEOREM BouncesEndWithSinks ==
    ASSUME EventSinks
    PROVE  Spec => BounceTerminates
<1>1. ASSUME IInv, [Next]_vars
      PROVE  [BounceEnds]_vars
  BY <1>1, StepBounce
<1> QED
  BY <1>1, InitIInv, StepIInv, PTL DEF Spec, BounceTerminates, BounceEnds

\* A conversation that has ended stays ended for each of its messages wherever
\* merges take it, until it is overridden, reopened by a new opening or deleted.
THEOREM EndsStay == Spec => TerminatedStays
<1>1. ASSUME IInv, [Next]_vars
      PROVE  [EndStays]_vars
  <2>1. CASE Next
    BY <1>1, <2>1, StepEnd DEF IInv
  <2>2. CASE UNCHANGED vars
    BY <2>2
  <2> QED
    BY <1>1, <2>1, <2>2
<1> QED
  BY <1>1, InitIInv, StepIInv, PTL DEF Spec, TerminatedStays, EndStays
=============================================================================
