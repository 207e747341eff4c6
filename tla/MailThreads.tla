---------------------------- MODULE MailThreads ----------------------------
(***************************************************************************)
(* What the service promises about grouping emails: the stored emails fall *)
(* into threads, threads grow and join, and only deleting a whole thread   *)
(* removes emails.  No email leaves its thread or gets lost, and a thread  *)
(* that was given a topic is never swallowed by another one that has one.  *)
(***************************************************************************)
CONSTANT Emails

VARIABLES
    threads,    \* a partition of the stored emails
    topics      \* the threads with a topic

vars == <<threads, topics>>

Stored == UNION threads

TypeOK ==
    /\ threads \subseteq (SUBSET Emails) \ {{}}
    /\ \A s, t \in threads : s # t => s \intersect t = {}
    /\ topics \subseteq threads

Init == threads = {} /\ topics = {}

\* The threads in joined become one with the emails in new; at most one of them
\* has a topic, which is then that of the whole.
Join(joined, new) ==
    LET whole == (UNION joined) \union new
    IN  /\ \A s, t \in joined \intersect topics : s = t
        /\ threads' = (threads \ joined) \union {whole}
        /\ topics' = (topics \ joined)
                        \union (IF joined \intersect topics # {} THEN {whole} ELSE {})

\* An email starts a thread about a topic.
Open(e) ==
    /\ e \notin Stored
    /\ threads' = threads \union {{e}}
    /\ topics' = topics \union {{e}}

Assign(t) == topics' = topics \union {t} /\ UNCHANGED threads

Remove(t) == threads' = threads \ {t} /\ topics' = topics \ {t}

Next ==
    \/ \E e \in Emails \ Stored :
          Open(e) \/ \E joined \in SUBSET threads : Join(joined, {e})
    \/ \E joined \in SUBSET threads \ {{}} : Join(joined, {})
    \/ \E t \in threads : Assign(t) \/ Remove(t)

Spec == Init /\ [][Next]_vars
=============================================================================
