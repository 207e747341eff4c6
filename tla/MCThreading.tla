---------------------------- MODULE MCThreading ----------------------------
(* Instances of Threading for TLC. *)
EXTENDS Threading, TLC

CONSTANTS p1, p2

TwoParticipants == {p1, p2}

\* Two participants in up to three emails; the instance with a fourth email has
\* one participant.
FewEmailsOrOneParticipant ==
    Len(header) = MaxEmails => \A e \in Sent : header[e].with = header[1].with

Symmetry == Permutations(TwoParticipants)
=============================================================================
