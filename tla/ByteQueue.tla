------------------------------ MODULE ByteQueue ------------------------------
(***************************************************************************)
(* What a console input buffer promises: a first-in first-out queue of at  *)
(* most N characters.  A packet that does not fit is cut off at its end;   *)
(* no character is lost, repeated or reordered otherwise.                  *)
(***************************************************************************)
EXTENDS Naturals, Sequences

CONSTANTS N, Packets, NoChar

VARIABLES
    q,      \* the characters waiting
    last    \* the last one given to a reader

vars == <<q, last>>

Init == q = <<>> /\ last = NoChar

Fitting(pkt) == IF Len(pkt) > N - Len(q) THEN N - Len(q) ELSE Len(pkt)

Put == \E pkt \in Packets : q' = q \o SubSeq(pkt, 1, Fitting(pkt)) /\ UNCHANGED last

Take == q # <<>> /\ last' = Head(q) /\ q' = Tail(q)

Next == Put \/ Take

Spec == Init /\ [][Next]_vars
=============================================================================
