------------------------------ MODULE MCManager ------------------------------
(***************************************************************************)
(* Small instances of Manager.  Two sessions are an old shell and the one  *)
(* that replaces it under the same or another name.  With a retention of   *)
(* one tick a clock of one lets a lease run out; a terminal that is closed *)
(* twice has timers with one deadline.                                     *)
(***************************************************************************)
EXTENDS Manager

CONSTANTS n1, n2, s1, s2

TwoNames == {n1, n2}
TwoSessions == {s1, s2}

=============================================================================
