---------------------------- MODULE MCAudioMedia -----------------------------
(* A recorder and two players on one route, and an event channel of one. *)
EXTENDS AudioMedia
CONSTANTS r1, p1, p2

OneRecorder == {r1}
TwoPlayers  == {p1, p2}
=============================================================================
