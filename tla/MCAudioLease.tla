---------------------------- MODULE MCAudioLease -----------------------------
(* Two panes of one host and two devices. *)
EXTENDS AudioLease
CONSTANTS p1, p2, d1, d2

MCPane    == {p1, p2}
MCDevice  == {d1, d2}
=============================================================================
