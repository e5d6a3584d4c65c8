------------------------------- MODULE MCRelay -------------------------------
(***************************************************************************)
(* A small instance of Relay: two faults make an outage during a           *)
(* reconnect, and two shells a replacement.                                *)
(***************************************************************************)
EXTENDS Relay

TwoSizes == {1, 2}
TwoPrograms == {"sh", "agent"}
=============================================================================
