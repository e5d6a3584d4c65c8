------------------------------ MODULE MCHandoff ------------------------------
(***************************************************************************)
(* A small instance of Handoff.  Three daemons are a predecessor, its      *)
(* successor and a rival or a second successor; each kind of bad weather   *)
(* is looked at alone, and all that the daemons can do to each other at    *)
(* once.                                                                   *)
(***************************************************************************)
EXTENDS Handoff, FiniteSets

CONSTANTS d1, d2, d3, p1

ThreeDaemons == {d1, d2, d3}
OnePty == {p1}
EachWeather ==
    {w \in Weather : Cardinality(w) < 2} \cup {{"stall", "rivals", "desert"}}
Rivals == {{"rivals"}}
=============================================================================
