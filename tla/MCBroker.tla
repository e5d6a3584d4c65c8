------------------------------ MODULE MCBroker -------------------------------
(* Two relays to one host, one of them for audio, and two keys. *)
EXTENDS Broker

CONSTANTS p1, a1, k1, k2

MCPane  == {p1, a1}
MCAudio == {a1}
MCKey   == {k1, k2}

=============================================================================
