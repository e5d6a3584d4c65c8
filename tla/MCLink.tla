------------------------------- MODULE MCLink --------------------------------
(***************************************************************************)
(* A client's connection: the instance of Relay, and one of Peers.  A      *)
(* behaviour is one of the module that is its subject; the variables of    *)
(* the other stay as they are at first.  Of Peers nothing is said that     *)
(* needs fairness, and those of its behaviours are not fair to the relay.  *)
(***************************************************************************)
EXTENDS MCRelay, Peers

SomeFrames == {[lane |-> l, payload |-> [i \in 1..n |-> b]] :
                  l \in {0, 1}, n \in 0..MAX_FRAME_SIZE, b \in {0, 1}}

SomeVersions == 6..(PROTOCOL_VERSION + 1)

VARIABLE subject

LinkInit ==
    /\ subject \in {"relay", "peers"}
    /\ Init
    /\ PeersInit
    /\ subject = "peers" =>
          args = (CHOOSE a \in Args : ~a.expect) /\ daemon = "up"

LinkNext ==
    /\ UNCHANGED subject
    /\ \/ subject = "relay" /\ Next /\ UNCHANGED peersVars
       \/ subject = "peers" /\ PeersNext /\ UNCHANGED vars

LinkSpec == LinkInit /\ [][LinkNext]_<<vars, peersVars, subject>> /\ Fairness
=============================================================================
