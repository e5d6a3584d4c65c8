------------------------------- MODULE MCLive --------------------------------
(***************************************************************************)
(* The broker's links, and an attached terminal whose clients may never    *)
(* read again.  A behaviour is one of the module that is its subject, to   *)
(* which it is fair; the variables of the other stay as they are at first. *)
(* A terminal may stop for good, the broker may not.                       *)
(***************************************************************************)
EXTENDS MCBroker, MCAttach

VARIABLE subject

LiveInit ==
    /\ subject \in {"broker", "attach"}
    /\ Init
    /\ AttachInit
    /\ subject = "attach" => ~host /\ pins = <<>> /\ key = k1

LiveNext ==
    /\ UNCHANGED subject
    /\ \/ subject = "broker" /\ Next /\ UNCHANGED attachVars
       \/ subject = "attach" /\ (AttachNext \/ UNCHANGED attachVars) /\ UNCHANGED vars

LiveFairness ==
    /\ \A p \in Pane : WF_vars(subject = "broker" /\ PaneStep(p))
    /\ \A c \in Conn : WF_vars(subject = "broker" /\ Noticed(c))
    /\ DaemonFairness

LiveSpec ==
    LiveInit /\ [][LiveNext]_<<vars, attachVars, subject>> /\ LiveFairness
=============================================================================
