------------------------------ MODULE MCSession ------------------------------
(***************************************************************************)
(* A small instance of Attach, and one of Control: two callers that may    *)
(* hold the same inspection, and one interactive client.  Two bytes make a *)
(* write partial; two revisions are output and the reap.                   *)
(*                                                                         *)
(* A behaviour is one of the module that is its subject; the variables of  *)
(* the other stay as they are at first.                                    *)
(***************************************************************************)
EXTENDS MCAttach, Control, TLC

CONSTANTS k1, k2, t1, g1

TwoControllers == {k1, k2}
Interchangeable == Permutations(TwoControllers)
OneTypist == {t1}
OneGroup == {g1}

VARIABLE subject

SessionInit ==
    /\ subject \in {"attach", "control"}
    /\ AttachInit
    /\ Init
    /\ subject = "attach" => fg = None

SessionNext ==
    /\ UNCHANGED subject
    /\ \/ subject = "attach" /\ AttachNext /\ UNCHANGED vars
       \/ subject = "control" /\ Next /\ UNCHANGED attachVars

SessionSpec == SessionInit /\ [][SessionNext]_<<attachVars, vars, subject>>
=============================================================================
