------------------------------- MODULE MCWatch -------------------------------
(***************************************************************************)
(* A small instance of Observe: one terminal, spawned or adopted, a ring   *)
(* of two events that other terminals overwrite, and a connection that     *)
(* watches or observes.  Those who look change nothing for the terminal    *)
(* or for each other, so one of them is enough.  And one of Agents: what   *)
(* is seen on a screen.                                                    *)
(*                                                                         *)
(* A behaviour is one of the module that is its subject; the variables of  *)
(* the other stay as they are at first.  Of Agents nothing is said that    *)
(* needs fairness.                                                         *)
(***************************************************************************)
EXTENDS Observe, Agents, SequencesExt

CONSTANTS s1, c1, MaxLines

OneSession == {s1}
OneCaller  == {c1}

SomeContent == BoundedSeq(Line, MaxLines)
SomeCounts == 0..MaxLines
TwoPriorities == {1, 2}

VARIABLE subject

WatchInit ==
    /\ subject \in {"observe", "agents"}
    /\ ObserveInit
    /\ AgentsInit
    /\ subject = "agents" => \A s \in Session : ~pending[s]

WatchNext ==
    /\ UNCHANGED subject
    /\ \/ subject = "observe" /\ ObserveNext /\ UNCHANGED agentsVars
       \/ subject = "agents" /\ AgentsNext /\ UNCHANGED observeVars

WatchSpec ==
    /\ WatchInit /\ [][WatchNext]_<<observeVars, agentsVars, subject>>
    /\ ObserveFairness
=============================================================================
