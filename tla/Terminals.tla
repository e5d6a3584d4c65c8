------------------------------ MODULE Terminals ------------------------------
(***************************************************************************)
(* What the users of muxd are promised of their terminals, as if one       *)
(* daemon ran for ever: "replacing the binary never kills a shell", loses  *)
(* or repeats no output, and moves no lease (migrate.rs).  No step takes a *)
(* terminal, a chunk it has shown or a lease away, except the user's own   *)
(* reopen.  Handoff implements it.                                         *)
(***************************************************************************)
EXTENDS Naturals

CONSTANTS Pty, MaxChunks

VARIABLES
    open,    \* the terminals there are
    shown,   \* the chunks of output on the screen of each
    closed   \* the terminals that are leased

vars == <<open, shown, closed>>

Init ==
    /\ open = {}
    /\ shown = [p \in Pty |-> {}]
    /\ closed = {}

Open(p) ==
    /\ p \notin open
    /\ open' = open \cup {p}
    /\ UNCHANGED <<shown, closed>>

\* The next chunk, after all that came before it.
Show(p) ==
    /\ p \in open
    /\ \E n \in 1..MaxChunks :
          /\ shown[p] = 1..(n - 1)
          /\ shown' = [shown EXCEPT ![p] = 1..n]
    /\ UNCHANGED <<open, closed>>

Close(p) ==
    /\ p \in open
    /\ closed' = closed \cup {p}
    /\ UNCHANGED <<open, shown>>

Reopen(p) ==
    /\ p \in open
    /\ closed' = closed \ {p}
    /\ UNCHANGED <<open, shown>>

Next == \E p \in Pty : Open(p) \/ Show(p) \/ Close(p) \/ Reopen(p)

Spec == Init /\ [][Next]_vars
=============================================================================
