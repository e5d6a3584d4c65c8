------------------------------- MODULE Control -------------------------------
(***************************************************************************)
(* Control of one terminal without attaching to it: inspect and checked    *)
(* input (crates/muxd/src/control.rs), beside the interactive input of     *)
(* attached clients, which takes the same lock.  Observers are in Observe. *)
(*                                                                         *)
(* `screen` stands for the viewport's text: it is a fresh number whenever  *)
(* output or a resize changes it.  An input is Size bytes.  An input that  *)
(* was let through is known by the input revision it was given, so it is a *)
(* number too, and `sent` counts the bytes of each that reached the pty.   *)
(*                                                                         *)
(* A snapshot is taken in two steps, under the terminal lock: the text and *)
(* the revision, and then the fields no lock protects.                     *)
(***************************************************************************)
EXTENDS Naturals

CONSTANTS
    Controller,   \* callers of inspect and input
    Typist,       \* interactive clients
    Group,        \* foreground process groups
    Size,         \* bytes of an input
    MaxRevision,  \* bound on the terminal's changes
    MaxInputs,    \* bound on the inputs let through
    Feeding,      \* holds the terminal lock while the viewport changes
    None

Writer == Controller \cup Typist

ASSUME ControlAssumption ==
    /\ Controller \cap Typist = {}
    /\ Size \in Nat \ {0}
    /\ MaxRevision \in Nat \ {0}
    /\ MaxInputs \in Nat
    /\ None \notin Group \cup Writer
    /\ Feeding \notin Controller \cup {None}

VARIABLES
    screen,    \* the viewport
    revision,  \* PtySession.revision
    inputRev,  \* PtySession.input_revision
    exited,    \* PtySession.exited
    reaper,    \* reap: "no", "exited" (flag set), "changed", "removed"
    fg,        \* tcgetpgrp of the master
    terminal,  \* who holds the terminal lock across two steps
    inputLock, \* who holds input_lock
    pc,        \* where each task is
    snap,      \* the snapshot each inspector took, or is taking
    seenFg,    \* the foreground a checked input read under the lock
    mine,      \* the input each writer had let through, 0 if refused
    reply,     \* the answer to each controller's last input
    sent,      \* bytes of each input on the pty
    lastByte,  \* the input whose byte is last on the pty
    basis      \* per checked input, the snapshot it was checked against

sessionVars  == <<screen, revision, exited, reaper, fg>>
inputVars    == <<inputRev, inputLock, seenFg, mine, reply, sent, lastByte,
                  basis>>
vars == <<screen, revision, inputRev, exited, reaper, fg, terminal, inputLock,
          pc, snap, seenFg, mine, reply, sent, lastByte, basis>>

Attempt == 1..MaxInputs
Screen  == 0..MaxRevision

\* "old" is the generation of a terminal that had the name before.
Generation == {"this", "old"}

Snapshot == [generation : Generation, revision : Screen, text : Screen,
             input : 0..MaxInputs, fg : Group \cup {None}]

First == [generation |-> "this", revision |-> 0, text |-> 0, input |-> 0,
          fg |-> None]

\* What a controller may still hold from the terminal's predecessor.
Leftover(g) == [First EXCEPT !.generation = "old", !.fg = g]

\* What a checked input was checked against, and what was on the screen.
Basis == [generation : Generation, input : 0..MaxInputs, text : Screen,
          screen : Screen, feeding : BOOLEAN]

TypeOK ==
    /\ screen \in Screen
    /\ revision \in Screen
    /\ inputRev \in 0..MaxInputs
    /\ exited \in BOOLEAN
    /\ reaper \in {"no", "exited", "changed", "removed"}
    /\ fg \in Group \cup {None}
    /\ terminal \in Controller \cup {Feeding, None}
    /\ inputLock \in Writer \cup {None}
    /\ pc \in [Writer -> {"idle", "snap", "wait", "check", "write"}]
    /\ snap \in [Controller -> Snapshot]
    /\ seenFg \in [Controller -> Group \cup {None}]
    /\ mine \in [Writer -> 0..MaxInputs]
    /\ reply \in [Controller -> {"none", "written", "refused", "uncertain"}]
    /\ sent \in [Attempt -> 0..Size]
    /\ lastByte \in 0..MaxInputs
    /\ basis \in [Attempt -> Basis \cup {None}]

Init ==
    /\ screen = 0
    /\ revision = 0
    /\ inputRev = 0
    /\ exited = FALSE
    /\ reaper = "no"
    /\ fg \in Group \cup {None}
    /\ terminal = None
    /\ inputLock = None
    /\ pc = [t \in Writer |-> "idle"]
    /\ \E g \in Group : snap = [i \in Controller |-> Leftover(g)]
    /\ seenFg = [c \in Controller |-> None]
    /\ mine = [w \in Writer |-> 0]
    /\ reply = [c \in Controller |-> "none"]
    /\ sent = [a \in Attempt |-> 0]
    /\ lastByte = 0
    /\ basis = [a \in Attempt |-> None]

-----------------------------------------------------------------------------
(* The session *)

Goto(t, to) == pc' = [pc EXCEPT ![t] = to]

\* PtySession::changed.
Changed == revision' = revision + 1

\* Mutant of Feed: a change of the viewport nobody marks, and no lock.
FeedUnmarked ==
    /\ screen < MaxRevision - 1
    /\ screen' = screen + 1
    /\ UNCHANGED <<revision, exited, reaper, fg, terminal, pc, snap, inputVars>>

\* Output is fed, or a client attaches or resizes (even a dead terminal):
\* the viewport changes and then the revision, under the terminal lock.
Feed ==
    /\ terminal = None
    /\ terminal' = Feeding
    /\ screen < MaxRevision - 1
    /\ screen' = screen + 1
    /\ UNCHANGED <<revision, exited, reaper, fg, pc, snap, inputVars>>

Fed ==
    /\ terminal = Feeding
    /\ terminal' = None
    /\ Changed
    /\ UNCHANGED <<screen, exited, reaper, fg, pc, snap, inputVars>>

\* Programs come to the foreground and leave; nobody is told.
Foreground ==
    /\ fg' \in (Group \cup {None}) \ {fg}
    /\ UNCHANGED <<screen, revision, exited, reaper, terminal, pc, snap,
                   inputVars>>

\* Mutant of Exited: every exit notice is acted on, not only the first.
ExitedAgain ==
    /\ reaper # "exited"
    /\ exited' = TRUE
    /\ reaper' = "exited"
    /\ UNCHANGED <<screen, revision, fg, terminal, pc, snap, inputVars>>

\* kill_session and reap raise the flag before they notify.
Exited ==
    /\ reaper = "no"
    /\ exited' = TRUE
    /\ reaper' = "exited"
    /\ UNCHANGED <<screen, revision, fg, terminal, pc, snap, inputVars>>

ReapChanged ==
    /\ reaper = "exited"
    /\ reaper' = "changed"
    /\ Changed
    /\ UNCHANGED <<screen, exited, fg, terminal, pc, snap, inputVars>>

ReapRemove ==
    /\ reaper = "changed"
    /\ reaper' = "removed"
    /\ UNCHANGED <<screen, revision, exited, fg, terminal, pc, snap, inputVars>>

\* Manager::get finds the session.
Listed == reaper # "removed"

-----------------------------------------------------------------------------
(* PtySession::snapshot *)

SnapshotText(i, from, to) ==
    /\ pc[i] = from
    /\ terminal = None
    /\ terminal' = i
    /\ Goto(i, to)
    /\ snap' = [snap EXCEPT ![i] = [First EXCEPT !.revision = revision,
                                                 !.text = screen]]
    /\ UNCHANGED <<sessionVars, inputVars>>

SnapshotRest(i, from, to) ==
    /\ pc[i] = from
    /\ terminal = i
    /\ terminal' = None
    /\ Goto(i, to)
    /\ snap' = [snap EXCEPT ![i].input = inputRev, ![i].fg = fg]
    /\ UNCHANGED <<sessionVars, inputVars>>

InspectText(c) == Listed /\ SnapshotText(c, "idle", "snap")
InspectRest(c) == SnapshotRest(c, "snap", "idle")

-----------------------------------------------------------------------------
(* Input *)

\* write_input: the next attempt is begun, and numbered.
Advance(w) ==
    /\ inputRev < MaxInputs
    /\ inputRev' = inputRev + 1
    /\ mine' = [mine EXCEPT ![w] = inputRev + 1]

\* Mutant of Type: interactive input is written without the lock.
TypeUnlocked(t) ==
    /\ pc[t] = "idle"
    /\ Advance(t)
    /\ Goto(t, "write")
    /\ UNCHANGED <<sessionVars, terminal, snap, seenFg, reply, sent,
                   lastByte, basis, inputLock>>

\* Interactive input, once it has the lock.
Type(t) ==
    /\ pc[t] = "idle"
    /\ inputLock = None
    /\ inputLock' = t
    /\ Advance(t)
    /\ Goto(t, "write")
    /\ UNCHANGED <<sessionVars, terminal, snap, seenFg, reply, sent,
                   lastByte, basis>>

\* The request carries the state fields of the last inspection; the same
\* request may be sent any number of times.
Submit(c) ==
    /\ pc[c] = "idle"
    /\ Listed
    /\ Goto(c, "wait")
    /\ mine' = [mine EXCEPT ![c] = 0]
    /\ reply' = [reply EXCEPT ![c] = "none"]
    /\ UNCHANGED <<sessionVars, terminal, snap, inputRev, inputLock, seenFg,
                   sent, lastByte, basis>>

\* No session of that name, or an input that is empty or too long.
SubmitInvalid(c) ==
    /\ pc[c] = "idle"
    /\ mine' = [mine EXCEPT ![c] = 0]
    /\ reply' = [reply EXCEPT ![c] = "refused"]
    /\ UNCHANGED <<sessionVars, terminal, snap, pc, inputRev, inputLock,
                   seenFg, sent, lastByte, basis>>

\* The lock is taken and the foreground group read.
CheckLocked(c) ==
    /\ pc[c] = "wait"
    /\ inputLock = None
    /\ inputLock' = c
    /\ seenFg' = [seenFg EXCEPT ![c] = fg]
    /\ Goto(c, "check")
    /\ UNCHANGED <<sessionVars, terminal, snap, inputRev, mine, reply, sent,
                   lastByte, basis>>

\* Mutant of Unchanged: only the screen is compared.
UnchangedScreen(c) ==
    /\ snap[c].generation = "this"
    /\ ~exited
    /\ snap[c].revision = revision

\* Nothing changed since the inspection, as far as the markers tell.
Unchanged(c) ==
    /\ seenFg[c] # None
    /\ snap[c].generation = "this"
    /\ ~exited
    /\ snap[c].revision = revision
    /\ snap[c].input = inputRev
    /\ snap[c].fg = seenFg[c]

\* The input revision is advanced before the write.
CheckAccepts(c) ==
    /\ pc[c] = "check"
    /\ Unchanged(c)
    /\ Advance(c)
    /\ basis' = [basis EXCEPT ![inputRev + 1] =
                   [generation |-> snap[c].generation,
                    input |-> snap[c].input,
                    text |-> snap[c].text, screen |-> screen,
                    feeding |-> terminal = Feeding]]
    /\ seenFg' = [seenFg EXCEPT ![c] = None]
    /\ Goto(c, "write")
    /\ UNCHANGED <<sessionVars, terminal, inputLock, snap, reply, sent,
                   lastByte>>

CheckRefuses(c) ==
    /\ pc[c] = "check"
    /\ ~Unchanged(c)
    /\ inputLock' = None
    /\ seenFg' = [seenFg EXCEPT ![c] = None]
    /\ reply' = [reply EXCEPT ![c] = "refused"]
    /\ Goto(c, "idle")
    /\ UNCHANGED <<sessionVars, terminal, snap, inputRev, mine, sent, lastByte,
                   basis>>

\* pty::write_all, after the last byte.
Release(w) ==
    /\ inputLock' = IF inputLock = w THEN None ELSE inputLock
    /\ Goto(w, "idle")

\* pty::write_all: the kernel takes some of what is left.
WriteSome(w, n) ==
    /\ pc[w] = "write"
    /\ sent[mine[w]] + n <= Size
    /\ sent' = [sent EXCEPT ![mine[w]] = @ + n]
    /\ lastByte' = mine[w]
    /\ UNCHANGED <<sessionVars, terminal, snap, pc, inputRev, inputLock, seenFg,
                   mine, reply, basis>>

Answer(w, r) ==
    reply' = IF w \in Controller THEN [reply EXCEPT ![w] = r] ELSE reply

\* Everything is written.
WriteDone(w) ==
    /\ pc[w] = "write"
    /\ sent[mine[w]] = Size
    /\ Release(w)
    /\ Answer(w, "written")
    /\ UNCHANGED <<sessionVars, terminal, snap, inputRev, seenFg, mine, sent,
                   lastByte, basis>>

\* Mutant of GiveUp: a timeout is reported as a refusal.
GiveUpRefused(w) ==
    /\ pc[w] \in {"wait", "write"}
    /\ Release(w)
    /\ Answer(w, "refused")
    /\ UNCHANGED <<sessionVars, terminal, snap, inputRev, seenFg, mine, sent,
                   lastByte, basis>>

\* The write fails, the two seconds are over, or a typist's connection ends:
\* the future is dropped where it waits, and the lock with it.
GiveUp(w) ==
    /\ pc[w] \in {"wait", "write"}
    /\ Release(w)
    /\ Answer(w, "uncertain")
    /\ UNCHANGED <<sessionVars, terminal, snap, inputRev, seenFg, mine, sent,
                   lastByte, basis>>

-----------------------------------------------------------------------------

Next ==
    \/ Feed \/ Fed \/ Foreground \/ Exited \/ ReapChanged \/ ReapRemove
    \/ \E c \in Controller :
          InspectText(c) \/ InspectRest(c) \/ Submit(c) \/ SubmitInvalid(c)
             \/ CheckLocked(c) \/ CheckAccepts(c) \/ CheckRefuses(c)
    \/ \E t \in Typist : Type(t)
    \/ \E w \in Writer :
          (\E n \in 1..Size : WriteSome(w, n)) \/ WriteDone(w) \/ GiveUp(w)

Spec == Init /\ [][Next]_vars

-----------------------------------------------------------------------------
(* Properties *)

\* "Input revisions prevent replay of the same request": whatever is retried
\* after a timeout, and whoever else inspected the same state, at most one of
\* the checked inputs that carry the same markers is ever let through, and
\* none that carries a former terminal's.
AppliedOnce ==
    /\ \A a, b \in Attempt :
          basis[a] # None /\ basis[b] # None /\ basis[a].input = basis[b].input
             => a = b
    /\ \A a \in Attempt : basis[a] # None => basis[a].generation = "this"

\* A checked input is let through only when the screen is the one its caller
\* saw, or the very chunk being fed at that moment follows it: the revision
\* names the text, although the check holds no terminal lock and text and
\* revision change in two steps.
AppliedToSeen ==
    \A a \in Attempt : basis[a] # None =>
        \/ basis[a].text = basis[a].screen
        \/ basis[a].feeding /\ basis[a].screen = basis[a].text + 1

\* Interactive and checked writes share one lock, partial writes included: the
\* bytes of two inputs never interleave.  An input abandoned half-way stays
\* half-way.
NoInterleaving == [][lastByte' >= lastByte]_vars

\* What the reply says is so: written means every byte, refused means none
\* and that no input revision was used up.
ReplyTruthful ==
    \A c \in Controller :
        /\ reply[c] = "written" => mine[c] # 0 /\ sent[mine[c]] = Size
        /\ reply[c] = "refused" => mine[c] = 0

\* Replies say what was done, in every well-typed state.
Consistent == TypeOK /\ ReplyTruthful
=============================================================================
