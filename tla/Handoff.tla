------------------------------- MODULE Handoff -------------------------------
(***************************************************************************)
(* The live upgrade of muxd (crates/muxd/src/migrate.rs): a successor asks *)
(* the owner of the control socket for its ptys, adopts them, and takes    *)
(* the socket once the predecessor has exited.  Daemons are processes that *)
(* share two socket paths and, in the handoff, pty masters.                *)
(*                                                                         *)
(* A shell lives as long as somebody holds its master: a daemon's table,   *)
(* or a handoff message not yet received (SCM_RIGHTS duplicates in the     *)
(* kernel).  Shells here never end by themselves: their own end, and kills,*)
(* are module Manager.  The output read from a shell is numbered chunks; a *)
(* daemon's VT is the set of chunks it was fed, by its read loop or by the *)
(* snapshot it adopted.                                                    *)
(*                                                                         *)
(* hand_off() runs without an await on one worker thread; the others go on *)
(* serving requests, and block only on the terminal locks it holds.        *)
(***************************************************************************)
EXTENDS Naturals

CONSTANTS
    Daemon,     \* muxd processes, in any order of their start
    First,      \* the one that is serving at the beginning
    Pty,        \* shells
    MaxChunks,  \* bound on each shell's output
    Weathers,   \* the kinds of bad weather to look at, one per behaviour
    None

Weather == SUBSET {"busy",    \* requests between live_sessions() and exit(0)
                   "stall",   \* a process slower than its peer's timeout
                   "rivals",  \* a daemon started while another one is starting
                   "desert"}  \* a successor that dies after its ack, or alone
                              \* with a shell or with output it has read

Chunk == 1..MaxChunks

\* A handoff message, and how far it has come.
Link == [from : Daemon, ptys : SUBSET Pty, vt : [Pty -> SUBSET Chunk],
         lease : SUBSET Pty,
         state : {"sent", "late", "taken", "acked", "void"}]

ASSUME HandoffAssumption ==
    /\ First \in Daemon
    /\ None \notin Daemon
    /\ None \notin Link
    /\ MaxChunks \in Nat
    /\ Weathers \subseteq Weather

VARIABLES
    weather, \* what this behaviour may meet
    mode,    \* where each daemon's main() is
    ctl,     \* whose listener the control socket path names
    mig,     \* whose listener the migration socket path names
    pred,    \* the pid a successor has signalled
    signal,  \* SIGUSR1 is pending
    hand,    \* where the daemon's hand_off is
    batch,   \* the sessions hand_off works on
    to,      \* the successor hand_off is connected to
    link,    \* the handoff message on a successor's migration socket
    table,   \* Manager.ptys of each daemon
    vt,      \* the chunks each daemon's VT of a pty was fed
    lease,   \* the ptys with a close_deadline, in each daemon
    wanted,  \* the ptys whose close was acknowledged, and no reopen since
    read,    \* chunks read from each pty, by anybody
    born     \* shells that were started

socketVars == <<ctl, mig>>
handVars   == <<signal, hand, batch, to>>
ptyVars    == <<table, vt, lease, wanted, read, born>>
vars == <<weather, mode, ctl, mig, pred, signal, hand, batch, to, link, table,
          vt, lease, wanted, read, born>>

Starting == {"rendezvous", "asking", "accepting", "adopted", "waiting",
             "checking", "binding", "unlinked", "bound"}
Mode == Starting \cup {"off", "serving", "dead"}

TypeOK ==
    /\ weather \in Weathers
    /\ mode \in [Daemon -> Mode]
    /\ ctl \in Daemon \cup {None}
    /\ mig \in Daemon \cup {None}
    /\ pred \in [Daemon -> Daemon \cup {None}]
    /\ signal \in [Daemon -> BOOLEAN]
    /\ hand \in [Daemon -> {"idle", "collected", "sent"}]
    /\ batch \in [Daemon -> SUBSET Pty]
    /\ to \in [Daemon -> Daemon \cup {None}]
    /\ link \in [Daemon -> Link \cup {None}]
    /\ table \in [Daemon -> SUBSET Pty]
    /\ vt \in [Daemon -> [Pty -> SUBSET Chunk]]
    /\ lease \in [Daemon -> SUBSET Pty]
    /\ wanted \subseteq Pty
    /\ read \in [Pty -> 0..MaxChunks]
    /\ born \subseteq Pty

Init ==
    /\ weather \in Weathers
    /\ mode = [d \in Daemon |-> IF d = First THEN "serving" ELSE "off"]
    /\ ctl = First
    /\ mig = None
    /\ pred = [d \in Daemon |-> None]
    /\ signal = [d \in Daemon |-> FALSE]
    /\ hand = [d \in Daemon |-> "idle"]
    /\ batch = [d \in Daemon |-> {}]
    /\ to = [d \in Daemon |-> None]
    /\ link = [d \in Daemon |-> None]
    /\ table = [d \in Daemon |-> {}]
    /\ vt = [d \in Daemon |-> [p \in Pty |-> {}]]
    /\ lease = [d \in Daemon |-> {}]
    /\ wanted = {}
    /\ read = [p \in Pty |-> 0]
    /\ born = {}

-----------------------------------------------------------------------------
Alive(d) == mode[d] \notin {"off", "dead"}

\* connect() to the control socket succeeds: its path names a live listener.
Answers == ctl # None /\ mode[ctl] \in {"bound", "serving"}

\* Requests reach d.
Serves(d) == ctl = d /\ mode[d] \in {"bound", "serving"}

\* A handoff message on s's socket whose descriptors s has not received yet.
Pending(s) == link[s] # None /\ link[s].state \in {"sent", "late"}

\* The message d has not given up on is the one s takes, or has taken.
LinkOf(d, s) ==
    /\ s # None
    /\ link[s] # None
    /\ link[s].from = d
    /\ link[s].state \in {"sent", "taken", "acked"}

\* The ack of s is on its way to d.
Acked(d) == LinkOf(d, to[d]) /\ link[to[d]].state = "acked"

\* A daemon may be started: alone, unless the environment races.
MayStart == "rivals" \in weather \/ \A d \in Daemon : mode[d] \notin Starting

\* What a receiver's end leaves of its message: an ack that was written can
\* still be read by the predecessor.
Remains(m) == IF m # None /\ m.state = "acked" THEN m ELSE None

\* The end of process d, with its exit code: its descriptors are closed, those
\* in messages it did not receive included; the socket files stay.
Dies(d) ==
    /\ mode' = [mode EXCEPT ![d] = "dead"]
    /\ table' = [table EXCEPT ![d] = {}]
    /\ link' = [link EXCEPT ![d] = Remains(@)]
    /\ hand' = [hand EXCEPT ![d] = "idle"]
    /\ signal' = [signal EXCEPT ![d] = FALSE]

-----------------------------------------------------------------------------
(* Starting a daemon *)

\* connect() of main.rs: a command found no daemon and starts one.
StartFresh(d) ==
    /\ mode[d] = "off"
    /\ MayStart
    /\ ~Answers
    /\ mode' = [mode EXCEPT ![d] = "checking"]
    /\ UNCHANGED <<weather, socketVars, pred, handVars, link, ptyVars>>

\* `muxd upgrade` starts a successor.
StartUpgrade(d) ==
    /\ mode[d] = "off"
    /\ MayStart
    /\ mode' = [mode EXCEPT ![d] = "rendezvous"]
    /\ UNCHANGED <<weather, socketVars, pred, handVars, link, ptyVars>>

\* bind_listener(): whatever is at the migration path is replaced.
Rendezvous(d) ==
    /\ mode[d] = "rendezvous"
    /\ mig' = d
    /\ mode' = [mode EXCEPT ![d] = "asking"]
    /\ UNCHANGED <<weather, ctl, pred, handVars, link, ptyVars>>

\* adopt_from_predecessor(): nobody owns the control socket; start empty.
NoPredecessor(d) ==
    /\ mode[d] = "asking"
    /\ ~Answers
    /\ mig' = None
    /\ link' = [link EXCEPT ![d] = None]
    /\ mode' = [mode EXCEPT ![d] = "checking"]
    /\ UNCHANGED <<weather, ctl, pred, handVars, ptyVars>>

\* ... or its owner is signalled.
AskPredecessor(d) ==
    /\ mode[d] = "asking"
    /\ Answers
    /\ mode[ctl] = "serving"
    /\ pred' = [pred EXCEPT ![d] = ctl]
    /\ signal' = [signal EXCEPT ![ctl] = TRUE]
    /\ mode' = [mode EXCEPT ![d] = "accepting"]
    /\ UNCHANGED <<weather, socketVars, hand, batch, to, link, ptyVars>>

\* ... which ends a process that has not installed its handler yet.
SignalKills(d) ==
    /\ mode[d] = "asking"
    /\ Answers
    /\ mode[ctl] = "bound"
    /\ pred' = [pred EXCEPT ![d] = ctl]
    /\ mode' = [mode EXCEPT ![d] = "accepting", ![ctl] = "dead"]
    /\ table' = [table EXCEPT ![ctl] = {}]
    /\ link' = [link EXCEPT ![ctl] = Remains(@)]
    /\ UNCHANGED <<weather, socketVars, handVars, vt, lease, wanted, read,
                   born>>

\* A message received; one its sender has given up on gets no answer.
Taken(m) == IF m.state = "sent" THEN "taken" ELSE "void"

\* Mutant of Accept: the ack is sent before, and whether or not, the ptys are
\* adopted.
AcceptAckFirst(d) ==
    /\ mode[d] = "accepting"
    /\ Pending(d)
    /\ link' = [link EXCEPT ![d].state = "acked"]
    /\ mode' = [mode EXCEPT ![d] = "waiting"]
    /\ mig' = None
    /\ UNCHANGED <<weather, ctl, pred, handVars, ptyVars>>

(***************************************************************************)
(* accept_handoff(): the message is received and the whole batch adopted   *)
(* (adopt_many), each pty with its read loop.  A predecessor that has      *)
(* given up does not take the batch back: it is adopted all the same.      *)
(***************************************************************************)
Accept(d) ==
    LET m == link[d] IN
    /\ mode[d] = "accepting"
    /\ Pending(d)
    /\ table' = [table EXCEPT ![d] = m.ptys]
    /\ vt' = [vt EXCEPT ![d] = m.vt]
    /\ lease' = [lease EXCEPT ![d] = m.lease]
    /\ link' = [link EXCEPT ![d].state = Taken(m)]
    /\ mode' = [mode EXCEPT ![d] = "adopted"]
    /\ UNCHANGED <<weather, socketVars, pred, handVars, wanted, read, born>>

\* Mutant of AckOf: the ack is never written.
AckOfNone(m) == "void"

\* The ack reaches a predecessor that still waits for it.
AckOf(m) == IF m.state = "taken" THEN "acked" ELSE m.state

\* "Only now, with every fd owned by a live read loop, is the predecessor free
\* to go": the ack is written, and the migration socket removed.
Ack(d) ==
    /\ mode[d] = "adopted"
    /\ link' = [link EXCEPT ![d] = [@ EXCEPT !.state = AckOf(link[d])]]
    /\ mode' = [mode EXCEPT ![d] = "waiting"]
    /\ mig' = None
    /\ UNCHANGED <<weather, ctl, pred, handVars, ptyVars>>

\* ... or it cannot be decoded or adopted, and the connection is dropped.
AcceptFails(d) ==
    /\ mode[d] = "accepting"
    /\ Pending(d)
    /\ link' = [link EXCEPT ![d].state = "void"]
    /\ mode' = [mode EXCEPT ![d] = "waiting"]
    /\ mig' = None
    /\ UNCHANGED <<weather, ctl, pred, handVars, ptyVars>>

\* The predecessor of d is still going to answer.
Expected(d) ==
    \/ Pending(d)
    \/ signal[pred[d]]
    \/ hand[pred[d]] = "collected"

\* Mutant of HandoffTimeout: the accept is not bounded.
HandoffTimeoutNever(d) == FALSE /\ UNCHANGED vars

\* HANDOFF_TIMEOUT passes.
HandoffTimeout(d) ==
    /\ mode[d] = "accepting"
    /\ "stall" \in weather \/ ~Expected(d)
    /\ link' = [link EXCEPT ![d] = None]
    /\ mode' = [mode EXCEPT ![d] = "waiting"]
    /\ mig' = None
    /\ UNCHANGED <<weather, ctl, pred, handVars, ptyVars>>

\* The predecessor has exited, or PREDECESSOR_EXIT_TIMEOUT passes: since it got
\* no ack, or, among deserters, before it has read the one it got.
Waited(d) ==
    /\ mode[d] = "waiting"
    /\ mode[pred[d]] = "dead" \/ "desert" \in weather \/ ~Acked(pred[d])
    /\ mode' = [mode EXCEPT ![d] = "checking"]
    /\ UNCHANGED <<weather, socketVars, pred, handVars, link, ptyVars>>

\* Mutant of BindCheck: the socket is taken whether or not somebody answers.
BindCheckSkipped(d) ==
    /\ mode[d] = "checking"
    /\ mode' = [mode EXCEPT ![d] = "binding"]
    /\ UNCHANGED <<weather, socketVars, pred, handVars, link, ptyVars>>

\* Mutant of BindCheck: a stale file at the path counts as a daemon.
BindCheckFile(d) ==
    /\ mode[d] = "checking"
    /\ ctl = None
    /\ mode' = [mode EXCEPT ![d] = "binding"]
    /\ UNCHANGED <<weather, socketVars, pred, handVars, link, ptyVars>>

\* bind(): nobody answers on the control socket...
BindCheck(d) ==
    /\ mode[d] = "checking"
    /\ ~Answers
    /\ mode' = [mode EXCEPT ![d] = "binding"]
    /\ UNCHANGED <<weather, socketVars, pred, handVars, link, ptyVars>>

\* ... or "muxd already running".
BindRefused(d) ==
    /\ mode[d] = "checking"
    /\ Answers
    /\ Dies(d)
    /\ UNCHANGED <<weather, socketVars, pred, batch, to, vt, lease, wanted,
                   read, born>>

\* The file at the path is removed, whoever put it there meanwhile...
BindUnlink(d) ==
    /\ mode[d] = "binding"
    /\ ctl' = None
    /\ mode' = [mode EXCEPT ![d] = "unlinked"]
    /\ UNCHANGED <<weather, mig, pred, handVars, link, ptyVars>>

\* ... and bound, or the address is in use again.
Bind(d) ==
    /\ mode[d] = "unlinked"
    /\ ctl = None
    /\ ctl' = d
    /\ mode' = [mode EXCEPT ![d] = "bound"]
    /\ UNCHANGED <<weather, mig, pred, handVars, link, ptyVars>>

BindInUse(d) ==
    /\ mode[d] = "unlinked"
    /\ ctl # None
    /\ Dies(d)
    /\ UNCHANGED <<weather, socketVars, pred, batch, to, vt, lease, wanted,
                   read, born>>

\* spawn_handoff_task(): from now on SIGUSR1 is handled.
HandlerInstalled(d) ==
    /\ mode[d] = "bound"
    /\ mode' = [mode EXCEPT ![d] = "serving"]
    /\ UNCHANGED <<weather, socketVars, pred, handVars, link, ptyVars>>

\* Nobody relies on d: it has not acked, and others have its shells and all the
\* output it has read.
Dispensable(d) ==
    /\ link[d] # None => link[d].state # "acked"
    /\ \A p \in table[d] : \E e \in Daemon \ {d} :
          p \in table[e] /\ vt[d][p] \subseteq vt[e][p]

\* A daemon that does not serve yet dies, wherever it is.
Crash(d) ==
    /\ mode[d] \in Starting
    /\ "desert" \in weather \/ Dispensable(d)
    /\ Dies(d)
    /\ UNCHANGED <<weather, socketVars, pred, batch, to, vt, lease, wanted,
                   read, born>>

-----------------------------------------------------------------------------
(* The predecessor *)

\* hand_off() on SIGUSR1: live_sessions().
Collect(d) ==
    /\ mode[d] = "serving"
    /\ signal[d]
    /\ hand[d] = "idle"
    /\ signal' = [signal EXCEPT ![d] = FALSE]
    /\ hand' = [hand EXCEPT ![d] = "collected"]
    /\ batch' = [batch EXCEPT ![d] = table[d]]
    /\ UNCHANGED <<weather, mode, socketVars, pred, to, link, ptyVars>>

\* Nobody listens at the migration path, or the message is not taken.
SendFails(d) ==
    /\ hand[d] = "collected"
    /\ hand' = [hand EXCEPT ![d] = "idle"]
    /\ UNCHANGED <<weather, mode, socketVars, pred, signal, batch, to, link,
                   ptyVars>>

\* Mutant of Payload: the deadlines are left behind.
PayloadNoLease(d) ==
    [from |-> d, ptys |-> batch[d], vt |-> vt[d], lease |-> {},
     state |-> "sent"]

\* MigratePayload, with the descriptors: the VTs and deadlines as they are now.
Payload(d) ==
    [from |-> d, ptys |-> batch[d], vt |-> vt[d],
     lease |-> lease[d] \cap batch[d], state |-> "sent"]

\* Connect, lock every VT of the batch, snapshot, and send.  A listener takes
\* one connection; a second one stays in its backlog.
Send(d) ==
    /\ hand[d] = "collected"
    /\ mig # None
    /\ mode[mig] \in {"asking", "accepting"}
    /\ hand' = [hand EXCEPT ![d] = "sent"]
    /\ to' = [to EXCEPT ![d] = mig]
    /\ link' = [link EXCEPT ![mig] = IF @ = None THEN Payload(d) ELSE @]
    /\ UNCHANGED <<weather, mode, socketVars, pred, signal, batch, ptyVars>>

\* The successor of d can still take the message d sent.
Answerable(d) ==
    /\ LinkOf(d, to[d])
    /\ mode[to[d]] \in {"asking", "accepting", "adopted"}

\* Mutant of GiveUp: await_ack has no timeout.
GiveUpNever(d) == FALSE /\ UNCHANGED vars

\* await_ack() fails: the connection is gone, or ACK_TIMEOUT passed.  The VT
\* locks are released and the daemon serves on.
GiveUp(d) ==
    /\ hand[d] = "sent"
    /\ ~Acked(d)
    /\ "stall" \in weather \/ ~Answerable(d)
    /\ hand' = [hand EXCEPT ![d] = "idle"]
    /\ link' = IF LinkOf(d, to[d])
                 THEN [link EXCEPT ![to[d]].state =
                          IF @ = "sent" THEN "late" ELSE "void"]
                 ELSE link
    /\ UNCHANGED <<weather, mode, socketVars, pred, signal, batch, to,
                   ptyVars>>

\* Mutant of Exit: the predecessor exits once the message is sent.
ExitOnSend(d) ==
    /\ hand[d] = "sent"
    /\ Dies(d)
    /\ UNCHANGED <<weather, socketVars, pred, batch, to, vt, lease, wanted,
                   read, born>>

\* The ack landed: exit(0).
Exit(d) ==
    /\ hand[d] = "sent"
    /\ Acked(d)
    /\ Dies(d)
    /\ UNCHANGED <<weather, socketVars, pred, batch, to, vt, lease, wanted,
                   read, born>>

-----------------------------------------------------------------------------
(* Requests and read loops *)

Admits(d) == Serves(d) /\ ("busy" \in weather \/ hand[d] = "idle")

Open(d, p) ==
    /\ Admits(d)
    /\ p \notin born
    /\ born' = born \cup {p}
    /\ table' = [table EXCEPT ![d] = @ \cup {p}]
    /\ UNCHANGED <<weather, mode, socketVars, pred, handVars, link, vt, lease,
                   wanted, read>>

Close(d, p) ==
    /\ Admits(d)
    /\ p \in table[d]
    /\ lease' = [lease EXCEPT ![d] = @ \cup {p}]
    /\ wanted' = wanted \cup {p}
    /\ UNCHANGED <<weather, mode, socketVars, pred, handVars, link, table, vt,
                   read, born>>

Reopen(d, p) ==
    /\ Admits(d)
    /\ p \in table[d]
    /\ lease' = [lease EXCEPT ![d] = @ \ {p}]
    /\ wanted' = wanted \ {p}
    /\ UNCHANGED <<weather, mode, socketVars, pred, handVars, link, table, vt,
                   read, born>>

\* Mutant of Frozen: the VT locks are released before the message is sent.
FrozenNever(d, p) == FALSE

\* hand_off() holds the terminal lock of p in d.
Frozen(d, p) == hand[d] = "sent" /\ p \in batch[d]

\* Mutant of Read: the whole buffer is fed, what an earlier read left in it too.
ReadWholeBuffer(d, p) ==
    /\ p \in table[d]
    /\ ~Frozen(d, p)
    /\ read[p] < MaxChunks
    /\ read' = [read EXCEPT ![p] = @ + 1]
    /\ vt' = [vt EXCEPT ![d][p] = @ \cup {read[p], read[p] + 1}]
    /\ UNCHANGED <<weather, mode, socketVars, pred, handVars, link, table,
                   lease, wanted, born>>

\* read_loop: a chunk is read and fed to d's VT under the terminal lock.
Read(d, p) ==
    /\ p \in table[d]
    /\ ~Frozen(d, p)
    /\ read[p] < MaxChunks
    /\ read' = [read EXCEPT ![p] = @ + 1]
    /\ vt' = [vt EXCEPT ![d][p] = @ \cup {read[p] + 1}]
    /\ UNCHANGED <<weather, mode, socketVars, pred, handVars, link, table,
                   lease, wanted, born>>

-----------------------------------------------------------------------------
Startup(d) ==
    \/ Rendezvous(d) \/ NoPredecessor(d) \/ AskPredecessor(d) \/ SignalKills(d)
    \/ Accept(d) \/ Ack(d) \/ AcceptFails(d) \/ HandoffTimeout(d) \/ Waited(d)
    \/ BindCheck(d) \/ BindRefused(d) \/ BindUnlink(d) \/ Bind(d)
    \/ BindInUse(d) \/ HandlerInstalled(d)

HandOff(d) == Collect(d) \/ SendFails(d) \/ Send(d) \/ GiveUp(d) \/ Exit(d)

Requests(d) == \E p \in Pty : Open(d, p) \/ Close(d, p) \/ Reopen(d, p)

Next == \E d \in Daemon :
    \/ StartFresh(d)
    \/ StartUpgrade(d)
    \/ Startup(d)
    \/ Crash(d)
    \/ HandOff(d)
    \/ Requests(d)
    \/ \E p \in Pty : Read(d, p)

Spec == Init /\ [][Next]_vars

\* Every step of a started daemon is taken in the end: its awaits are bounded
\* by timeouts and its calls return.
Fairness == \A d \in Daemon : WF_vars(Startup(d)) /\ WF_vars(HandOff(d))

FairSpec == Spec /\ Fairness

-----------------------------------------------------------------------------
(* Properties *)

\* Somebody holds the master of p.
Held(p) ==
    \/ \E d \in Daemon : p \in table[d]
    \/ \E s \in Daemon : Pending(s) /\ p \in link[s].ptys

\* "Replacing the binary never kills a shell" (migrate.rs): through upgrades
\* that fail, are refused, crash, stall or succeed, each shell that was started
\* has an owner, as long as nobody opens a terminal during the handoff, starts
\* a rival daemon or deserts.
NoShellLost == weather \subseteq {"stall"} => \A p \in born : Held(p)

\* Unless a process stalls or rivals start, the daemon that answers shows all
\* the output that was ever read: a handoff loses no byte, and a failed one
\* takes none from the predecessor.
Lossless ==
    weather \subseteq {"busy"} =>
        \A d \in Daemon : Serves(d) /\ hand[d] = "idle" =>
            \A p \in table[d] : vt[d][p] = 1..read[p]

\* "No read loop can consume a byte that is not in the snapshot" (migrate.rs):
\* until the predecessor gives up or exits, the message is its screen.
SnapshotIsCurrent ==
    \A d \in Daemon :
        hand[d] = "sent" /\ LinkOf(d, to[d]) =>
            \A p \in link[to[d]].ptys : link[to[d]].vt[p] = vt[d][p]

\* An ack is a promise kept: the predecessor may exit, every pty it counted on
\* is in the successor's table, unless that one has died behind its ack, as a
\* deserter or since a rival took the control socket before it.
AckMeansAdopted ==
    \A d \in Daemon :
        hand[d] = "sent" /\ Acked(d) =>
            \/ batch[d] \subseteq table[to[d]]
            \/ /\ weather \cap {"rivals", "desert"} # {}
               /\ mode[to[d]] = "dead"

\* "A handoff preserves the original expiry" (docs/closed-tabs.md): the daemon
\* that answers holds the leases its users armed, and no others, unless they
\* close or reopen during the handoff or start a rival daemon.
LeaseSurvives ==
    weather \subseteq {"stall"} =>
        \A d \in Daemon : Serves(d) =>
            \A p \in table[d] : p \in lease[d] <=> p \in wanted

\* "Err means it does not [have the ptys]: the caller keeps serving" (hand_off):
\* unless a process stalls or deserts or rivals start, a shell the answering
\* daemon holds has no second reader.
NoSecondReader ==
    weather \subseteq {"busy"} =>
        \A d, e \in Daemon :
            Serves(d) /\ hand[d] = "idle" /\ e # d => table[d] \cap table[e] = {}

\* Two daemons are never past their bind: "a double-spawn race resolves by
\* itself: the loser exits on `already running`" (main.rs:135).  What the code
\* does violates it: both find the path dead, and the second one's unlink takes
\* the socket the first one has bound.
OneServer ==
    \A d, e \in Daemon :
        {mode[d], mode[e]} \subseteq {"bound", "serving"} => d = e

\* What is handed over is complete, whatever the weather, and an ack is true.
HandoffIsExact == TypeOK /\ SnapshotIsCurrent /\ AckMeansAdopted

\* No handoff, failed, late or completed, takes a shell, its output or its
\* lease from its users, in the weathers each part names.
TerminalsSurvive == NoShellLost /\ Lossless /\ LeaseSurvives

(***************************************************************************)
(* The screen of p is the one a reader has who has missed nothing: in good *)
(* weather that is the answering daemon or, from the moment it adopts,     *)
(* the successor.  Other weathers are not mapped: what they break is said  *)
(* above.                                                                  *)
(***************************************************************************)
Good == weather = {}

Readers(p) == {d \in Daemon : Good /\ p \in table[d]}

Latest(p) ==
    {d \in Readers(p) : \A e \in Readers(p) : vt[e][p] \subseteq vt[d][p]}

Promise == INSTANCE Terminals WITH
    open   <- {p \in Pty : Readers(p) # {}},
    shown  <- [p \in Pty |-> UNION {vt[d][p] : d \in Latest(p)}],
    closed <- {p \in Pty : \E d \in Latest(p) : p \in lease[d]}

\* A chain of upgrades, crashed, refused, failed or completed, is invisible: the
\* terminals behave as those of one daemon that is never replaced.
Transparent == Promise!Spec

\* A stalled or dead successor freezes the predecessor's ptys only for a while.
FreezeEnds ==
    \A d \in Daemon : hand[d] = "sent" ~> hand[d] = "idle"

\* An upgrade ends: the successor serves, or it is gone.
SuccessorSettles ==
    \A d \in Daemon : mode[d] = "rendezvous" ~> mode[d] \in {"serving", "dead"}

\* The control socket is never dead for good: after each exit, refused bind,
\* failed or crashed upgrade, a daemon answers again, unless rivals take the
\* path from each other or a successor deserts.
ServiceResumes == weather \cap {"rivals", "desert"} = {} => []<>Answers

\* No upgrade hangs: the ptys thaw, the successor settles, and somebody serves.
UpgradeEnds == FreezeEnds /\ SuccessorSettles /\ ServiceResumes
=============================================================================
