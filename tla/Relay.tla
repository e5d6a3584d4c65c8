-------------------------------- MODULE Relay --------------------------------
(***************************************************************************)
(* mux-attach, the relay every pane runs (crates/mux-attach/src/main.rs):  *)
(* the first open, the pump, the reconnect loop, the two input threads and *)
(* the exec under another name, against a daemon that crashes, upgrades    *)
(* itself or is cut off, and a terminal that exits or is closed meanwhile. *)
(*                                                                         *)
(* The terminal is `shell`; shells are numbered by `inst` as they are      *)
(* spawned, so the number tells a survivor from a replacement.  `known` is *)
(* the shell the pane's user has reason to believe he looks at.  Time is   *)
(* counted in Ticks, up to the respawn window.                             *)
(***************************************************************************)
EXTENDS Naturals

CONSTANTS
    Size,          \* window sizes
    Program,       \* names of foreground programs
    RespawnAfter,  \* RESPAWN_AFTER, in ticks
    MaxFaults,     \* bound on crashes, upgrades and cuts
    MaxChanges,    \* bound on the changes of size and foreground program
    MaxShells      \* bound on the shells spawned

ASSUME RelayAssumption ==
    /\ RespawnAfter \in Nat \ {0}
    /\ MaxFaults \in Nat
    /\ MaxChanges \in Nat
    /\ MaxShells \in Nat \ {0}
    /\ Size # {}
    /\ Program # {}

VARIABLES
    args,     \* the relay's flags
    daemon,   \* "up", "down", or "handoff": a successor is starting
    age,      \* ticks since the handoff began
    shell,    \* the terminal of that name in the daemon: none, live, closed
    inst,     \* shells spawned so far
    program,  \* the terminal's foreground program
    dsize,    \* the terminal's size
    faults, changes,
    pane,     \* the pane is there
    size,     \* its window size
    pc,       \* where the main thread is
    first,    \* no session has been opened yet
    conn,     \* the socket: none, open, served (attached), dead
    carried,  \* the size in the request
    reply,    \* the answer on its way to the relay
    event,    \* events on their way to the relay
    waited,   \* ticks in this reconnect loop
    uplink,   \* the input threads have the socket
    stdin,    \* the stdin thread: none, open, eof (flag set), done
    last,     \* the size the winsize thread saw last
    alias,    \* the name the relay runs under
    known,
    silent,   \* a reply that said `created` was lost
    rival,    \* who spawned a daemon into a handoff: none, first, long, new
    why       \* why the relay exited

worldVars == <<daemon, age, shell, inst, program, dsize, faults, changes>>
paneVars  == <<pane, size>>
linkVars  == <<conn, carried, reply, event>>
inVars    == <<uplink, stdin, last>>
noteVars  == <<alias, known, silent, rival, why>>
vars == <<args, daemon, age, shell, inst, program, dsize, faults, changes,
          pane, size, pc, first, conn, carried, reply, event, waited, uplink,
          stdin, last, alias, known, silent, rival, why>>

Args == {a \in [expect : BOOLEAN, require : BOOLEAN, mirror : BOOLEAN] :
            a.require => a.expect}

TypeOK ==
    /\ args \in Args
    /\ daemon \in {"up", "down", "handoff"}
    /\ age \in 0..RespawnAfter
    /\ shell \in {"none", "live", "closed"}
    /\ inst \in 0..MaxShells
    /\ program \in Program
    /\ dsize \in Size
    /\ faults \in 0..MaxFaults
    /\ changes \in 0..MaxChanges
    /\ pane \in BOOLEAN
    /\ size \in Size
    /\ pc \in {"start", "asked", "opened", "pump", "exec", "wait", "dial",
               "done"}
    /\ first \in BOOLEAN
    /\ conn \in {"none", "open", "served", "dead"}
    /\ carried \in Size
    /\ reply \in {"none", "created", "attached", "refused"}
    /\ event \subseteq {"exit", "foreground"}
    /\ waited \in 0..RespawnAfter
    /\ uplink \in BOOLEAN
    /\ stdin \in {"none", "open", "eof", "done"}
    /\ last \in Size
    /\ alias \in Program
    /\ known \in 0..MaxShells
    /\ silent \in BOOLEAN
    /\ rival \in {"none", "first", "long", "new"}
    /\ why \in {"", "exit", "pane", "error", "clone"}

\* A pane that expects its terminal remembers shell 1, which may be closed or
\* gone; a fresh pane remembers none.  Sizes and programs are interchangeable:
\* the run starts with any one.
Init ==
    /\ args \in Args
    /\ daemon \in {"up", "down"}
    /\ age = 0
    /\ shell \in IF args.expect /\ daemon = "up" THEN {"none", "live", "closed"}
                                                 ELSE {"none"}
    /\ inst = IF args.expect THEN 1 ELSE 0
    /\ program = CHOOSE p \in Program : TRUE
    /\ size = CHOOSE s \in Size : TRUE
    /\ dsize = size
    /\ faults = 0
    /\ changes = 0
    /\ pane = TRUE
    /\ pc = "start"
    /\ first = TRUE
    /\ conn = "none"
    /\ carried = size
    /\ reply = "none"
    /\ event = {}
    /\ waited = 0
    /\ uplink = FALSE
    /\ stdin = "none"
    /\ last = size
    /\ alias = program
    /\ known = inst
    /\ silent = FALSE
    /\ rival = "none"
    /\ why = ""

-----------------------------------------------------------------------------
(* The world around the relay *)

Fault == faults < MaxFaults /\ faults' = faults + 1

\* The connection ends.  What the daemon wrote before it ended is still read.
Cut == conn' = IF conn = "none" THEN "none" ELSE "dead"

\* The daemon dies, and its terminals with it.
Crash ==
    /\ daemon = "up"
    /\ Fault
    /\ daemon' = "down"
    /\ shell' = "none"
    /\ Cut
    /\ UNCHANGED <<args, age, inst, program, dsize, changes, paneVars, pc,
                   first, carried, reply, event, waited, inVars, noteVars>>

\* muxd --upgrade: the terminals survive.
Upgrade ==
    /\ daemon = "up"
    /\ Fault
    /\ daemon' = "handoff"
    /\ age' = 0
    /\ Cut
    /\ UNCHANGED <<args, shell, inst, program, dsize, changes, paneVars, pc,
                   first, carried, reply, event, waited, inVars, noteVars>>

Upgraded ==
    /\ daemon = "handoff"
    /\ daemon' = "up"
    /\ UNCHANGED <<args, age, shell, inst, program, dsize, faults, changes,
                   paneVars, pc, first, linkVars, waited, inVars, noteVars>>

\* The link to the host is lost, the slot stolen, or the relay was too slow:
\* what was on its way is lost with it.
LinkLost ==
    /\ conn \in {"open", "served"}
    /\ Fault
    /\ conn' = "dead"
    /\ reply' = "none"
    /\ event' = {}
    /\ silent' = (silent \/ reply = "created")
    /\ UNCHANGED <<args, daemon, age, shell, inst, program, dsize, changes,
                   paneVars, pc, first, carried, waited, inVars, alias, known,
                   rival, why>>

\* The shell exits: whoever is attached is told, and the connection ends.
ShellEnds ==
    /\ daemon = "up"
    /\ shell # "none"
    /\ shell' = "none"
    /\ event' = IF conn = "served" THEN event \cup {"exit"} ELSE event
    /\ conn' = IF conn = "served" THEN "dead" ELSE conn
    /\ UNCHANGED <<args, daemon, age, inst, program, dsize, faults, changes,
                   paneVars, pc, first, carried, reply, waited, inVars,
                   noteVars>>

\* kill_session(), on a request or when a closed terminal's minute is over:
\* the attached client is dropped, and not told.
ShellKilled ==
    /\ daemon = "up"
    /\ shell # "none"
    /\ shell' = "none"
    /\ conn' = IF conn = "served" THEN "dead" ELSE conn
    /\ UNCHANGED <<args, daemon, age, inst, program, dsize, faults, changes,
                   paneVars, pc, first, carried, reply, event, waited, inVars,
                   noteVars>>

Close ==
    /\ daemon = "up"
    /\ shell = "live"
    /\ shell' = "closed"
    /\ UNCHANGED <<args, daemon, age, inst, program, dsize, faults, changes,
                   paneVars, pc, first, linkVars, waited, inVars, noteVars>>

Change == changes < MaxChanges /\ changes' = changes + 1

Resize ==
    /\ pane
    /\ Change
    /\ size' \in Size \ {size}
    /\ UNCHANGED <<args, daemon, age, shell, inst, program, dsize, faults,
                   pane, pc, first, linkVars, waited, inVars, noteVars>>

Foreground ==
    /\ shell = "live"
    /\ Change
    /\ program' \in Program \ {program}
    /\ event' = IF conn = "served" THEN event \cup {"foreground"} ELSE event
    /\ UNCHANGED <<args, daemon, age, shell, inst, dsize, faults, paneVars, pc,
                   first, conn, carried, reply, waited, inVars, noteVars>>

PaneGone ==
    /\ pane
    /\ pane' = FALSE
    /\ UNCHANGED <<args, worldVars, size, pc, first, linkVars, waited, inVars,
                   noteVars>>

\* Mutant of Tick: the window is never over.
TickOn ==
    /\ pc \in {"wait", "dial"}
    /\ waited <= RespawnAfter
    /\ waited' = waited + 1
    /\ UNCHANGED <<args, daemon, age, shell, inst, program, dsize, faults,
                   changes, paneVars, pc, first, linkVars, inVars, noteVars>>

\* A handoff is over within the respawn window.
Tick ==
    /\ daemon = "handoff" => age + 1 < RespawnAfter
    /\ age' = IF daemon = "handoff" THEN age + 1 ELSE age
    /\ waited' = IF pc \in {"wait", "dial"} /\ waited < RespawnAfter
                 THEN waited + 1 ELSE waited
    /\ <<age', waited'>> # <<age, waited>>
    /\ UNCHANGED <<args, daemon, shell, inst, program, dsize, faults, changes,
                   paneVars, pc, first, linkVars, inVars, noteVars>>

-----------------------------------------------------------------------------
(* Opening a session *)

\* Mutant of Mode: a reconnect opens as the first attempt did.
ModeReopens ==
    IF args.require THEN "reopen" ELSE "open"

\* Mutant of Mode: a relay that lost its daemon may create.
ModeCreates ==
    IF args.require /\ first THEN "reopen" ELSE "open"

\* open_session: how the terminal is asked for.
Mode ==
    CASE args.require /\ first -> "reopen"
      [] args.require /\ ~first -> "attach"
      [] OTHER -> "open"

\* The request goes out on a new connection.
Ask(s) ==
    /\ conn' = "open"
    /\ carried' = s
    /\ reply' = "none"
    /\ event' = {}
    /\ pc' = "asked"

\* connect() on a socket nobody answers spawns a daemon, which binds it.  A
\* successor that was about to cannot, and the terminals it holds are lost.
SpawnDaemon ==
    /\ daemon' = "up"
    /\ shell' = IF daemon = "handoff" THEN "none" ELSE shell
    /\ rival' = IF daemon # "handoff" \/ rival # "none" THEN rival
                ELSE IF first THEN "first"
                ELSE IF waited > age THEN "long" ELSE "new"

\* connect(): the socket, or a daemon of our own.
Connect(s) ==
    \/ /\ daemon = "up"
       /\ Ask(s)
       /\ UNCHANGED <<daemon, shell, rival>>
    \/ /\ daemon # "up"
       /\ SpawnDaemon
       /\ Ask(s)

\* The daemon did not come up within two seconds.
ConnectFails == daemon # "up"

\* run_attach; the size is read first of all.
Start ==
    /\ pc = "start"
    /\ Connect(last)
    /\ UNCHANGED <<args, age, inst, program, dsize, faults, changes, paneVars,
                   first, waited, inVars, alias, known, silent, why>>

\* The server's side of it.
Serve ==
    /\ pc = "asked"
    /\ conn = "open"
    /\ daemon = "up"
    /\ LET found == \/ shell = "live"
                    \/ shell = "closed" /\ Mode = "reopen"
           creates == shell = "none" /\ Mode = "open" /\ inst < MaxShells
       IN  /\ reply' = IF found THEN "attached"
                       ELSE IF creates THEN "created" ELSE "refused"
           /\ shell' = IF found \/ creates THEN "live" ELSE shell
           /\ inst' = IF creates THEN inst + 1 ELSE inst
           /\ dsize' = IF found \/ creates THEN carried ELSE dsize
           /\ conn' = IF found \/ creates THEN "served" ELSE "dead"
           /\ event' = IF found \/ creates THEN {"foreground"} ELSE {}
    /\ UNCHANGED <<args, daemon, age, program, faults, changes, paneVars, pc,
                   first, carried, waited, inVars, noteVars>>

\* The input threads, spawned once.
SpawnThreads == stdin' = IF stdin = "none" THEN "open" ELSE stdin

\* Mutant of OpenedOk: only the first open is told of a new shell.
OpenedOkFirst ==
    /\ pc = "asked"
    /\ reply \in {"attached", "created"}
    /\ pc' = "opened"
    /\ known' = IF first /\ (reply = "created" \/ ~args.expect)
                THEN inst ELSE known
    /\ SpawnThreads
    /\ reply' = "none"
    /\ UNCHANGED <<args, worldVars, paneVars, first, conn, carried, event,
                   waited, uplink, last, alias, silent, rival, why>>

\* A session is open: the notice says so when its shell is a new one.
OpenedOk ==
    /\ pc = "asked"
    /\ reply \in {"attached", "created"}
    /\ pc' = "opened"
    /\ known' = IF reply = "created" \/ (first /\ ~args.expect)
                THEN inst ELSE known
    /\ SpawnThreads
    /\ reply' = "none"
    /\ UNCHANGED <<args, worldVars, paneVars, first, conn, carried, event,
                   waited, uplink, last, alias, silent, rival, why>>

\* The daemon said no, or nothing.
NoSession == reply = "refused" \/ (conn = "dead" /\ reply = "none")

Exit(reason) ==
    /\ pc' = "done"
    /\ why' = reason

\* Mutant of OpenFailed: a refusal is final.
OpenFailedFinal ==
    /\ \/ pc = "asked" /\ NoSession
       \/ pc = "start" /\ ConnectFails
    /\ Exit("error")
    /\ conn' = "none"
    /\ reply' = "none"
    /\ UNCHANGED <<args, worldVars, paneVars, first, carried, event, waited,
                   inVars, alias, known, silent, rival>>

\* The error of a fresh pane's first attempt is the user's; any other is
\* waited out, in the reconnect loop.
OpenFailed ==
    /\ \/ pc = "asked" /\ NoSession
       \/ pc = "start" /\ ConnectFails
    /\ IF first /\ ~args.expect
       THEN Exit("error") /\ UNCHANGED stdin
       ELSE pc' = "wait" /\ SpawnThreads /\ UNCHANGED why
    /\ conn' = "none"
    /\ reply' = "none"
    /\ UNCHANGED <<args, worldVars, paneVars, first, carried, event, waited,
                   uplink, last, alias, known, silent, rival>>

-----------------------------------------------------------------------------
(* relay_loop and pump *)

\* The input threads get a duplicate of the socket...
SetUplink ==
    /\ pc = "opened"
    /\ pc' = "pump"
    /\ uplink' = TRUE
    /\ first' = FALSE
    /\ UNCHANGED <<args, worldVars, paneVars, linkVars, waited, stdin, last,
                   noteVars>>

\* ... unless the socket cannot be duplicated, which ends the relay.
UplinkFails ==
    /\ pc = "opened"
    /\ Exit("clone")
    /\ UNCHANGED <<args, worldVars, paneVars, first, linkVars, waited, inVars,
                   alias, known, silent, rival>>

\* The terminal's own exit.
PumpExit ==
    /\ pc = "pump"
    /\ "exit" \in event
    /\ Exit("exit")
    /\ uplink' = FALSE
    /\ UNCHANGED <<args, worldVars, paneVars, first, linkVars, waited, stdin,
                   last, alias, known, silent, rival>>

\* Output that the pane no longer takes.
PumpBroken ==
    /\ pc = "pump"
    /\ ~pane
    /\ conn = "served"
    /\ Exit("pane")
    /\ uplink' = FALSE
    /\ UNCHANGED <<args, worldVars, paneVars, first, linkVars, waited, stdin,
                   last, alias, known, silent, rival>>

\* The relay presents itself as the program, by an exec.
PumpForeground ==
    /\ pc = "pump"
    /\ "foreground" \in event
    /\ event' = event \ {"foreground"}
    /\ IF args.mirror /\ program # alias
       THEN pc' = "exec" /\ uplink' = FALSE
       ELSE UNCHANGED <<pc, uplink>>
    /\ UNCHANGED <<args, worldVars, paneVars, first, conn, carried, reply,
                   waited, stdin, last, noteVars>>

\* The new image has the socket and nothing else: it reads the size anew and
\* its own stdin thread meets the end of the input again.
Exec ==
    /\ pc = "exec"
    /\ pc' = "opened"
    /\ alias' = program
    /\ last' = size
    /\ stdin' = "open"
    /\ UNCHANGED <<args, worldVars, paneVars, first, linkVars, waited, uplink,
                   known, silent, rival, why>>

ExecFails ==
    /\ pc = "exec"
    /\ pc' = "opened"
    /\ UNCHANGED <<args, worldVars, paneVars, first, linkVars, waited, inVars,
                   noteVars>>

\* The connection ended without an exit: the daemon went away.
PumpGone ==
    /\ pc = "pump"
    /\ conn = "dead"
    /\ event = {}
    /\ uplink' = FALSE
    /\ conn' = "none"
    /\ IF stdin \in {"eof", "done"}
       THEN Exit("pane") /\ UNCHANGED waited
       ELSE pc' = "wait" /\ waited' = 0 /\ UNCHANGED why
    /\ UNCHANGED <<args, worldVars, paneVars, first, carried, reply, event,
                   stdin, last, alias, known, silent, rival>>

-----------------------------------------------------------------------------
(* reconnect *)

WaitEnds ==
    /\ pc = "wait"
    /\ stdin \in {"eof", "done"}
    /\ Exit("pane")
    /\ UNCHANGED <<args, worldVars, paneVars, first, linkVars, waited, inVars,
                   alias, known, silent, rival>>

WaitOn ==
    /\ pc = "wait"
    /\ stdin = "open"
    /\ pc' = "dial"
    /\ UNCHANGED <<args, worldVars, paneVars, first, linkVars, waited, inVars,
                   noteVars>>

\* Mutant of DialSpawn: the daemon is never replaced.
DialNoSpawn == FALSE /\ UNCHANGED vars

\* Mutant of DialSpawn: it is replaced at once.
DialSpawnsAtOnce ==
    /\ pc = "dial"
    /\ Connect(size)
    /\ UNCHANGED <<args, age, inst, program, dsize, faults, changes, paneVars,
                   first, waited, inVars, alias, known, silent, why>>

\* Past the window, connect(); the size is read on the way.
DialSpawn ==
    /\ pc = "dial"
    /\ waited = RespawnAfter
    /\ Connect(size)
    /\ UNCHANGED <<args, age, inst, program, dsize, faults, changes, paneVars,
                   first, waited, inVars, alias, known, silent, why>>

\* At first only a daemon that answers will do.
DialSocket ==
    /\ pc = "dial"
    /\ waited < RespawnAfter
    /\ IF daemon = "up" THEN Ask(size)
       ELSE pc' = "wait" /\ UNCHANGED linkVars
    /\ UNCHANGED <<args, worldVars, paneVars, first, waited, inVars, noteVars>>

-----------------------------------------------------------------------------
(* The input threads *)

\* The end of stdin: the pane died.
StdinEof ==
    /\ stdin = "open"
    /\ ~pane
    /\ pc # "done"
    /\ stdin' = "eof"
    /\ UNCHANGED <<args, worldVars, paneVars, pc, first, linkVars, waited,
                   uplink, last, noteVars>>

\* shutdown_write: the daemon sees the end and hangs up.
StdinShutdown ==
    /\ stdin = "eof"
    /\ pc # "done"
    /\ stdin' = "done"
    /\ conn' = IF uplink THEN "dead" ELSE conn
    /\ UNCHANGED <<args, worldVars, paneVars, pc, first, carried, reply, event,
                   waited, uplink, last, noteVars>>

\* The winsize thread tells the daemon of a new size, if there is an uplink.
Poll ==
    /\ stdin # "none"
    /\ pc # "done"
    /\ size # last
    /\ last' = size
    /\ dsize' = IF uplink /\ conn = "served" THEN size ELSE dsize
    /\ UNCHANGED <<args, daemon, age, shell, inst, program, faults, changes,
                   paneVars, pc, first, linkVars, waited, uplink, stdin,
                   noteVars>>

-----------------------------------------------------------------------------

World == \/ Crash \/ Upgrade \/ Upgraded \/ LinkLost \/ ShellEnds \/ ShellKilled
         \/ Close \/ Resize \/ Foreground \/ PaneGone \/ Tick

Main == \/ Start \/ OpenedOk \/ OpenFailed \/ SetUplink \/ PumpExit
        \/ PumpForeground \/ Exec \/ ExecFails \/ PumpGone
        \/ WaitEnds \/ WaitOn \/ DialSocket \/ DialSpawn

Next == \/ World \/ Main \/ Serve \/ UplinkFails \/ PumpBroken
        \/ StdinEof \/ StdinShutdown \/ Poll

Spec == Init /\ [][Next]_vars

\* The relay's threads run, time passes, a daemon that is up answers, and an
\* upgrade ends.
Fairness ==
    /\ WF_vars(Main)
    /\ WF_vars(Serve)
    /\ WF_vars(Upgraded)
    /\ WF_vars(Tick)
    /\ WF_vars(StdinEof)
    /\ WF_vars(StdinShutdown)
    /\ WF_vars(Poll)

FairSpec == Spec /\ Fairness

-----------------------------------------------------------------------------
(* Properties *)

\* --require-existing never creates a replacement, whatever is lost and
\* however often the relay reconnects.
NeverReplaced == args.require => inst = 1

\* A terminal that is closed while its relay reconnects stays closed: only the
\* relay's first opening reopens.
ClosedStaysClosed ==
    [][shell = "closed" /\ shell' = "live" => first]_vars

\* A relay that exits makes the app erase the pane, so it outlives every
\* outage: it exits for the terminal's own exit, for a pane that is gone, for
\* the first error of a fresh pane, or, before its threads have the socket,
\* when the process has no descriptor left for them.
ExitJustified ==
    pc = "done" =>
        \/ why = "exit" /\ "exit" \in event
        \/ why = "pane" /\ ~pane
        \/ why = "error" /\ first /\ ~args.expect
        \/ why = "clone" /\ ~uplink

\* A relay that lost its daemon to an upgrade does not spawn another into it,
\* where it would bind the socket with no ptys and fail the successor: the
\* window, counted from the loss, outlasts the handoff.  It is counted once per
\* reconnect, so this says nothing of an upgrade that begins when a relay has
\* been refused for longer.
SparesHandoff == rival # "new"

\* Every reply that says `created` and arrives is passed on: a pane that shows
\* a shell it was not told of has lost the reply that said so.
FreshShellIsSaid ==
    pc = "pump" /\ shell # "none" => known = inst \/ silent

\* "A lost shell never masquerades as a healthy restore" (mux-attach
\* main.rs:15).  What the code does violates it: when the reply that says
\* `created` is lost, the next attempt finds the new shell, and says nothing.
LostShellIsSaid ==
    pc = "pump" /\ shell # "none" => known = inst

\* The terminal a pane shows is the one it had, or the user knows better.
TerminalIsKept ==
    TypeOK /\ NeverReplaced /\ FreshShellIsSaid

\* Every outage ends: the relay is attached again, or over, time and again,
\* unless its terminal cannot be had (closed, gone and not to be replaced).
Reattaches ==
    []<>(\/ pc \in {"pump", "done"}
         \/ Mode = "open" /\ (shell = "closed" \/ inst = MaxShells)
         \/ Mode = "attach" /\ shell # "live"
         \/ Mode = "reopen" /\ shell = "none")
=============================================================================
