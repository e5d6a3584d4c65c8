------------------------------ MODULE ClientProofs -----------------------------
(***************************************************************************)
(* What the clients of a daemon rely on: the safety properties of module   *)
(* Relay for any sizes and programs, any respawn window and any number of  *)
(* faults, changes and shells; the invariant of module Observe for any     *)
(* terminals, watchers and observers and any size of the ring; that of     *)
(* module Peers for bytes of any base, any largest frame and message, any  *)
(* frames cut anywhere and any versions; and that of module Agents for any *)
(* screens, gates and rules.                                               *)
(***************************************************************************)
EXTENDS Relay, Observe, Peers, Agents, SequenceTheorems, FiniteSetTheorems,
        WellFoundedInduction, TLAPS

\* A handoff is over within the window, and a relay that has not opened a
\* session is still its first attempt.
InTime ==
    /\ daemon = "handoff" => age < RespawnAfter
    /\ pc = "start" => first

\* A reply is on its way only to a relay that asked, and only one that said
\* `created` separates the shell there is from the one the user knows.
Told ==
    /\ pc # "asked" => reply = "none" /\ conn # "open"
    /\ conn = "open" => reply = "none"
    /\ known = inst \/ silent \/ reply = "created"

\* Nothing follows an exit event, the input ends with the pane, and the threads
\* have the socket only while the main thread pumps.
Over ==
    /\ "exit" \in event => conn \notin {"open", "served"}
    /\ stdin \in {"eof", "done"} => ~pane
    /\ uplink => pc = "pump"

\* The inductive invariant.
IndInv == TypeOK /\ InTime /\ NeverReplaced /\ SparesHandoff /\ Told /\ Over
            /\ ExitJustified

\* How a session is asked for depends on what the pane requires, and on
\* whether one was ever open.
LEMMA ModeFits ==
  ASSUME TypeOK
  PROVE  /\ Mode = "reopen" <=> args.require /\ first
         /\ Mode = "open" <=> ~args.require
<1>1. args.require \in BOOLEAN /\ first \in BOOLEAN
  BY DEF TypeOK, Args
<1>2. CASE args.require /\ first
  BY <1>2 DEF Mode
<1>3. CASE args.require /\ ~first
  BY <1>3 DEF Mode
<1>4. CASE ~args.require
  BY <1>4 DEF Mode
<1> QED BY <1>1, <1>2, <1>3, <1>4

\* TypeOK, in four parts: the flags,
Flags == pane \in BOOLEAN /\ first \in BOOLEAN /\ uplink \in BOOLEAN
           /\ silent \in BOOLEAN

\* the daemon and its terminal,
WorldTypes ==
    /\ daemon \in {"up", "down", "handoff"}
    /\ age \in 0..RespawnAfter
    /\ shell \in {"none", "live", "closed"}
    /\ inst \in 0..MaxShells
    /\ program \in Program
    /\ dsize \in Size
    /\ size \in Size
    /\ carried \in Size
    /\ last \in Size
    /\ faults \in 0..MaxFaults
    /\ changes \in 0..MaxChanges

\* the connection,
LinkTypes ==
    /\ conn \in {"none", "open", "served", "dead"}
    /\ reply \in {"none", "created", "attached", "refused"}
    /\ event \subseteq {"exit", "foreground"}
    /\ rival \in {"none", "first", "long", "new"}

\* and the relay.
RelayTypes ==
    /\ pc \in {"start", "asked", "opened", "pump", "exec", "wait", "dial",
               "done"}
    /\ waited \in 0..RespawnAfter
    /\ stdin \in {"none", "open", "eof", "done"}
    /\ alias \in Program
    /\ known \in 0..MaxShells
    /\ why \in {"", "exit", "pane", "error", "clone"}

\* Flags stay flags.
LEMMA FlagsStep == TypeOK /\ [Next]_vars => Flags'
<1> SUFFICES ASSUME TypeOK, [Next]_vars PROVE Flags'
  OBVIOUS
<1> USE DEF TypeOK, Flags
<1>1. CASE Crash
  BY <1>1 DEF Crash, paneVars, inVars, noteVars, Fault, Cut, Flags
<1>2. CASE Upgrade
  BY <1>2 DEF Upgrade, paneVars, inVars, noteVars, Fault, Cut, Flags
<1>3. CASE Upgraded
  BY <1>3 DEF Upgraded, paneVars, linkVars, inVars, noteVars, Flags
<1>4. CASE LinkLost
  BY <1>4 DEF LinkLost, paneVars, inVars, Fault, Flags
<1>5. CASE ShellEnds \/ ShellKilled
  BY <1>5 DEF ShellEnds, ShellKilled, paneVars, inVars, noteVars, Flags
<1>6. CASE Close
  BY <1>6 DEF Close, paneVars, linkVars, inVars, noteVars, Flags
<1>7. CASE Resize
  BY <1>7 DEF Resize, linkVars, inVars, noteVars, Change, Flags
<1>8. CASE Foreground
  BY <1>8 DEF Foreground, paneVars, inVars, noteVars, Change, Flags
<1>9. CASE PaneGone
  BY <1>9 DEF PaneGone, worldVars, linkVars, inVars, noteVars, paneVars, Flags
<1>10. CASE Tick
  BY <1>10 DEF Tick, paneVars, linkVars, inVars, noteVars, Flags
<1>11. CASE Start
  BY <1>11 DEF Start, paneVars, inVars, Connect, Ask, SpawnDaemon, Flags
<1>12. CASE OpenedOk
  BY <1>12
  DEF OpenedOk, worldVars, paneVars, SpawnThreads, linkVars, inVars, noteVars,
      Flags
<1>13. CASE OpenFailed
  BY <1>13
  DEF OpenFailed, worldVars, paneVars, ConnectFails, SpawnThreads, NoSession,
      Exit, linkVars, inVars, noteVars, Flags
<1>14. CASE SetUplink \/ UplinkFails
  BY <1>14
  DEF SetUplink, UplinkFails, Exit, worldVars, paneVars, linkVars, noteVars,
      inVars, Flags
<1>15. CASE PumpExit
  BY <1>15
  DEF PumpExit, worldVars, paneVars, linkVars, Exit, inVars, noteVars, Flags
<1>16. CASE PumpForeground
  BY <1>16
  DEF PumpForeground, worldVars, paneVars, noteVars, linkVars, inVars, Flags
<1>17. CASE Exec
  BY <1>17 DEF Exec, worldVars, paneVars, linkVars, inVars, noteVars, Flags
<1>18. CASE ExecFails
  BY <1>18
  DEF ExecFails, worldVars, paneVars, linkVars, inVars, noteVars, Flags
<1>19. CASE PumpGone
  BY <1>19
  DEF PumpGone, worldVars, paneVars, Exit, linkVars, inVars, noteVars, Flags
<1>20. CASE WaitEnds
  BY <1>20
  DEF WaitEnds, worldVars, paneVars, linkVars, inVars, Exit, noteVars, Flags
<1>21. CASE WaitOn
  BY <1>21 DEF WaitOn, worldVars, paneVars, linkVars, inVars, noteVars, Flags
<1>22. CASE DialSocket
  BY <1>22
  DEF DialSocket, worldVars, paneVars, linkVars, inVars, noteVars, Ask, Flags
<1>23. CASE DialSpawn
  BY <1>23 DEF DialSpawn, paneVars, inVars, Connect, Ask, SpawnDaemon, Flags
<1>24. CASE Serve
  BY <1>24 DEF Serve, paneVars, inVars, noteVars, Flags
<1>25. CASE PumpBroken
  BY <1>25
  DEF PumpBroken, worldVars, paneVars, linkVars, Exit, inVars, noteVars, Flags
<1>26. CASE StdinEof
  BY <1>26
  DEF StdinEof, worldVars, paneVars, linkVars, noteVars, inVars, Flags
<1>27. CASE StdinShutdown
  BY <1>27
  DEF StdinShutdown, worldVars, paneVars, noteVars, linkVars, inVars, Flags
<1>28. CASE Poll
  BY <1>28 DEF Poll, paneVars, linkVars, noteVars, Flags
<1>29. CASE UNCHANGED vars
  BY <1>29 DEF vars, Flags
<1> QED
  BY <1>1, <1>2, <1>3, <1>4, <1>5, <1>6, <1>7, <1>8, <1>9, <1>10, <1>11,
     <1>12, <1>13, <1>14, <1>15, <1>16, <1>17, <1>18, <1>19, <1>20, <1>21,
     <1>22, <1>23, <1>24, <1>25, <1>26, <1>27, <1>28, <1>29
  DEF Next, World, Main

\* The daemon's types are kept.
LEMMA WorldStep == WorldTypes /\ [Next]_vars => WorldTypes'
<1> SUFFICES ASSUME WorldTypes, [Next]_vars PROVE WorldTypes'
  OBVIOUS
<1> USE RelayAssumption
<1>1. CASE Crash
  BY <1>1 DEF Crash, paneVars, inVars, noteVars, Fault, Cut, WorldTypes
<1>2. CASE Upgrade
  BY <1>2 DEF Upgrade, paneVars, inVars, noteVars, Fault, Cut, WorldTypes
<1>3. CASE Upgraded
  BY <1>3 DEF Upgraded, paneVars, linkVars, inVars, noteVars, WorldTypes
<1>4. CASE LinkLost
  BY <1>4 DEF LinkLost, paneVars, inVars, Fault, WorldTypes
<1>5. CASE ShellEnds \/ ShellKilled
  BY <1>5 DEF ShellEnds, ShellKilled, paneVars, inVars, noteVars, WorldTypes
<1>6. CASE Close
  BY <1>6 DEF Close, paneVars, linkVars, inVars, noteVars, WorldTypes
<1>7. CASE Resize
  BY <1>7 DEF Resize, linkVars, inVars, noteVars, Change, WorldTypes
<1>8. CASE Foreground
  BY <1>8 DEF Foreground, paneVars, inVars, noteVars, Change, WorldTypes
<1>9. CASE PaneGone
  BY <1>9
  DEF PaneGone, worldVars, linkVars, inVars, noteVars, paneVars, WorldTypes
<1>10. CASE Tick
  BY <1>10 DEF Tick, paneVars, linkVars, inVars, noteVars, WorldTypes
<1>11. CASE Start
  BY <1>11 DEF Start, paneVars, inVars, Connect, Ask, SpawnDaemon, WorldTypes
<1>12. CASE OpenedOk
  BY <1>12
  DEF OpenedOk, worldVars, paneVars, SpawnThreads, linkVars, inVars, noteVars,
      WorldTypes
<1>13. CASE OpenFailed
  BY <1>13
  DEF OpenFailed, worldVars, paneVars, ConnectFails, SpawnThreads, NoSession,
      Exit, linkVars, inVars, noteVars, WorldTypes
<1>14. CASE SetUplink \/ UplinkFails
  BY <1>14
  DEF SetUplink, UplinkFails, Exit, worldVars, paneVars, linkVars, noteVars,
      inVars, WorldTypes
<1>15. CASE PumpExit
  BY <1>15
  DEF PumpExit, worldVars, paneVars, linkVars, Exit, inVars, noteVars,
      WorldTypes
<1>16. CASE PumpForeground
  BY <1>16
  DEF PumpForeground, worldVars, paneVars, noteVars, linkVars, inVars,
      WorldTypes
<1>17. CASE Exec
  BY <1>17
  DEF Exec, worldVars, paneVars, linkVars, inVars, noteVars, WorldTypes
<1>18. CASE ExecFails
  BY <1>18
  DEF ExecFails, worldVars, paneVars, linkVars, inVars, noteVars, WorldTypes
<1>19. CASE PumpGone
  BY <1>19
  DEF PumpGone, worldVars, paneVars, Exit, linkVars, inVars, noteVars,
      WorldTypes
<1>20. CASE WaitEnds
  BY <1>20
  DEF WaitEnds, worldVars, paneVars, linkVars, inVars, Exit, noteVars,
      WorldTypes
<1>21. CASE WaitOn
  BY <1>21
  DEF WaitOn, worldVars, paneVars, linkVars, inVars, noteVars, WorldTypes
<1>22. CASE DialSocket
  BY <1>22
  DEF DialSocket, worldVars, paneVars, linkVars, inVars, noteVars, Ask,
      WorldTypes
<1>23. CASE DialSpawn
  BY <1>23
  DEF DialSpawn, paneVars, inVars, Connect, Ask, SpawnDaemon, WorldTypes
<1>24. CASE Serve
  BY <1>24 DEF Serve, paneVars, inVars, noteVars, WorldTypes
<1>25. CASE PumpBroken
  BY <1>25
  DEF PumpBroken, worldVars, paneVars, linkVars, Exit, inVars, noteVars,
      WorldTypes
<1>26. CASE StdinEof
  BY <1>26
  DEF StdinEof, worldVars, paneVars, linkVars, noteVars, inVars, WorldTypes
<1>27. CASE StdinShutdown
  BY <1>27
  DEF StdinShutdown, worldVars, paneVars, noteVars, linkVars, inVars,
      WorldTypes
<1>28. CASE Poll
  BY <1>28 DEF Poll, paneVars, linkVars, noteVars, WorldTypes
<1>29. CASE UNCHANGED vars
  BY <1>29 DEF vars, WorldTypes
<1> QED
  BY <1>1, <1>2, <1>3, <1>4, <1>5, <1>6, <1>7, <1>8, <1>9, <1>10, <1>11,
     <1>12, <1>13, <1>14, <1>15, <1>16, <1>17, <1>18, <1>19, <1>20, <1>21,
     <1>22, <1>23, <1>24, <1>25, <1>26, <1>27, <1>28, <1>29
  DEF Next, World, Main

\* The connection's types are kept.
LEMMA LinkStep == LinkTypes /\ [Next]_vars => LinkTypes'
<1> SUFFICES ASSUME LinkTypes, [Next]_vars PROVE LinkTypes'
  OBVIOUS
<1> USE RelayAssumption
<1>1. CASE Crash
  BY <1>1 DEF Crash, paneVars, inVars, noteVars, Fault, Cut, LinkTypes
<1>2. CASE Upgrade
  BY <1>2 DEF Upgrade, paneVars, inVars, noteVars, Fault, Cut, LinkTypes
<1>3. CASE Upgraded
  BY <1>3 DEF Upgraded, paneVars, linkVars, inVars, noteVars, LinkTypes
<1>4. CASE LinkLost
  BY <1>4 DEF LinkLost, paneVars, inVars, Fault, LinkTypes
<1>5. CASE ShellEnds \/ ShellKilled
  BY <1>5 DEF ShellEnds, ShellKilled, paneVars, inVars, noteVars, LinkTypes
<1>6. CASE Close
  BY <1>6 DEF Close, paneVars, linkVars, inVars, noteVars, LinkTypes
<1>7. CASE Resize
  BY <1>7 DEF Resize, linkVars, inVars, noteVars, Change, LinkTypes
<1>8. CASE Foreground
  BY <1>8 DEF Foreground, paneVars, inVars, noteVars, Change, LinkTypes
<1>9. CASE PaneGone
  BY <1>9
  DEF PaneGone, worldVars, linkVars, inVars, noteVars, paneVars, LinkTypes
<1>10. CASE Tick
  BY <1>10 DEF Tick, paneVars, linkVars, inVars, noteVars, LinkTypes
<1>11. CASE Start
  BY <1>11 DEF Start, paneVars, inVars, Connect, Ask, SpawnDaemon, LinkTypes
<1>12. CASE OpenedOk
  BY <1>12
  DEF OpenedOk, worldVars, paneVars, SpawnThreads, linkVars, inVars, noteVars,
      LinkTypes
<1>13. CASE OpenFailed
  BY <1>13
  DEF OpenFailed, worldVars, paneVars, ConnectFails, SpawnThreads, NoSession,
      Exit, linkVars, inVars, noteVars, LinkTypes
<1>14. CASE SetUplink \/ UplinkFails
  BY <1>14
  DEF SetUplink, UplinkFails, Exit, worldVars, paneVars, linkVars, noteVars,
      inVars, LinkTypes
<1>15. CASE PumpExit
  BY <1>15
  DEF PumpExit, worldVars, paneVars, linkVars, Exit, inVars, noteVars,
      LinkTypes
<1>16. CASE PumpForeground
  BY <1>16
  DEF PumpForeground, worldVars, paneVars, noteVars, linkVars, inVars,
      LinkTypes
<1>17. CASE Exec
  BY <1>17
  DEF Exec, worldVars, paneVars, linkVars, inVars, noteVars, LinkTypes
<1>18. CASE ExecFails
  BY <1>18
  DEF ExecFails, worldVars, paneVars, linkVars, inVars, noteVars, LinkTypes
<1>19. CASE PumpGone
  BY <1>19
  DEF PumpGone, worldVars, paneVars, Exit, linkVars, inVars, noteVars,
      LinkTypes
<1>20. CASE WaitEnds
  BY <1>20
  DEF WaitEnds, worldVars, paneVars, linkVars, inVars, Exit, noteVars,
      LinkTypes
<1>21. CASE WaitOn
  BY <1>21
  DEF WaitOn, worldVars, paneVars, linkVars, inVars, noteVars, LinkTypes
<1>22. CASE DialSocket
  BY <1>22
  DEF DialSocket, worldVars, paneVars, linkVars, inVars, noteVars, Ask,
      LinkTypes
<1>23. CASE DialSpawn
  BY <1>23
  DEF DialSpawn, paneVars, inVars, Connect, Ask, SpawnDaemon, LinkTypes
<1>24. CASE Serve
  BY <1>24 DEF Serve, paneVars, inVars, noteVars, LinkTypes
<1>25. CASE PumpBroken
  BY <1>25
  DEF PumpBroken, worldVars, paneVars, linkVars, Exit, inVars, noteVars,
      LinkTypes
<1>26. CASE StdinEof
  BY <1>26
  DEF StdinEof, worldVars, paneVars, linkVars, noteVars, inVars, LinkTypes
<1>27. CASE StdinShutdown
  BY <1>27
  DEF StdinShutdown, worldVars, paneVars, noteVars, linkVars, inVars,
      LinkTypes
<1>28. CASE Poll
  BY <1>28 DEF Poll, paneVars, linkVars, noteVars, LinkTypes
<1>29. CASE UNCHANGED vars
  BY <1>29 DEF vars, LinkTypes
<1> QED
  BY <1>1, <1>2, <1>3, <1>4, <1>5, <1>6, <1>7, <1>8, <1>9, <1>10, <1>11,
     <1>12, <1>13, <1>14, <1>15, <1>16, <1>17, <1>18, <1>19, <1>20, <1>21,
     <1>22, <1>23, <1>24, <1>25, <1>26, <1>27, <1>28, <1>29
  DEF Next, World, Main

\* The relay's types are kept.
LEMMA RelayStep == TypeOK /\ [Next]_vars => RelayTypes'
<1> SUFFICES ASSUME TypeOK, [Next]_vars PROVE RelayTypes'
  OBVIOUS
<1> USE RelayAssumption
<1>a. RelayTypes /\ program \in Program /\ inst \in 0..MaxShells
  BY DEF TypeOK, RelayTypes
<1>1. CASE Crash
  BY <1>1, <1>a DEF Crash, paneVars, inVars, noteVars, Fault, Cut, RelayTypes
<1>2. CASE Upgrade
  BY <1>2, <1>a
  DEF Upgrade, paneVars, inVars, noteVars, Fault, Cut, RelayTypes
<1>3. CASE Upgraded
  BY <1>3, <1>a DEF Upgraded, paneVars, linkVars, inVars, noteVars, RelayTypes
<1>4. CASE LinkLost
  BY <1>4, <1>a DEF LinkLost, paneVars, inVars, Fault, RelayTypes
<1>5. CASE ShellEnds \/ ShellKilled
  BY <1>5, <1>a
  DEF ShellEnds, ShellKilled, paneVars, inVars, noteVars, RelayTypes
<1>6. CASE Close
  BY <1>6, <1>a DEF Close, paneVars, linkVars, inVars, noteVars, RelayTypes
<1>7. CASE Resize
  BY <1>7, <1>a DEF Resize, linkVars, inVars, noteVars, Change, RelayTypes
<1>8. CASE Foreground
  BY <1>8, <1>a DEF Foreground, paneVars, inVars, noteVars, Change, RelayTypes
<1>9. CASE PaneGone
  BY <1>9, <1>a
  DEF PaneGone, worldVars, linkVars, inVars, noteVars, paneVars, RelayTypes
<1>10. CASE Tick
  <2>1. waited' \in 0..RespawnAfter
    <3>1. \/ waited' = waited
          \/ waited < RespawnAfter /\ waited' = waited + 1
      BY <1>10 DEF Tick
    <3>2. waited \in 0..RespawnAfter /\ RespawnAfter \in Nat
      BY <1>a DEF RelayTypes
    <3> QED BY <3>1, <3>2
  <2> QED
    BY <1>10, <1>a, <2>1 DEF Tick, inVars, noteVars, RelayTypes
<1>11. CASE Start
  BY <1>11, <1>a
  DEF Start, paneVars, inVars, Connect, Ask, SpawnDaemon, RelayTypes
<1>12. CASE OpenedOk
  BY <1>12, <1>a
  DEF OpenedOk, worldVars, paneVars, SpawnThreads, linkVars, inVars, noteVars,
      RelayTypes
<1>13. CASE OpenFailed
  BY <1>13, <1>a
  DEF OpenFailed, worldVars, paneVars, ConnectFails, SpawnThreads, NoSession,
      Exit, linkVars, inVars, noteVars, RelayTypes
<1>14. CASE SetUplink \/ UplinkFails
  BY <1>14, <1>a
  DEF SetUplink, UplinkFails, Exit, worldVars, paneVars, linkVars, noteVars,
      inVars, RelayTypes
<1>15. CASE PumpExit
  BY <1>15, <1>a
  DEF PumpExit, worldVars, paneVars, linkVars, Exit, inVars, noteVars,
      RelayTypes
<1>16. CASE PumpForeground
  BY <1>16, <1>a
  DEF PumpForeground, worldVars, paneVars, noteVars, linkVars, inVars,
      RelayTypes
<1>17. CASE Exec
  BY <1>17, <1>a
  DEF Exec, worldVars, paneVars, linkVars, inVars, noteVars, RelayTypes
<1>18. CASE ExecFails
  BY <1>18, <1>a
  DEF ExecFails, worldVars, paneVars, linkVars, inVars, noteVars, RelayTypes
<1>19. CASE PumpGone
  <2>1. UNCHANGED <<stdin, alias, known>> /\ waited' \in {waited, 0}
    BY <1>19 DEF PumpGone, Exit
  <2>2. pc' \in {"done", "wait"} /\ why' \in {why, "pane"}
    BY <1>19 DEF PumpGone, Exit
  <2>3. waited' \in 0..RespawnAfter
    <3>1. waited \in 0..RespawnAfter /\ RespawnAfter \in Nat
      BY <1>a DEF RelayTypes
    <3> QED BY <2>1, <3>1
  <2> QED BY <1>a, <2>1, <2>2, <2>3 DEF RelayTypes
<1>20. CASE WaitEnds
  BY <1>20, <1>a
  DEF WaitEnds, worldVars, paneVars, linkVars, inVars, Exit, noteVars,
      RelayTypes
<1>21. CASE WaitOn
  BY <1>21, <1>a
  DEF WaitOn, worldVars, paneVars, linkVars, inVars, noteVars, RelayTypes
<1>22. CASE DialSocket
  BY <1>22, <1>a
  DEF DialSocket, worldVars, paneVars, linkVars, inVars, noteVars, Ask,
      RelayTypes
<1>23. CASE DialSpawn
  BY <1>23, <1>a
  DEF DialSpawn, paneVars, inVars, Connect, Ask, SpawnDaemon, RelayTypes
<1>24. CASE Serve
  BY <1>24, <1>a DEF Serve, paneVars, inVars, noteVars, RelayTypes
<1>25. CASE PumpBroken
  BY <1>25, <1>a
  DEF PumpBroken, worldVars, paneVars, linkVars, Exit, inVars, noteVars,
      RelayTypes
<1>26. CASE StdinEof
  BY <1>26, <1>a
  DEF StdinEof, worldVars, paneVars, linkVars, noteVars, inVars, RelayTypes
<1>27. CASE StdinShutdown
  BY <1>27, <1>a
  DEF StdinShutdown, worldVars, paneVars, noteVars, linkVars, inVars,
      RelayTypes
<1>28. CASE Poll
  BY <1>28, <1>a DEF Poll, paneVars, linkVars, noteVars, RelayTypes
<1>29. CASE UNCHANGED vars
  BY <1>29, <1>a DEF vars, RelayTypes
<1> QED
  BY <1>1, <1>2, <1>3, <1>4, <1>5, <1>6, <1>7, <1>8, <1>9, <1>10, <1>11,
     <1>12, <1>13, <1>14, <1>15, <1>16, <1>17, <1>18, <1>19, <1>20, <1>21,
     <1>22, <1>23, <1>24, <1>25, <1>26, <1>27, <1>28, <1>29
  DEF Next, World, Main

\* The respawn window outlasts a handoff.
LEMMA InTimeStep == IndInv /\ [Next]_vars => InTime'
<1> SUFFICES ASSUME IndInv, [Next]_vars PROVE InTime'
  OBVIOUS
<1> USE RelayAssumption DEF IndInv
<1>1. CASE \/ (Crash \/ Upgraded \/ LinkLost \/ ShellEnds \/ ShellKilled \/
               Close \/ Resize \/ Foreground \/ PaneGone \/ OpenedOk \/
               OpenFailed \/ SetUplink \/ UplinkFails \/ PumpExit \/
               PumpForeground \/ Exec \/ ExecFails \/ PumpGone \/ WaitEnds \/
               WaitOn \/ DialSocket \/ Serve \/ PumpBroken \/ StdinEof \/
               StdinShutdown \/ Poll)
           \/ UNCHANGED vars
  BY <1>1
  DEF Crash, Upgraded, LinkLost, ShellEnds, ShellKilled, Close, Resize,
      Foreground, PaneGone, OpenedOk, OpenFailed, SetUplink, UplinkFails,
      PumpExit, PumpForeground, Exec, ExecFails, PumpGone, WaitEnds, WaitOn,
      DialSocket, Serve, PumpBroken, StdinEof, StdinShutdown, Poll, paneVars,
      inVars, noteVars, Fault, Cut, linkVars, Change, worldVars, SpawnThreads,
      ConnectFails, NoSession, Exit, Ask, vars, InTime
<1>2. CASE Upgrade
  BY <1>2 DEF Upgrade, paneVars, inVars, noteVars, Fault, Cut, InTime
<1>3. CASE Tick
  BY <1>3 DEF Tick, paneVars, linkVars, inVars, noteVars, InTime, TypeOK
<1>4. CASE Start
  BY <1>4 DEF Start, paneVars, inVars, Connect, Ask, SpawnDaemon, InTime
<1>5. CASE DialSpawn
  BY <1>5 DEF DialSpawn, paneVars, inVars, Connect, Ask, SpawnDaemon, InTime
<1> QED
  BY <1>1, <1>2, <1>3, <1>4, <1>5 DEF Next, World, Main

\* Only a request that may open creates.
LEMMA ReplacedStep == IndInv /\ [Next]_vars => NeverReplaced'
<1> SUFFICES ASSUME IndInv, [Next]_vars PROVE NeverReplaced'
  OBVIOUS
<1> USE RelayAssumption DEF IndInv
<1>1. CASE \/ (Crash \/ Upgrade \/ Upgraded \/ LinkLost \/ ShellEnds \/
               ShellKilled \/ Close \/ Resize \/ Foreground \/ PaneGone \/
               Tick \/ Start \/ OpenedOk \/ OpenFailed \/ SetUplink \/
               UplinkFails \/ PumpExit \/ PumpForeground \/ Exec \/ ExecFails \/
               PumpGone \/ WaitEnds \/ WaitOn \/ DialSocket \/ DialSpawn \/
               PumpBroken \/ StdinEof \/ StdinShutdown \/ Poll)
           \/ UNCHANGED vars
  BY <1>1
  DEF Crash, Upgrade, Upgraded, LinkLost, ShellEnds, ShellKilled, Close,
      Resize, Foreground, PaneGone, Tick, Start, OpenedOk, OpenFailed,
      SetUplink, UplinkFails, PumpExit, PumpForeground, Exec, ExecFails,
      PumpGone, WaitEnds, WaitOn, DialSocket, DialSpawn, PumpBroken, StdinEof,
      StdinShutdown, Poll, paneVars, inVars, noteVars, Fault, Cut, linkVars,
      Change, worldVars, Connect, SpawnThreads, ConnectFails, NoSession, Exit,
      Ask, SpawnDaemon, vars, NeverReplaced
<1>2. CASE Serve
  BY <1>2, ModeFits DEF Serve, paneVars, inVars, noteVars, NeverReplaced
<1> QED
  BY <1>1, <1>2 DEF Next, World, Main

\* Only a first attempt, or one that waited for longer than the handoff takes,
\* spawns into it.
LEMMA RivalStep == IndInv /\ [Next]_vars => SparesHandoff'
<1> SUFFICES ASSUME IndInv, [Next]_vars PROVE SparesHandoff'
  OBVIOUS
<1> USE RelayAssumption DEF IndInv
<1>1. CASE \/ (Crash \/ Upgrade \/ Upgraded \/ LinkLost \/ ShellEnds \/
               ShellKilled \/ Close \/ Resize \/ Foreground \/ PaneGone \/
               Tick \/ OpenedOk \/ OpenFailed \/ SetUplink \/ UplinkFails \/
               PumpExit \/ PumpForeground \/ Exec \/ ExecFails \/ PumpGone \/
               WaitEnds \/ WaitOn \/ DialSocket \/ Serve \/ PumpBroken \/
               StdinEof \/ StdinShutdown \/ Poll)
           \/ UNCHANGED vars
  BY <1>1
  DEF Crash, Upgrade, Upgraded, LinkLost, ShellEnds, ShellKilled, Close,
      Resize, Foreground, PaneGone, Tick, OpenedOk, OpenFailed, SetUplink,
      UplinkFails, PumpExit, PumpForeground, Exec, ExecFails, PumpGone,
      WaitEnds, WaitOn, DialSocket, Serve, PumpBroken, StdinEof, StdinShutdown,
      Poll, paneVars, inVars, noteVars, Fault, Cut, linkVars, Change,
      worldVars, SpawnThreads, ConnectFails, NoSession, Exit, Ask, vars,
      SparesHandoff
<1>2. CASE Start
  BY <1>2
  DEF Start, paneVars, inVars, Connect, Ask, SpawnDaemon, SparesHandoff,
      InTime
<1>3. CASE DialSpawn
  BY <1>3
  DEF DialSpawn, paneVars, inVars, Connect, Ask, SpawnDaemon, SparesHandoff,
      InTime, TypeOK
<1> QED
  BY <1>1, <1>2, <1>3 DEF Next, World, Main

\* A new shell is said before anything else is.
LEMMA ToldStep == IndInv /\ [Next]_vars => Told'
<1> SUFFICES ASSUME IndInv, [Next]_vars PROVE Told'
  OBVIOUS
<1> USE RelayAssumption DEF IndInv
<1>1. CASE Crash
  BY <1>1 DEF Crash, paneVars, inVars, noteVars, Fault, Cut, Told
<1>2. CASE Upgrade
  BY <1>2 DEF Upgrade, paneVars, inVars, noteVars, Fault, Cut, Told
<1>3. CASE \/ (Upgraded \/ ShellEnds \/ ShellKilled \/ Close \/ Resize \/
               Foreground \/ PaneGone \/ Tick)
           \/ UNCHANGED vars
  BY <1>3
  DEF Upgraded, ShellEnds, ShellKilled, Close, Resize, Foreground, PaneGone,
      Tick, paneVars, linkVars, inVars, noteVars, Change, worldVars, vars,
      Told
<1>4. CASE LinkLost
  BY <1>4 DEF LinkLost, paneVars, inVars, Fault, Told
<1>5. CASE Start
  BY <1>5 DEF Start, paneVars, inVars, Connect, Ask, SpawnDaemon, Told
<1>6. CASE OpenedOk
  BY <1>6
  DEF OpenedOk, worldVars, paneVars, SpawnThreads, linkVars, inVars, noteVars,
      Told
<1>7. CASE OpenFailed
  BY <1>7
  DEF OpenFailed, worldVars, paneVars, ConnectFails, SpawnThreads, NoSession,
      Exit, linkVars, inVars, noteVars, Told
<1>8. CASE SetUplink \/ UplinkFails
  BY <1>8
  DEF SetUplink, UplinkFails, Exit, worldVars, paneVars, linkVars, noteVars,
      inVars, Told
<1>9. CASE PumpExit
  BY <1>9
  DEF PumpExit, worldVars, paneVars, linkVars, Exit, inVars, noteVars, Told
<1>10. CASE PumpForeground
  BY <1>10
  DEF PumpForeground, worldVars, paneVars, noteVars, linkVars, inVars, Told
<1>11. CASE Exec
  BY <1>11 DEF Exec, worldVars, paneVars, linkVars, inVars, noteVars, Told
<1>12. CASE ExecFails
  BY <1>12
  DEF ExecFails, worldVars, paneVars, linkVars, inVars, noteVars, Told
<1>13. CASE PumpGone
  BY <1>13
  DEF PumpGone, worldVars, paneVars, Exit, linkVars, inVars, noteVars, Told
<1>14. CASE WaitEnds
  BY <1>14
  DEF WaitEnds, worldVars, paneVars, linkVars, inVars, Exit, noteVars, Told
<1>15. CASE WaitOn
  BY <1>15 DEF WaitOn, worldVars, paneVars, linkVars, inVars, noteVars, Told
<1>16. CASE DialSocket
  BY <1>16
  DEF DialSocket, worldVars, paneVars, linkVars, inVars, noteVars, Ask, Told
<1>17. CASE DialSpawn
  BY <1>17 DEF DialSpawn, paneVars, inVars, Connect, Ask, SpawnDaemon, Told
<1>18. CASE Serve
  BY <1>18 DEF Serve, paneVars, inVars, noteVars, Told
<1>19. CASE PumpBroken
  BY <1>19
  DEF PumpBroken, worldVars, paneVars, linkVars, Exit, inVars, noteVars, Told
<1>20. CASE StdinEof
  BY <1>20 DEF StdinEof, worldVars, paneVars, linkVars, noteVars, inVars, Told
<1>21. CASE StdinShutdown
  BY <1>21
  DEF StdinShutdown, worldVars, paneVars, noteVars, linkVars, inVars, Told
<1>22. CASE Poll
  BY <1>22 DEF Poll, paneVars, linkVars, noteVars, Told
<1> QED
  BY <1>1, <1>2, <1>3, <1>4, <1>5, <1>6, <1>7, <1>8, <1>9, <1>10, <1>11,
     <1>12, <1>13, <1>14, <1>15, <1>16, <1>17, <1>18, <1>19, <1>20, <1>21,
     <1>22
  DEF Next, World, Main

\* Exit events and the end of the input are final.
LEMMA OverStep == IndInv /\ [Next]_vars => Over'
<1> SUFFICES ASSUME IndInv, [Next]_vars PROVE Over'
  OBVIOUS
<1> USE RelayAssumption DEF IndInv
<1>1. CASE Crash
  BY <1>1 DEF Crash, paneVars, inVars, noteVars, Fault, Cut, Over
<1>2. CASE Upgrade
  BY <1>2 DEF Upgrade, paneVars, inVars, noteVars, Fault, Cut, Over
<1>3. CASE Upgraded
  BY <1>3 DEF Upgraded, paneVars, linkVars, inVars, noteVars, Over
<1>4. CASE LinkLost
  BY <1>4 DEF LinkLost, paneVars, inVars, Fault, Over
<1>5. CASE ShellEnds \/ ShellKilled
  BY <1>5 DEF ShellEnds, ShellKilled, paneVars, inVars, noteVars, Over
<1>6. CASE Close
  BY <1>6 DEF Close, paneVars, linkVars, inVars, noteVars, Over
<1>7. CASE Resize
  BY <1>7 DEF Resize, linkVars, inVars, noteVars, Change, Over
<1>8. CASE Foreground
  BY <1>8 DEF Foreground, paneVars, inVars, noteVars, Change, Over
<1>9. CASE PaneGone
  BY <1>9 DEF PaneGone, worldVars, linkVars, inVars, noteVars, paneVars, Over
<1>10. CASE Tick
  BY <1>10 DEF Tick, paneVars, linkVars, inVars, noteVars, Over
<1>11. CASE Start
  BY <1>11 DEF Start, paneVars, inVars, Connect, Ask, SpawnDaemon, Over
<1>12. CASE OpenedOk
  BY <1>12
  DEF OpenedOk, worldVars, paneVars, SpawnThreads, linkVars, inVars, noteVars,
      Over
<1>13. CASE OpenFailed
  BY <1>13
  DEF OpenFailed, worldVars, paneVars, ConnectFails, SpawnThreads, NoSession,
      Exit, linkVars, inVars, noteVars, Over
<1>14. CASE SetUplink \/ UplinkFails
  BY <1>14
  DEF SetUplink, UplinkFails, Exit, worldVars, paneVars, linkVars, noteVars,
      inVars, Over
<1>15. CASE PumpExit
  BY <1>15
  DEF PumpExit, worldVars, paneVars, linkVars, Exit, inVars, noteVars, Over
<1>16. CASE PumpForeground
  BY <1>16
  DEF PumpForeground, worldVars, paneVars, noteVars, linkVars, inVars, Over
<1>17. CASE Exec
  BY <1>17 DEF Exec, worldVars, paneVars, linkVars, inVars, noteVars, Over
<1>18. CASE ExecFails
  BY <1>18
  DEF ExecFails, worldVars, paneVars, linkVars, inVars, noteVars, Over
<1>19. CASE PumpGone
  BY <1>19
  DEF PumpGone, worldVars, paneVars, Exit, linkVars, inVars, noteVars, Over
<1>20. CASE WaitEnds
  BY <1>20
  DEF WaitEnds, worldVars, paneVars, linkVars, inVars, Exit, noteVars, Over
<1>21. CASE WaitOn
  BY <1>21 DEF WaitOn, worldVars, paneVars, linkVars, inVars, noteVars, Over
<1>22. CASE DialSocket
  BY <1>22
  DEF DialSocket, worldVars, paneVars, linkVars, inVars, noteVars, Ask, Over
<1>23. CASE DialSpawn
  BY <1>23 DEF DialSpawn, paneVars, inVars, Connect, Ask, SpawnDaemon, Over
<1>24. CASE Serve
  BY <1>24 DEF Serve, paneVars, inVars, noteVars, Over
<1>25. CASE PumpBroken
  BY <1>25
  DEF PumpBroken, worldVars, paneVars, linkVars, Exit, inVars, noteVars, Over
<1>26. CASE StdinEof
  BY <1>26 DEF StdinEof, worldVars, paneVars, linkVars, noteVars, inVars, Over
<1>27. CASE StdinShutdown
  BY <1>27
  DEF StdinShutdown, worldVars, paneVars, noteVars, linkVars, inVars, Over
<1>28. CASE Poll
  BY <1>28 DEF Poll, paneVars, linkVars, noteVars, Over
<1>29. CASE UNCHANGED vars
  BY <1>29 DEF vars, Over
<1> QED
  BY <1>1, <1>2, <1>3, <1>4, <1>5, <1>6, <1>7, <1>8, <1>9, <1>10, <1>11,
     <1>12, <1>13, <1>14, <1>15, <1>16, <1>17, <1>18, <1>19, <1>20, <1>21,
     <1>22, <1>23, <1>24, <1>25, <1>26, <1>27, <1>28, <1>29
  DEF Next, World, Main

\* No exit without a reason that lasts.
LEMMA ExitStep == IndInv /\ [Next]_vars => ExitJustified'
<1> SUFFICES ASSUME IndInv, [Next]_vars PROVE ExitJustified'
  OBVIOUS
<1> USE RelayAssumption DEF IndInv
<1>1. CASE Crash
  BY <1>1
  DEF Crash, paneVars, inVars, noteVars, Fault, Cut, ExitJustified, Over
<1>2. CASE Upgrade
  BY <1>2
  DEF Upgrade, paneVars, inVars, noteVars, Fault, Cut, ExitJustified, Over
<1>3. CASE Upgraded
  BY <1>3
  DEF Upgraded, paneVars, linkVars, inVars, noteVars, ExitJustified, Over
<1>4. CASE LinkLost
  BY <1>4 DEF LinkLost, paneVars, inVars, Fault, ExitJustified, Over
<1>5. CASE ShellEnds \/ ShellKilled
  BY <1>5
  DEF ShellEnds, ShellKilled, paneVars, inVars, noteVars, ExitJustified, Over
<1>6. CASE Close
  BY <1>6 DEF Close, paneVars, linkVars, inVars, noteVars, ExitJustified, Over
<1>7. CASE Resize
  BY <1>7 DEF Resize, linkVars, inVars, noteVars, Change, ExitJustified, Over
<1>8. CASE Foreground
  BY <1>8
  DEF Foreground, paneVars, inVars, noteVars, Change, ExitJustified, Over
<1>9. CASE PaneGone
  BY <1>9
  DEF PaneGone, worldVars, linkVars, inVars, noteVars, paneVars,
      ExitJustified, Over
<1>10. CASE Tick
  BY <1>10 DEF Tick, paneVars, linkVars, inVars, noteVars, ExitJustified, Over
<1>11. CASE Start
  BY <1>11
  DEF Start, paneVars, inVars, Connect, Ask, SpawnDaemon, ExitJustified, Over
<1>12. CASE OpenedOk
  BY <1>12
  DEF OpenedOk, worldVars, paneVars, SpawnThreads, linkVars, inVars, noteVars,
      ExitJustified, Over
<1>13. CASE OpenFailed
  BY <1>13
  DEF OpenFailed, worldVars, paneVars, ConnectFails, SpawnThreads, NoSession,
      Exit, linkVars, inVars, noteVars, ExitJustified, Over
<1>14. CASE SetUplink \/ UplinkFails
  BY <1>14
  DEF SetUplink, UplinkFails, Exit, worldVars, paneVars, linkVars, noteVars,
      inVars, ExitJustified, Over
<1>15. CASE PumpExit
  BY <1>15
  DEF PumpExit, worldVars, paneVars, linkVars, Exit, inVars, noteVars,
      ExitJustified, Over
<1>16. CASE PumpForeground
  BY <1>16
  DEF PumpForeground, worldVars, paneVars, noteVars, linkVars, inVars,
      ExitJustified, Over
<1>17. CASE Exec
  BY <1>17
  DEF Exec, worldVars, paneVars, linkVars, inVars, noteVars, ExitJustified,
      Over
<1>18. CASE ExecFails
  BY <1>18
  DEF ExecFails, worldVars, paneVars, linkVars, inVars, noteVars,
      ExitJustified, Over
<1>19. CASE PumpGone
  BY <1>19
  DEF PumpGone, worldVars, paneVars, Exit, linkVars, inVars, noteVars,
      ExitJustified, Over
<1>20. CASE WaitEnds
  BY <1>20
  DEF WaitEnds, worldVars, paneVars, linkVars, inVars, Exit, noteVars,
      ExitJustified, Over
<1>21. CASE WaitOn
  BY <1>21
  DEF WaitOn, worldVars, paneVars, linkVars, inVars, noteVars, ExitJustified,
      Over
<1>22. CASE DialSocket
  BY <1>22
  DEF DialSocket, worldVars, paneVars, linkVars, inVars, noteVars, Ask,
      ExitJustified, Over
<1>23. CASE DialSpawn
  BY <1>23
  DEF DialSpawn, paneVars, inVars, Connect, Ask, SpawnDaemon, ExitJustified,
      Over
<1>24. CASE Serve
  BY <1>24 DEF Serve, paneVars, inVars, noteVars, ExitJustified, Over
<1>25. CASE PumpBroken
  BY <1>25
  DEF PumpBroken, worldVars, paneVars, linkVars, Exit, inVars, noteVars,
      ExitJustified, Over
<1>26. CASE StdinEof
  BY <1>26
  DEF StdinEof, worldVars, paneVars, linkVars, noteVars, inVars,
      ExitJustified, Over
<1>27. CASE StdinShutdown
  BY <1>27
  DEF StdinShutdown, worldVars, paneVars, noteVars, linkVars, inVars,
      ExitJustified, Over
<1>28. CASE Poll
  BY <1>28 DEF Poll, paneVars, linkVars, noteVars, ExitJustified, Over
<1>29. CASE UNCHANGED vars
  BY <1>29 DEF vars, ExitJustified, Over
<1> QED
  BY <1>1, <1>2, <1>3, <1>4, <1>5, <1>6, <1>7, <1>8, <1>9, <1>10, <1>11,
     <1>12, <1>13, <1>14, <1>15, <1>16, <1>17, <1>18, <1>19, <1>20, <1>21,
     <1>22, <1>23, <1>24, <1>25, <1>26, <1>27, <1>28, <1>29
  DEF Next, World, Main

\* Every step keeps the types.
LEMMA TypeStep == TypeOK /\ [Next]_vars => TypeOK'
<1> SUFFICES ASSUME TypeOK, [Next]_vars PROVE TypeOK'
  OBVIOUS
<1>1. WorldTypes /\ LinkTypes
  BY DEF TypeOK, WorldTypes, LinkTypes
<1>2. WorldTypes' /\ LinkTypes'
  BY <1>1, WorldStep, LinkStep
<1>3. RelayTypes' /\ Flags'
  BY RelayStep, FlagsStep
<1>4. args' = args
  BY DEF Next, World, Main, vars, Crash, Upgrade, Upgraded, LinkLost,
         ShellEnds, ShellKilled, Close, Resize, Foreground, PaneGone, Tick,
         Start, OpenedOk, OpenFailed, SetUplink, UplinkFails, PumpExit,
         PumpForeground, Exec,
         ExecFails, PumpGone, WaitEnds, WaitOn, DialSocket, DialSpawn, Serve,
         PumpBroken, StdinEof, StdinShutdown, Poll, Connect, Ask, worldVars
<1> QED BY <1>2, <1>3, <1>4 DEF TypeOK, Flags, WorldTypes, LinkTypes, RelayTypes

\* A relay that has just started satisfies all of it.
LEMMA IndInit == Init => IndInv
<1> SUFFICES ASSUME Init PROVE IndInv
  OBVIOUS
<1>1. args.require => args.expect
  BY DEF Init, Args
<1>2. program \in Program /\ size \in Size
  BY RelayAssumption DEF Init
<1>3. inst \in 0..MaxShells
  <2>1. inst = 0 \/ inst = 1
    BY DEF Init
  <2>2. MaxShells \in Nat \ {0}
    BY RelayAssumption
  <2> QED BY <2>1, <2>2
<1>a. \A n \in Nat : 0 \in 0..n
  OBVIOUS
<1>4. WorldTypes
  <2>1. daemon \in {"up", "down", "handoff"} /\ shell \in {"none", "live", "closed"}
    BY DEF Init
  <2>2. age \in 0..RespawnAfter /\ faults \in 0..MaxFaults
          /\ changes \in 0..MaxChanges
    BY <1>a, RelayAssumption DEF Init
  <2> QED BY <1>2, <1>3, <2>1, <2>2 DEF Init, WorldTypes
<1>5. LinkTypes /\ Flags
  BY DEF Init, LinkTypes, Flags
<1>6. RelayTypes
  <2>1. waited \in 0..RespawnAfter /\ known \in 0..MaxShells
    BY <1>3, <1>a, RelayAssumption DEF Init
  <2> QED BY <1>2, <2>1 DEF Init, RelayTypes
<1>7. TypeOK
  BY <1>4, <1>5, <1>6
  DEF Init, TypeOK, Flags, WorldTypes, LinkTypes, RelayTypes
<1>8. NeverReplaced
  BY <1>1 DEF Init, NeverReplaced
<1> QED
  BY <1>7, <1>8
  DEF Init, IndInv, InTime, SparesHandoff, Told, Over, ExitJustified

\* Every behaviour of the relay satisfies the inductive invariant.
THEOREM Inductive == Spec => []IndInv
<1>1. IndInv /\ [Next]_vars => IndInv'
  BY TypeStep, InTimeStep, ReplacedStep, RivalStep, ToldStep, OverStep, ExitStep
  DEF IndInv
<1> QED BY <1>1, IndInit, PTL DEF Spec

\* However the daemon crashes, upgrades itself or is cut off, a required
\* terminal is never replaced, and a replaced one is said to be unless the reply
\* that said so was lost.
THEOREM PanesKeepTheirTerminal == Spec => []TerminalIsKept
<1>1. IndInv => TerminalIsKept
  BY DEF IndInv, TerminalIsKept, FreshShellIsSaid, Told
<1> QED BY <1>1, Inductive, PTL

\* For any window and any number of faults, no relay that lost its daemon to an
\* upgrade shorter than its window spawns another into it.
THEOREM HandoffsAreSpared == Spec => []SparesHandoff
<1>1. IndInv => SparesHandoff
  BY DEF IndInv
<1> QED BY <1>1, Inductive, PTL

\* Once a session was open no outage, refusal or timeout makes the relay exit,
\* and the app erase its pane, but at most the want of a descriptor; before, only
\* the first error of a fresh pane.
THEOREM ExitsAreJustified == Spec => []ExitJustified
<1>1. IndInv => ExitJustified
  BY DEF IndInv
<1> QED BY <1>1, Inductive, PTL

\* A reconnect never brings a closed terminal back.
THEOREM ReconnectsDoNotReopen == Spec => ClosedStaysClosed
<1>1. ASSUME IndInv, [Next]_vars, shell = "closed", shell' = "live"
      PROVE  first
  <2>1. CASE Serve
    BY <1>1, <2>1, ModeFits DEF Serve, IndInv
  <2>2. CASE ~Serve
    BY <1>1, <2>2 DEF Next, World, Main, vars, Crash, Upgrade, Upgraded, LinkLost,
          ShellEnds, ShellKilled, Close, Resize, Foreground, PaneGone, Tick,
          Start, OpenedOk, OpenFailed, SetUplink, UplinkFails, PumpExit,
          PumpForeground, Exec,
          ExecFails, PumpGone, WaitEnds, WaitOn, DialSocket, DialSpawn,
          PumpBroken, StdinEof, StdinShutdown, Poll, worldVars, Connect,
          SpawnDaemon, Ask
  <2> QED BY <2>1, <2>2
<1>2. IndInv /\ [Next]_vars => [shell = "closed" /\ shell' = "live" => first]_vars
  BY <1>1
<1> QED BY <1>2, Inductive, PTL DEF Spec, ClosedStaysClosed

-----------------------------------------------------------------------------
(* Watchers and observers: module Observe *)

\* What has been told of the terminal once the events of o are, after v.
ToldOf(o, v, s) == IF \E e \in o : e.name = s
                 THEN CHOOSE e \in o : e.name = s
                 ELSE v[s]

\* What the watcher will have been sent of the terminal once it has written.
Known(w, s) == ToldOf(out[w], view[w], s)

\* No event of the terminal is left to receive.
Silent(q, s) == \A i \in 1..Len(q) : q[i].name # s

\* An event of the terminal is its newest, or a newer one follows.
NewestLast(q, s, e) ==
    \A i \in 1..Len(q) : q[i].name = s =>
        q[i] = e \/ \E j \in 1..Len(q) : i < j /\ q[j].name = s

\* The ring r is q with e after it, and without the oldest k.
Grown(q, r, e, k) ==
    /\ k <= Len(q)
    /\ Len(r) = Len(q) + 1 - k
    /\ Len(r) \in Nat \ {0}
    /\ r[Len(r)] = e
    /\ \A i \in 1..(Len(r) - 1) : r[i] = q[i + k]

\* The exit is raised by the reap and by the kill, which take the name away.
EndPhases ==
    \A s \in Session :
        /\ exited[s] <=> reaper[s] # "no" \/ killer[s] \in {"exited", "cleared", "done"}
        /\ s \in listed => /\ killer[s] = "no"
                           /\ reaper[s] \in {"no", "exited", "cleared"}

\* last_event is an event of its terminal, and its exit is the terminal's.
LastFits ==
    \A s \in Session :
        /\ last_event[s] # Nothing =>
              last_event[s].name = s /\ (last_event[s].exited => exited[s])
        /\ reaper[s] = "done" \/ killer[s] = "done" =>
              last_event[s] # Nothing /\ last_event[s].exited

\* While nobody is between a change and its emit, the last event is current.
Settled ==
    \A s \in Session :
        eval[s] # "wrote" /\ reaper[s] \in {"no", "done"}
          /\ killer[s] \in {"no", "unlisted", "done"} =>
              \/ last_event[s] = Current(s)
              \/ last_event[s] = Nothing /\ agent[s] = 0 /\ ~exited[s]

\* A terminal's events in a ring follow its states: the newest, e, is last,
\* and an exit, which the terminal, x, has had, stays.
RingFits(q, s, e, x) ==
    /\ NewestLast(q, s, e)
    /\ \A i \in 1..Len(q) : q[i].name = s /\ q[i].exited =>
          /\ x
          /\ \A j \in 1..Len(q) : i < j /\ q[j].name = s => q[j].exited

Rings == \A w \in Watcher, s \in Session :
            RingFits(queue[w], s, last_event[s], exited[s])

\* A watcher writes one event of a terminal at a time, and starts with none.
Writes ==
    \A w \in Watcher :
        /\ \A e, f \in out[w] : e.name = f.name => e = f
        /\ wpc[w] # "write" => out[w] = {}
        /\ wpc[w] = "off" => queue[w] = <<>> /\ ~gap[w] /\ ~lagged[w]
        /\ wpc[w] \in {"off", "snapshot"} /\ ~lagged[w] =>
              \A s \in Session : view[w][s] = Nothing

\* What a watcher knows of a terminal it has nothing more to hear of.
WatcherIsTold(w, s) ==
    wpc[w] \in {"write", "receive"} /\ ~gap[w] /\ Silent(queue[w], s) =>
        /\ s \in listed /\ reaper[s] = "no" =>
              \/ Known(w, s) = Current(s)
              \/ eval[s] = "wrote" /\ last_event[s] # Current(s)
        /\ last_event[s] # Nothing /\ last_event[s].exited /\ ~lagged[w] =>
              Known(w, s) = Nothing \/ Known(w, s).exited

WatcherKnows == \A w \in Watcher, s \in Session : WatcherIsTold(w, s)

\* The kill of the terminal has yet to tell of the exit, and nobody else has.
KillUntold ==
    /\ killer[Watched] \in {"exited", "cleared"}
    /\ last_event[Watched] = Nothing \/ ~last_event[Watched].exited

\* What an observer has sent, or is sending, when it has no change to see.
ObserverKnows ==
    \A o \in Observer :
        /\ opc[o] = "asleep" => ~snap[o].exited
        /\ opc[o] \in {"send", "asleep"} /\ ~unseen[o] /\ ~snap[o].exited =>
              \/ reaper[Watched] = "exited" \/ KillUntold
              \/ /\ snap[o].screen = screen[Watched]
                 /\ ~exited[Watched]
                 /\ \/ snap[o].agent = agent[Watched]
                    \/ eval[Watched] = "wrote" /\ last_event[Watched] # Current(Watched)

\* The inductive invariant.
EventsInv ==
    /\ ObserveParameters
    /\ ObserveTypeOK
    /\ EndPhases
    /\ LastFits
    /\ Settled
    /\ Rings
    /\ Writes
    /\ WatcherKnows
    /\ ObserverKnows

\* An event of a terminal is one, and it is not the lack of one.
LEMMA EventTypes ==
  ASSUME ObserveParameters
  PROVE  /\ 0 \in Screen
         /\ \A n \in Session \cup {Other}, a \in Screen, x \in BOOLEAN :
               /\ Event(n, a, x) \in PtyEvent
               /\ Event(n, a, x) # Nothing
               /\ Event(n, a, x).name = n
               /\ Event(n, a, x).agent = a
               /\ Event(n, a, x).exited = x
<1>1. 0 \in Screen
  BY DEF ObserveParameters, Screen
<1>2. ASSUME NEW n \in Session \cup {Other}, NEW a \in Screen, NEW x \in
             BOOLEAN
      PROVE  Event(n, a, x) \in PtyEvent
  BY <1>2 DEF Event, PtyEvent
<1> QED BY <1>1, <1>2 DEF Event, ObserveParameters

\* What the oldest event's removal leaves.
LEMMA Tails ==
  ASSUME NEW q \in Seq(PtyEvent), q # <<>>
  PROVE  /\ Head(q) = q[1] /\ q[1] \in PtyEvent
         /\ Tail(q) \in Seq(PtyEvent)
         /\ Len(q) \in Nat \ {0}
         /\ Len(Tail(q)) = Len(q) - 1
         /\ \A i \in 1..Len(Tail(q)) : Tail(q)[i] = q[i + 1]
<1>1. Len(q) \in Nat \ {0}
  OBVIOUS
<1> QED BY <1>1

\* The ring after a broadcast: each receiver has the event last, after what it
\* had before, the oldest gone where the ring was full.
LEMMA Pushed ==
  ASSUME ObserveParameters, ObserveTypeOK, NEW e \in PtyEvent, Push(e), NEW w
         \in Watcher
  PROVE  /\ wpc[w] = "off" => queue'[w] = queue[w] /\ gap'[w] = gap[w]
         /\ wpc[w] # "off" => \E k \in {0, 1} :
               /\ IF k = 1 THEN gap'[w] ELSE gap'[w] = gap[w]
               /\ queue'[w] \in Seq(PtyEvent)
               /\ Len(queue'[w]) <= Backlog
               /\ Grown(queue[w], queue'[w], e, k)
<1> DEFINE q == queue[w]
<1>1. /\ q \in Seq(PtyEvent)
      /\ Len(q) \in Nat
      /\ Len(q) <= Backlog
      /\ Backlog \in Nat \ {0}
  BY DEF ObserveTypeOK, ObserveParameters
<1>2. CASE wpc[w] = "off"
  BY <1>2 DEF Push, ObserveTypeOK
<1>3. CASE wpc[w] # "off" /\ Len(q) = Backlog
  <2>1. queue'[w] = Append(Tail(q), e) /\ gap'[w]
    BY <1>3 DEF Push
  <2>2. q # <<>>
    BY <1>1, <1>3
  <2>3. /\ Tail(q) \in Seq(PtyEvent) /\ Len(Tail(q)) = Len(q) - 1
        /\ \A i \in 1..Len(Tail(q)) : Tail(q)[i] = q[i + 1]
    BY <1>1, <2>2, Tails
  <2>4. /\ queue'[w] \in Seq(PtyEvent) /\ Len(queue'[w]) = Len(q)
        /\ queue'[w][Len(q)] = e
        /\ \A i \in 1..(Len(q) - 1) : queue'[w][i] = q[i + 1]
    <3> HIDE DEF q
    <3> DEFINE t == Tail(q)
    <3>1. /\ t \in Seq(PtyEvent)
          /\ Len(t) = Len(q) - 1
          /\ Len(q) \in Nat \ {0}
      BY <1>1, <1>3, <2>3
    <3>2. \A i \in 1..(Len(q) - 1) : t[i] = q[i + 1]
      BY <2>3, <3>1
    <3>3. queue'[w] = Append(t, e)
      BY <2>1
    <3> HIDE DEF t
    <3> QED BY <3>1, <3>2, <3>3
  <2>5. /\ 1 <= Len(q) /\ gap'[w]
        /\ Len(queue'[w]) = Len(q) + 1 - 1
        /\ Len(queue'[w]) <= Backlog
        /\ Len(queue'[w]) \in Nat \ {0}
        /\ queue'[w][Len(queue'[w])] = e
        /\ \A i \in 1..(Len(queue'[w]) - 1) : queue'[w][i] = q[i + 1]
    <3> HIDE DEF q
    <3> QED BY <1>1, <1>3, <2>1, <2>4
  <2>6. Grown(q, queue'[w], e, 1)
    BY <2>5 DEF Grown
  <2> QED BY <1>3, <2>4, <2>5, <2>6
<1>4. CASE wpc[w] # "off" /\ Len(q) # Backlog
  <2>1. queue'[w] = Append(q, e) /\ gap'[w] = gap[w]
    BY <1>4 DEF Push, ObserveTypeOK
  <2> HIDE DEF q
  <2>2. /\ queue'[w] \in Seq(PtyEvent) /\ Len(queue'[w]) = Len(q) + 1
        /\ queue'[w][Len(q) + 1] = e
        /\ \A i \in 1..Len(q) : queue'[w][i] = q[i]
    BY <1>1, <2>1
  <2>3. /\ 0 <= Len(q)
        /\ Len(queue'[w]) = Len(q) + 1 - 0
        /\ Len(queue'[w]) <= Backlog
        /\ Len(queue'[w]) \in Nat \ {0}
        /\ queue'[w][Len(queue'[w])] = e
    BY <1>1, <1>4, <2>2
  <2>4. \A i \in 1..(Len(queue'[w]) - 1) : queue'[w][i] = q[i + 0]
    BY <1>1, <2>2
  <2>5. Grown(q, queue'[w], e, 0)
    BY <2>3, <2>4 DEF Grown
  <2> QED BY <1>4, <2>1, <2>2, <2>3, <2>5 DEF q
<1> QED BY <1>2, <1>3, <1>4

\* emit either finds the event said already, or says it to everybody.
LEMMA Emitted ==
  ASSUME NEW s \in Session, NEW e, Emit(s, e), ObserveTypeOK
  PROVE  /\ last_event'[s] = e
         /\ \A r \in Session : r # s => last_event'[r] = last_event[r]
         /\ \/ last_event[s] = e /\ UNCHANGED <<last_event, queue, gap, unseen>>
            \/ last_event[s] # e /\ Push(e) /\ Notify(s)
  BY DEF Emit, ObserveTypeOK, eventVars

\* A broadcast keeps the ring within its size.
LEMMA PushTypes ==
  ASSUME ObserveParameters, ObserveTypeOK, NEW e \in PtyEvent, Push(e)
  PROVE  /\ queue' \in [Watcher -> Seq(PtyEvent)]
         /\ \A w \in Watcher : Len(queue'[w]) <= Backlog
         /\ gap' \in [Watcher -> BOOLEAN]
<1>1. DOMAIN queue' = Watcher /\ gap' \in [Watcher -> BOOLEAN]
      /\ queue' = [w \in Watcher |-> queue'[w]]
  BY DEF Push, ObserveTypeOK
<1>2. ASSUME NEW w \in Watcher
      PROVE  queue'[w] \in Seq(PtyEvent) /\ Len(queue'[w]) <= Backlog
  BY Pushed DEF ObserveTypeOK
<1> QED BY <1>1, <1>2

LEMMA EmitTypes ==
  ASSUME ObserveParameters, ObserveTypeOK, NEW s \in Session, NEW e \in PtyEvent,
         Emit(s, e)
  PROVE  /\ last_event' \in [Session -> PtyEvent \cup {Nothing}]
         /\ queue' \in [Watcher -> Seq(PtyEvent)]
         /\ \A w \in Watcher : Len(queue'[w]) <= Backlog
         /\ gap' \in [Watcher -> BOOLEAN]
         /\ unseen' \in [Observer -> BOOLEAN]
<1>1. CASE last_event[s] = e
  BY <1>1 DEF Emit, eventVars, ObserveTypeOK
<1>2. CASE last_event[s] # e
  <2>1. Push(e) /\ Notify(s) /\ last_event' = [last_event EXCEPT ![s] = e]
    BY <1>2 DEF Emit
  <2>2. /\ unseen' \in [Observer -> BOOLEAN]
        /\ last_event' \in [Session -> PtyEvent \cup {Nothing}]
    BY <2>1 DEF Notify, ObserveTypeOK
  <2> QED BY <2>1, <2>2, PushTypes
<1> QED BY <1>1, <1>2

\* Every step keeps the types, the ring within its size.
LEMMA EventTypeStep == EventsInv /\ [ObserveNext]_observeVars => ObserveTypeOK'
<1> SUFFICES ASSUME EventsInv, [ObserveNext]_observeVars PROVE ObserveTypeOK'
  OBVIOUS
<1> USE EventTypes DEF EventsInv
<1>1. CASE Elsewhere
  <2>1. Event(Other, 0, FALSE) \in PtyEvent
    BY EventTypes
  <2> QED BY <1>1, <2>1, PushTypes
             DEF Elsewhere, ptyVars, evalVars, endVars, watchVars, lookVars,
               ObserveTypeOK
<1>2. ASSUME NEW s \in Session, Output(s)
      PROVE  ObserveTypeOK'
  <2>1. screen[s] + 1 \in Screen
    BY <1>2 DEF Output, ObserveTypeOK, Screen, ObserveParameters
  <2> QED BY <1>2, <2>1
             DEF Output, Notify, endVars, eventVars, watchVars, lookVars,
               ObserveTypeOK
<1>3. ASSUME NEW s \in Session, Settle(s)
      PROVE  ObserveTypeOK'
  BY <1>3
     DEF Settle, ptyVars, endVars, eventVars, watchVars, lookVars,
       ObserveTypeOK
<1>4. ASSUME NEW s \in Session, Read(s)
      PROVE  ObserveTypeOK'
  BY <1>4
     DEF Read, ptyVars, endVars, eventVars, watchVars, lookVars, ObserveTypeOK
<1>5. ASSUME NEW s \in Session, Store(s)
      PROVE  ObserveTypeOK'
  BY <1>5 DEF Store, endVars, eventVars, watchVars, lookVars, ObserveTypeOK
<1>6. ASSUME NEW s \in Session, EvalEmit(s)
      PROVE  ObserveTypeOK'
  <2>1. Event(s, agent[s], exited[s]) \in PtyEvent
    BY EventTypes DEF ObserveTypeOK
  <2>2. Emit(s, Event(s, agent[s], exited[s]))
    BY <1>6 DEF EvalEmit
  <2> QED BY <1>6, <2>1, <2>2, EmitTypes
             DEF EvalEmit, ptyVars, evalVars, endVars, watchVars, lookVars,
               ObserveTypeOK
<1>7. ASSUME NEW s \in Session, ReapClear(s)
      PROVE  ObserveTypeOK'
  BY <1>7
     DEF ReapClear, evalVars, eventVars, watchVars, lookVars, Notify,
       ObserveTypeOK
<1>8. ASSUME NEW s \in Session, ReapRemove(s)
      PROVE  ObserveTypeOK'
  BY <1>8
     DEF ReapRemove, evalVars, eventVars, watchVars, lookVars, ObserveTypeOK
<1>9. ASSUME NEW s \in Session, ReapEmit(s)
      PROVE  ObserveTypeOK'
  <2>1. Event(s, agent[s], exited[s]) \in PtyEvent
    BY EventTypes DEF ObserveTypeOK
  <2>2. Emit(s, Event(s, agent[s], exited[s]))
    BY <1>9 DEF ReapEmit
  <2> QED BY <1>9, <2>1, <2>2, EmitTypes
             DEF ReapEmit, ptyVars, evalVars, endVars, watchVars, lookVars,
               ObserveTypeOK
<1>10. ASSUME NEW s \in Session, Kill(s)
       PROVE  ObserveTypeOK'
  BY <1>10 DEF Kill, evalVars, eventVars, watchVars, lookVars, ObserveTypeOK
<1>11. ASSUME NEW s \in Session, KillEmit(s)
      PROVE  ObserveTypeOK'
  <2>1. Event(s, agent[s], exited[s]) \in PtyEvent
    BY EventTypes DEF ObserveTypeOK
  <2>2. Emit(s, Event(s, agent[s], exited[s]))
    BY <1>11 DEF KillEmit
  <2> QED BY <1>11, <2>1, <2>2, EmitTypes
             DEF KillEmit, ptyVars, evalVars, endVars, watchVars, lookVars,
               ObserveTypeOK
<1>26. ASSUME NEW s \in Session, KillExited(s)
       PROVE  ObserveTypeOK'
  BY <1>26
     DEF KillExited, evalVars, eventVars, watchVars, lookVars, ObserveTypeOK
<1>27. ASSUME NEW s \in Session, KillClear(s)
      PROVE  ObserveTypeOK'
  BY <1>27
     DEF KillClear, evalVars, eventVars, watchVars, lookVars, Notify,
         ObserveTypeOK
<1>12. ASSUME NEW s \in Session, ReapExited(s)
       PROVE  ObserveTypeOK'
  BY <1>12
     DEF ReapExited, evalVars, eventVars, watchVars, lookVars, ObserveTypeOK
<1>13. ASSUME NEW w \in Watcher, Subscribe(w)
       PROVE  ObserveTypeOK'
  BY <1>13
     DEF Subscribe, ptyVars, evalVars, endVars, eventVars, lookVars,
       ObserveTypeOK
<1>14. ASSUME NEW w \in Watcher, Snapshot(w)
       PROVE  ObserveTypeOK'
  <2>1. {Event(s, agent[s], exited[s]) : s \in listed} \in SUBSET PtyEvent
    BY EventTypes DEF ObserveTypeOK
  <2>2. /\ out' \in [Watcher -> SUBSET PtyEvent]
        /\ wpc' \in [Watcher -> {"off", "snapshot", "write", "receive"}]
    BY <1>14, <2>1 DEF Snapshot, ObserveTypeOK
  <2> QED BY <1>14, <2>2
             DEF Snapshot, ptyVars, evalVars, endVars, eventVars, lookVars,
               ObserveTypeOK
<1>15. ASSUME NEW w \in Watcher, Write(w)
       PROVE  ObserveTypeOK'
  <2>1. ASSUME NEW s \in Session
        PROVE  (IF \E e \in out[w] : e.name = s
                THEN CHOOSE e \in out[w] : e.name = s
                ELSE view[w][s]) \in PtyEvent \cup {Nothing}
    BY DEF ObserveTypeOK
  <2>2. view' \in [Watcher -> [Session -> PtyEvent \cup {Nothing}]]
    BY <1>15, <2>1 DEF Write, ObserveTypeOK
  <2>3. /\ out' \in [Watcher -> SUBSET PtyEvent]
        /\ wpc' \in [Watcher -> {"off", "snapshot", "write", "receive"}]
    BY <1>15 DEF Write, ObserveTypeOK
  <2> QED BY <1>15, <2>2, <2>3
             DEF Write, ptyVars, evalVars, endVars, eventVars, lookVars,
               ObserveTypeOK
<1>16. ASSUME NEW w \in Watcher, Receive(w)
       PROVE  ObserveTypeOK'
  <2>1. queue[w] \in Seq(PtyEvent) /\ queue[w] # <<>>
    BY <1>16 DEF Receive, ObserveTypeOK
  <2>2. /\ Tail(queue[w]) \in Seq(PtyEvent)
        /\ {Head(queue[w])} \in SUBSET PtyEvent
        /\ Len(Tail(queue[w])) <= Backlog
    BY <2>1, Tails DEF ObserveTypeOK, ObserveParameters
  <2>3. /\ out' \in [Watcher -> SUBSET PtyEvent]
        /\ wpc' \in [Watcher -> {"off", "snapshot", "write", "receive"}]
    BY <1>16, <2>2 DEF Receive, ObserveTypeOK
  <2>4. /\ queue' \in [Watcher -> Seq(PtyEvent)]
        /\ \A v \in Watcher : Len(queue'[v]) <= Backlog
    BY <1>16, <2>2 DEF Receive, ObserveTypeOK
  <2> QED BY <1>16, <2>3, <2>4
             DEF Receive, ptyVars, evalVars, endVars, eventVars, lookVars,
               ObserveTypeOK
<1>17. ASSUME NEW w \in Watcher, Lagged(w)
       PROVE  ObserveTypeOK'
  BY <1>17 DEF Lagged, ptyVars, evalVars, endVars, lookVars, ObserveTypeOK
<1>18. ASSUME NEW w \in Watcher, Unwatch(w)
       PROVE  ObserveTypeOK'
  <2>1. /\ <<>> \in Seq(PtyEvent)
        /\ Len(<<>>) <= Backlog
        /\ {} \in SUBSET PtyEvent
    BY DEF ObserveParameters
  <2>2. [s \in Session |-> Nothing] \in [Session -> PtyEvent \cup {Nothing}]
    OBVIOUS
  <2>3. /\ queue' \in [Watcher -> Seq(PtyEvent)]
        /\ \A v \in Watcher : Len(queue'[v]) <= Backlog
    BY <1>18, <2>1 DEF Unwatch, ObserveTypeOK
  <2>4. view' \in [Watcher -> [Session -> PtyEvent \cup {Nothing}]]
    BY <1>18, <2>2 DEF Unwatch, ObserveTypeOK
  <2>5. /\ out' \in [Watcher -> SUBSET PtyEvent]
        /\ wpc' \in [Watcher -> {"off", "snapshot", "write", "receive"}]
        /\ gap' \in [Watcher -> BOOLEAN]
        /\ lagged' \in [Watcher -> BOOLEAN]
    BY <1>18 DEF Unwatch, ObserveTypeOK
  <2> QED BY <1>18, <2>3, <2>4, <2>5
             DEF Unwatch, ptyVars, evalVars, endVars, lookVars, ObserveTypeOK
<1>19. ASSUME NEW o \in Observer, Open(o)
       PROVE  ObserveTypeOK'
  BY <1>19
     DEF Open, ptyVars, evalVars, endVars, eventVars, watchVars, OGoto,
       lookVars, ObserveTypeOK
<1>20. ASSUME NEW o \in Observer, Update(o)
       PROVE  ObserveTypeOK'
  BY <1>20
     DEF Update, ptyVars, evalVars, endVars, eventVars, watchVars, OGoto,
       lookVars, ObserveTypeOK
<1>21. ASSUME NEW o \in Observer, Look(o)
       PROVE  ObserveTypeOK'
  <2>1. [screen |-> screen[Watched], agent |-> agent[Watched],
         exited |-> exited[Watched]] \in PtySnapshot
    BY DEF ObserveTypeOK, ObserveParameters, PtySnapshot
  <2> QED BY <1>21, <2>1
             DEF Look, OGoto, ptyVars, evalVars, endVars, eventVars, watchVars,
               ObserveTypeOK
<1>22. ASSUME NEW o \in Observer, Send(o)
       PROVE  ObserveTypeOK'
  <2>1. Blank \in PtySnapshot
    BY EventTypes DEF Blank, PtySnapshot
  <2> QED BY <1>22, <2>1
             DEF Send, OGoto, ptyVars, evalVars, endVars, eventVars, watchVars,
               ObserveTypeOK
<1>23. ASSUME NEW o \in Observer, Wake(o)
       PROVE  ObserveTypeOK'
  BY <1>23
     DEF Wake, ptyVars, evalVars, endVars, eventVars, watchVars, OGoto,
       lookVars, ObserveTypeOK
<1>24. ASSUME NEW o \in Observer, Leave(o)
       PROVE  ObserveTypeOK'
  <2>1. Blank \in PtySnapshot
    BY EventTypes DEF Blank, PtySnapshot
  <2> QED BY <1>24, <2>1
             DEF Leave, OGoto, ptyVars, evalVars, endVars, eventVars,
               watchVars, ObserveTypeOK
<1>25. CASE UNCHANGED observeVars
  BY <1>25 DEF observeVars, ObserveTypeOK
<1> QED
  BY <1>1, <1>2, <1>3, <1>4, <1>5, <1>6, <1>7, <1>8, <1>9, <1>10, <1>11,
     <1>12, <1>13, <1>14, <1>15, <1>16, <1>17, <1>18, <1>19, <1>20, <1>21,
     <1>22, <1>23, <1>24, <1>25, <1>26, <1>27
  DEF ObserveNext, EvalStep, EndStep, KillStep, WatchStep, LookStep

\* The exit is raised, and the name taken away, by the reap and the kill alone.
LEMMA EndPhaseStep == EventsInv /\ [ObserveNext]_observeVars => EndPhases'
<1> SUFFICES ASSUME EventsInv, [ObserveNext]_observeVars PROVE EndPhases'
  OBVIOUS
<1> USE DEF EventsInv
<1>1. CASE Elsewhere
  BY <1>1
     DEF Elsewhere, ptyVars, evalVars, endVars, watchVars, lookVars, Event,
       ObserveTypeOK, EndPhases
<1>2. CASE \E s \in Session :
              Output(s) \/ Settle(s) \/ Read(s) \/ Store(s) \/
              EvalEmit(s)
  BY <1>2
     DEF Output, Settle, Read, Store, EvalEmit, endVars, eventVars, watchVars,
       lookVars, Notify, ptyVars, Event, ObserveTypeOK, EndPhases
<1>3. ASSUME NEW s \in Session, ReapClear(s)
      PROVE  EndPhases'
  BY <1>3
     DEF ReapClear, evalVars, eventVars, watchVars, lookVars, Notify,
       ObserveTypeOK, EndPhases
<1>4. ASSUME NEW s \in Session, ReapRemove(s)
      PROVE  EndPhases'
  BY <1>4
     DEF ReapRemove, evalVars, eventVars, watchVars, lookVars, ObserveTypeOK,
       EndPhases
<1>5. ASSUME NEW s \in Session, ReapEmit(s)
      PROVE  EndPhases'
  BY <1>5
     DEF ReapEmit, ptyVars, evalVars, watchVars, lookVars, Event,
       ObserveTypeOK, EndPhases
<1>6. ASSUME NEW s \in Session, Kill(s)
      PROVE  EndPhases'
  BY <1>6
     DEF Kill, evalVars, eventVars, watchVars, lookVars, ObserveTypeOK,
       EndPhases
<1>7. ASSUME NEW s \in Session, KillEmit(s)
      PROVE  EndPhases'
  BY <1>7
     DEF KillEmit, ptyVars, evalVars, watchVars, lookVars, Event,
       ObserveTypeOK, EndPhases
<1>12. ASSUME NEW s \in Session, KillExited(s)
      PROVE  EndPhases'
  BY <1>12
     DEF KillExited, evalVars, eventVars, watchVars, lookVars, ObserveTypeOK,
         EndPhases
<1>13. ASSUME NEW s \in Session, KillClear(s)
      PROVE  EndPhases'
  BY <1>13
     DEF KillClear, evalVars, eventVars, watchVars, lookVars, Notify,
         ObserveTypeOK, EndPhases
<1>8. ASSUME NEW s \in Session, ReapExited(s)
      PROVE  EndPhases'
  BY <1>8
     DEF ReapExited, evalVars, eventVars, watchVars, lookVars, ObserveTypeOK,
       EndPhases
<1>9. CASE \E w \in Watcher :
              Subscribe(w) \/ Snapshot(w) \/ Write(w) \/
              Receive(w) \/
              Lagged(w) \/ Unwatch(w)
  BY <1>9
     DEF Subscribe, Snapshot, Write, Receive, Lagged, Unwatch, ptyVars,
       evalVars, endVars, eventVars, lookVars, Event, ObserveTypeOK, EndPhases
<1>10. CASE \E o \in Observer :
               Open(o) \/ Update(o) \/ Look(o) \/ Send(o) \/
               Wake(o) \/
               Leave(o)
  BY <1>10
     DEF Open, Update, Look, Send, Wake, Leave, ptyVars, evalVars, endVars,
       eventVars, watchVars, OGoto, lookVars, ObserveTypeOK, EndPhases
<1>11. CASE UNCHANGED observeVars
  BY <1>11 DEF observeVars, ObserveTypeOK, EndPhases
<1> QED
  BY <1>1, <1>2, <1>3, <1>4, <1>5, <1>6, <1>7, <1>8, <1>9, <1>10, <1>11, <1>12, <1>13
     DEF ObserveNext, EvalStep, EndStep, KillStep, WatchStep, LookStep

\* An event is emitted with the state of its moment, and an end with the exit.
LEMMA LastStep == EventsInv /\ [ObserveNext]_observeVars => LastFits'
<1> SUFFICES ASSUME EventsInv, [ObserveNext]_observeVars PROVE LastFits'
  OBVIOUS
<1> USE DEF EventsInv
<1>1. CASE Elsewhere
  BY <1>1
     DEF Elsewhere, ptyVars, evalVars, endVars, watchVars, lookVars, Event,
       ObserveTypeOK, EndPhases, LastFits
<1>2. CASE \E s \in Session :
              Output(s) \/ Settle(s) \/ Read(s) \/ Store(s)
  BY <1>2
     DEF Output, Settle, Read, Store, endVars, eventVars, watchVars, lookVars,
       Notify, ptyVars, ObserveTypeOK, EndPhases, LastFits
<1>3. ASSUME NEW s \in Session, EvalEmit(s)
      PROVE  LastFits'
  <2>1. /\ Event(s, agent[s], exited[s]) # Nothing
        /\ Event(s, agent[s], exited[s]).name = s
        /\ Event(s, agent[s], exited[s]).exited = exited[s]
    BY EventTypes DEF ObserveTypeOK
  <2>2. /\ last_event'[s] = Event(s, agent[s], exited[s])
        /\ \A r \in Session : r # s => last_event'[r] = last_event[r]
    BY <1>3, Emitted DEF EvalEmit
  <2>3. /\ exited' = exited /\ killer' = killer
        /\ \A r \in Session : r # s => reaper'[r] = reaper[r]
        /\ reaper'[s] = "done" => exited[s] \/ reaper[s] = "done"
        /\ reaper[s] = "done" \/ killer[s] = "done" => exited[s]
    BY <1>3 DEF EvalEmit, ptyVars, endVars, ObserveTypeOK, EndPhases
  <2>4. /\ last_event'[s] # Nothing /\ last_event'[s].name = s
        /\ last_event'[s].exited = exited[s]
    BY <2>1, <2>2
  <2>5. ASSUME NEW r \in Session
        PROVE  /\ last_event'[r] # Nothing =>
                     last_event'[r].name = r /\ (last_event'[r].exited => exited'[r])
               /\ reaper'[r] = "done" \/ killer'[r] = "done" =>
                     last_event'[r] # Nothing /\ last_event'[r].exited
    <3>1. CASE r = s
      BY <2>3, <2>4, <3>1
    <3>2. CASE r # s
      BY <2>2, <2>3, <3>2 DEF LastFits
    <3> QED BY <3>1, <3>2
  <2> QED BY <2>5 DEF LastFits
<1>4. ASSUME NEW s \in Session, ReapClear(s)
      PROVE  LastFits'
  BY <1>4
     DEF ReapClear, evalVars, eventVars, watchVars, lookVars, Notify,
       ObserveTypeOK, EndPhases, LastFits
<1>5. ASSUME NEW s \in Session, ReapRemove(s)
      PROVE  LastFits'
  BY <1>5
     DEF ReapRemove, evalVars, eventVars, watchVars, lookVars, ObserveTypeOK,
       EndPhases, LastFits
<1>6. ASSUME NEW s \in Session, ReapEmit(s)
      PROVE  LastFits'
  <2>1. /\ Event(s, agent[s], exited[s]) # Nothing
        /\ Event(s, agent[s], exited[s]).name = s
        /\ Event(s, agent[s], exited[s]).exited = exited[s]
    BY EventTypes DEF ObserveTypeOK
  <2>2. /\ last_event'[s] = Event(s, agent[s], exited[s])
        /\ \A r \in Session : r # s => last_event'[r] = last_event[r]
    BY <1>6, Emitted DEF ReapEmit
  <2>3. /\ exited' = exited /\ killer' = killer
        /\ \A r \in Session : r # s => reaper'[r] = reaper[r]
        /\ reaper'[s] = "done" => exited[s] \/ reaper[s] = "done"
        /\ reaper[s] = "done" \/ killer[s] = "done" => exited[s]
    BY <1>6 DEF ReapEmit, ptyVars, endVars, ObserveTypeOK, EndPhases
  <2>4. /\ last_event'[s] # Nothing /\ last_event'[s].name = s
        /\ last_event'[s].exited = exited[s]
    BY <2>1, <2>2
  <2>5. ASSUME NEW r \in Session
        PROVE  /\ last_event'[r] # Nothing =>
                     last_event'[r].name = r /\ (last_event'[r].exited => exited'[r])
               /\ reaper'[r] = "done" \/ killer'[r] = "done" =>
                     last_event'[r] # Nothing /\ last_event'[r].exited
    <3>1. CASE r = s
      BY <2>3, <2>4, <3>1
    <3>2. CASE r # s
      BY <2>2, <2>3, <3>2 DEF LastFits
    <3> QED BY <3>1, <3>2
  <2> QED BY <2>5 DEF LastFits
<1>7. ASSUME NEW s \in Session, Kill(s)
      PROVE  LastFits'
  BY <1>7
     DEF Kill, evalVars, eventVars, watchVars, lookVars, ObserveTypeOK,
       EndPhases, LastFits
<1>8. ASSUME NEW s \in Session, KillEmit(s)
      PROVE  LastFits'
  <2>1. /\ Event(s, agent[s], exited[s]) # Nothing
        /\ Event(s, agent[s], exited[s]).name = s
        /\ Event(s, agent[s], exited[s]).exited = exited[s]
    BY EventTypes DEF ObserveTypeOK
  <2>2. /\ last_event'[s] = Event(s, agent[s], exited[s])
        /\ \A r \in Session : r # s => last_event'[r] = last_event[r]
    BY <1>8, Emitted DEF KillEmit
  <2>3. /\ exited' = exited /\ reaper' = reaper
        /\ \A r \in Session : r # s => killer'[r] = killer[r]
        /\ exited[s]
    BY <1>8 DEF KillEmit, ptyVars, endVars, ObserveTypeOK, EndPhases
  <2>4. /\ last_event'[s] # Nothing /\ last_event'[s].name = s
        /\ last_event'[s].exited = exited[s]
    BY <2>1, <2>2
  <2>5. ASSUME NEW r \in Session
        PROVE  /\ last_event'[r] # Nothing =>
                     last_event'[r].name = r /\ (last_event'[r].exited => exited'[r])
               /\ reaper'[r] = "done" \/ killer'[r] = "done" =>
                     last_event'[r] # Nothing /\ last_event'[r].exited
    <3>1. CASE r = s
      BY <2>3, <2>4, <3>1
    <3>2. CASE r # s
      BY <2>2, <2>3, <3>2 DEF LastFits
    <3> QED BY <3>1, <3>2
  <2> QED BY <2>5 DEF LastFits
<1>13. ASSUME NEW s \in Session, KillExited(s)
      PROVE  LastFits'
  BY <1>13
     DEF KillExited, evalVars, eventVars, watchVars, lookVars, ObserveTypeOK,
         EndPhases, LastFits
<1>14. ASSUME NEW s \in Session, KillClear(s)
      PROVE  LastFits'
  BY <1>14
     DEF KillClear, evalVars, eventVars, watchVars, lookVars, Notify,
         ObserveTypeOK, EndPhases, LastFits
<1>9. ASSUME NEW s \in Session, ReapExited(s)
      PROVE  LastFits'
  BY <1>9
     DEF ReapExited, evalVars, eventVars, watchVars, lookVars, ObserveTypeOK,
       EndPhases, LastFits
<1>10. CASE \E w \in Watcher :
               Subscribe(w) \/ Snapshot(w) \/ Write(w) \/
               Receive(w) \/
               Lagged(w) \/ Unwatch(w)
  BY <1>10
     DEF Subscribe, Snapshot, Write, Receive, Lagged, Unwatch, ptyVars,
       evalVars, endVars, eventVars, lookVars, Event, ObserveTypeOK, EndPhases,
       LastFits
<1>11. CASE \E o \in Observer :
               Open(o) \/ Update(o) \/ Look(o) \/ Send(o) \/
               Wake(o) \/
               Leave(o)
  BY <1>11
     DEF Open, Update, Look, Send, Wake, Leave, ptyVars, evalVars, endVars,
       eventVars, watchVars, OGoto, lookVars, ObserveTypeOK, EndPhases,
       LastFits
<1>12. CASE UNCHANGED observeVars
  BY <1>12 DEF observeVars, ObserveTypeOK, EndPhases, LastFits
<1> QED
  BY <1>1, <1>2, <1>3, <1>4, <1>5, <1>6, <1>7, <1>8, <1>9, <1>10, <1>11, <1>12, <1>13, <1>14
     DEF ObserveNext, EvalStep, EndStep, KillStep, WatchStep, LookStep

\* A change of the agent or the exit is followed by an emit of its own.
LEMMA SettledStep == EventsInv /\ [ObserveNext]_observeVars => Settled'
<1> SUFFICES ASSUME EventsInv, [ObserveNext]_observeVars PROVE Settled'
  OBVIOUS
<1> USE DEF EventsInv
<1>1. CASE Elsewhere
  BY <1>1
     DEF Elsewhere, ptyVars, evalVars, endVars, watchVars, lookVars, Event,
       ObserveTypeOK, Settled, Current
<1>2. CASE \E s \in Session : Output(s) \/ Kill(s)
  BY <1>2
     DEF Output, Kill, endVars, eventVars, watchVars, lookVars, Notify,
       evalVars, ObserveTypeOK, Settled, Current, Event
<1>3. ASSUME NEW s \in Session, Settle(s)
      PROVE  Settled'
  BY <1>3
     DEF Settle, ptyVars, endVars, eventVars, watchVars, lookVars,
       ObserveTypeOK, Settled, Current, Event
<1>4. ASSUME NEW s \in Session, Read(s)
      PROVE  Settled'
  BY <1>4
     DEF Read, ptyVars, endVars, eventVars, watchVars, lookVars, ObserveTypeOK,
       Settled, Current, Event
<1>5. ASSUME NEW s \in Session, Store(s)
      PROVE  Settled'
  BY <1>5
     DEF Store, endVars, eventVars, watchVars, lookVars, ObserveTypeOK,
       Settled, Current, Event
<1>6. ASSUME NEW s \in Session, EvalEmit(s)
      PROVE  Settled'
  <2>1. /\ last_event'[s] = Event(s, agent[s], exited[s])
        /\ \A r \in Session : r # s => last_event'[r] = last_event[r]
    BY <1>6, Emitted DEF EvalEmit
  <2>2. /\ agent'[s] = agent[s] /\ exited'[s] = exited[s]
        /\ \A r \in Session : r # s => /\ agent'[r] = agent[r]
                                       /\ exited'[r] = exited[r]
                                       /\ eval'[r] = eval[r]
                                       /\ reaper'[r] = reaper[r]
                                       /\ killer'[r] = killer[r]
    BY <1>6 DEF EvalEmit, ptyVars, evalVars, endVars, ObserveTypeOK
  <2>3. last_event'[s] = Current(s)'
    BY <2>1, <2>2 DEF Current
  <2>4. \A r \in Session : r # s => Current(r)' = Current(r)
    BY <2>2 DEF Current
  <2> QED BY <2>1, <2>2, <2>3, <2>4 DEF Settled
<1>7. ASSUME NEW s \in Session, ReapClear(s)
      PROVE  Settled'
  BY <1>7
     DEF ReapClear, evalVars, eventVars, watchVars, lookVars, Notify,
       ObserveTypeOK, Settled, Current, Event
<1>8. ASSUME NEW s \in Session, ReapRemove(s)
      PROVE  Settled'
  BY <1>8
     DEF ReapRemove, evalVars, eventVars, watchVars, lookVars, ObserveTypeOK,
       Settled, Current, Event
<1>9. ASSUME NEW s \in Session, ReapEmit(s)
      PROVE  Settled'
  <2>1. /\ last_event'[s] = Event(s, agent[s], exited[s])
        /\ \A r \in Session : r # s => last_event'[r] = last_event[r]
    BY <1>9, Emitted DEF ReapEmit
  <2>2. /\ agent'[s] = agent[s] /\ exited'[s] = exited[s]
        /\ \A r \in Session : r # s => /\ agent'[r] = agent[r]
                                       /\ exited'[r] = exited[r]
                                       /\ eval'[r] = eval[r]
                                       /\ reaper'[r] = reaper[r]
                                       /\ killer'[r] = killer[r]
    BY <1>9 DEF ReapEmit, ptyVars, evalVars, endVars, ObserveTypeOK
  <2>3. last_event'[s] = Current(s)'
    BY <2>1, <2>2 DEF Current
  <2>4. \A r \in Session : r # s => Current(r)' = Current(r)
    BY <2>2 DEF Current
  <2> QED BY <2>1, <2>2, <2>3, <2>4 DEF Settled
<1>10. ASSUME NEW s \in Session, KillEmit(s)
      PROVE  Settled'
  <2>1. /\ last_event'[s] = Event(s, agent[s], exited[s])
        /\ \A r \in Session : r # s => last_event'[r] = last_event[r]
    BY <1>10, Emitted DEF KillEmit
  <2>2. /\ agent'[s] = agent[s] /\ exited'[s] = exited[s]
        /\ \A r \in Session : r # s => /\ agent'[r] = agent[r]
                                       /\ exited'[r] = exited[r]
                                       /\ eval'[r] = eval[r]
                                       /\ reaper'[r] = reaper[r]
                                       /\ killer'[r] = killer[r]
    BY <1>10 DEF KillEmit, ptyVars, evalVars, endVars, ObserveTypeOK
  <2>3. last_event'[s] = Current(s)'
    BY <2>1, <2>2 DEF Current
  <2>4. \A r \in Session : r # s => Current(r)' = Current(r)
    BY <2>2 DEF Current
  <2> QED BY <2>1, <2>2, <2>3, <2>4 DEF Settled
<1>15. ASSUME NEW s \in Session, KillExited(s)
       PROVE  Settled'
  BY <1>15
     DEF KillExited, evalVars, eventVars, watchVars, lookVars, ObserveTypeOK,
         Settled, Current, Event
<1>16. ASSUME NEW s \in Session, KillClear(s)
      PROVE  Settled'
  BY <1>16
     DEF KillClear, evalVars, eventVars, watchVars, lookVars, Notify,
         ObserveTypeOK, Settled, Current, Event
<1>11. ASSUME NEW s \in Session, ReapExited(s)
       PROVE  Settled'
  BY <1>11
     DEF ReapExited, evalVars, eventVars, watchVars, lookVars, ObserveTypeOK,
       Settled, Current, Event
<1>12. CASE \E w \in Watcher :
               Subscribe(w) \/ Snapshot(w) \/ Write(w) \/
               Receive(w) \/
               Lagged(w) \/ Unwatch(w)
  BY <1>12
     DEF Subscribe, Snapshot, Write, Receive, Lagged, Unwatch, ptyVars,
       evalVars, endVars, eventVars, lookVars, Event, ObserveTypeOK, Settled,
       Current
<1>13. CASE \E o \in Observer :
               Open(o) \/ Update(o) \/ Look(o) \/ Send(o) \/
               Wake(o) \/
               Leave(o)
  BY <1>13
     DEF Open, Update, Look, Send, Wake, Leave, ptyVars, evalVars, endVars,
       eventVars, watchVars, OGoto, lookVars, ObserveTypeOK, Settled, Current,
       Event
<1>14. CASE UNCHANGED observeVars
  BY <1>14 DEF observeVars, ObserveTypeOK, Settled, Current, Event
<1> QED
  BY <1>1, <1>2, <1>3, <1>4, <1>5, <1>6, <1>7, <1>8, <1>9, <1>10, <1>11,
     <1>12, <1>13, <1>14, <1>15, <1>16
  DEF ObserveNext, EvalStep, EndStep, KillStep, WatchStep, LookStep

\* A watcher takes one event, or one look at the table, at a time.
LEMMA WritesStep == EventsInv /\ [ObserveNext]_observeVars => Writes'
<1> SUFFICES ASSUME EventsInv, [ObserveNext]_observeVars PROVE Writes'
  OBVIOUS
<1> USE DEF EventsInv
<1>1. CASE Elsewhere
  <2>1. /\ Event(Other, 0, FALSE) \in PtyEvent
        /\ Push(Event(Other, 0, FALSE))
    BY <1>1, EventTypes DEF Elsewhere
  <2>2. UNCHANGED <<wpc, out, view, lagged>>
    BY <1>1 DEF Elsewhere, watchVars
  <2>3. \A w \in Watcher : wpc[w] = "off" => queue'[w] = queue[w] /\ gap'[w] = gap[w]
    BY <2>1, Pushed
  <2> QED BY <2>2, <2>3 DEF Writes
<1>2. CASE \E s \in Session :
              Output(s) \/ Settle(s) \/ Read(s) \/ Store(s) \/
              ReapClear(s)
              \/ ReapRemove(s) \/ Kill(s) \/ KillClear(s) \/ KillExited(s) \/ ReapExited(s)
  BY <1>2
     DEF Output, Settle, Read, Store, ReapClear, ReapRemove, Kill, KillClear,
         KillExited, ReapExited, endVars, eventVars, watchVars, lookVars,
         Notify, ptyVars, evalVars, ObserveTypeOK, Writes
<1>3. ASSUME NEW s \in Session, EvalEmit(s)
      PROVE  Writes'
  <2>1. /\ Event(s, agent[s], exited[s]) \in PtyEvent
        /\ Emit(s, Event(s, agent[s], exited[s]))
    BY <1>3, EventTypes DEF EvalEmit, ObserveTypeOK
  <2>2. \A w \in Watcher : wpc[w] = "off" => queue'[w] = queue[w] /\ gap'[w] = gap[w]
    BY <2>1, Pushed, Emitted
  <2>3. UNCHANGED <<wpc, out, view, lagged>>
    BY <1>3 DEF EvalEmit, watchVars
  <2> QED BY <2>2, <2>3 DEF Writes
<1>4. ASSUME NEW s \in Session, ReapEmit(s)
      PROVE  Writes'
  <2>1. /\ Event(s, agent[s], exited[s]) \in PtyEvent
        /\ Emit(s, Event(s, agent[s], exited[s]))
    BY <1>4, EventTypes DEF ReapEmit, ObserveTypeOK
  <2>2. \A w \in Watcher : wpc[w] = "off" => queue'[w] = queue[w] /\ gap'[w] = gap[w]
    BY <2>1, Pushed, Emitted
  <2>3. UNCHANGED <<wpc, out, view, lagged>>
    BY <1>4 DEF ReapEmit, watchVars
  <2> QED BY <2>2, <2>3 DEF Writes
<1>5. ASSUME NEW s \in Session, KillEmit(s)
      PROVE  Writes'
  <2>1. /\ Event(s, agent[s], exited[s]) \in PtyEvent
        /\ Emit(s, Event(s, agent[s], exited[s]))
    BY <1>5, EventTypes DEF KillEmit, ObserveTypeOK
  <2>2. \A w \in Watcher : wpc[w] = "off" => queue'[w] = queue[w] /\ gap'[w] = gap[w]
    BY <2>1, Pushed, Emitted
  <2>3. UNCHANGED <<wpc, out, view, lagged>>
    BY <1>5 DEF KillEmit, watchVars
  <2> QED BY <2>2, <2>3 DEF Writes
<1>6. ASSUME NEW w \in Watcher, Subscribe(w)
      PROVE  Writes'
  BY <1>6
     DEF Subscribe, ptyVars, evalVars, endVars, eventVars, lookVars,
       ObserveTypeOK, Writes
<1>7. ASSUME NEW w \in Watcher, Snapshot(w)
      PROVE  Writes'
  <2>1. \A e, f \in out'[w] : e.name = f.name => e = f
    BY <1>7 DEF Snapshot, Event, ObserveTypeOK
  <2>2. /\ UNCHANGED <<queue, gap, view, lagged>> /\ wpc'[w] = "write"
        /\ \A v \in Watcher : v # w => wpc'[v] = wpc[v] /\ out'[v] = out[v]
    BY <1>7 DEF Snapshot, eventVars, ObserveTypeOK
  <2> QED BY <2>1, <2>2 DEF Writes
<1>8. ASSUME NEW w \in Watcher, Write(w)
      PROVE  Writes'
  BY <1>8
     DEF Write, ptyVars, evalVars, endVars, eventVars, lookVars, ObserveTypeOK,
       Writes
<1>9. ASSUME NEW w \in Watcher, Receive(w)
      PROVE  Writes'
  BY <1>9
     DEF Receive, ptyVars, evalVars, endVars, lookVars, ObserveTypeOK, Writes
<1>10. ASSUME NEW w \in Watcher, Lagged(w)
       PROVE  Writes'
  BY <1>10
     DEF Lagged, ptyVars, evalVars, endVars, lookVars, ObserveTypeOK, Writes
<1>11. ASSUME NEW w \in Watcher, Unwatch(w)
       PROVE  Writes'
  <2>1. /\ queue'[w] = <<>> /\ ~gap'[w] /\ ~lagged'[w] /\ out'[w] = {}
        /\ \A s \in Session : view'[w][s] = Nothing
        /\ wpc'[w] = "off"
    BY <1>11 DEF Unwatch, ObserveTypeOK
  <2>2. ASSUME NEW v \in Watcher, v # w
        PROVE  /\ queue'[v] = queue[v] /\ gap'[v] = gap[v]
               /\ lagged'[v] = lagged[v] /\ out'[v] = out[v]
               /\ view'[v] = view[v] /\ wpc'[v] = wpc[v]
    BY <1>11, <2>2 DEF Unwatch, ObserveTypeOK
  <2> QED BY <2>1, <2>2 DEF Writes
<1>12. CASE \E o \in Observer :
               Open(o) \/ Update(o) \/ Look(o) \/ Send(o) \/
               Wake(o) \/
               Leave(o)
  BY <1>12
     DEF Open, Update, Look, Send, Wake, Leave, ptyVars, evalVars, endVars,
       eventVars, watchVars, OGoto, lookVars, ObserveTypeOK, Writes
<1>13. CASE UNCHANGED observeVars
  BY <1>13 DEF observeVars, ObserveTypeOK, Writes
<1> QED
  BY <1>1, <1>2, <1>3, <1>4, <1>5, <1>6, <1>7, <1>8, <1>9, <1>10, <1>11,
     <1>12, <1>13
  DEF ObserveNext, EvalStep, EndStep, KillStep, WatchStep, LookStep

\* The newest event of a terminal is the last of a ring that it is added to.
LEMMA RingPush ==
  ASSUME NEW q \in Seq(PtyEvent), NEW r \in Seq(PtyEvent), NEW e \in
         PtyEvent,
         NEW k \in {0, 1}, Grown(q, r, e, k),
         NEW s \in Session, NEW l, NEW x \in BOOLEAN, NEW y \in BOOLEAN,
         RingFits(q, s, l, x)
  PROVE  /\ e.name # s => RingFits(r, s, l, x)
         /\ e.name = s /\ (e.exited => y) /\ (x => e.exited) => RingFits(r, s, e, y)
         /\ e.name = s => ~Silent(r, s)
         /\ e.name # s /\ k = 0 /\ Silent(r, s) => Silent(q, s)
<1> DEFINE n == Len(r)
<1>1. /\ n \in Nat \ {0} /\ n \in 1..n /\ Len(q) \in Nat
      /\ Len(q) = n - 1 + k /\ r[n] = e
  BY DEF Grown
<1>2. ASSUME NEW i \in 1..n, i # n
      PROVE  i + k \in 1..Len(q) /\ r[i] = q[i + k]
  BY <1>1, <1>2 DEF Grown
<1>3. ASSUME e.name # s PROVE RingFits(r, s, l, x)
  <2>1. ASSUME NEW i \in 1..n, r[i].name = s
        PROVE  r[i] = l \/ \E j \in 1..n : i < j /\ r[j].name = s
    <3>1. i # n /\ i + k \in 1..Len(q) /\ r[i] = q[i + k]
      BY <1>1, <1>2, <1>3, <2>1
    <3>2. CASE q[i + k] = l
      BY <3>1, <3>2
    <3>3. CASE \E j \in 1..Len(q) : i + k < j /\ q[j].name = s
      <4>1. PICK j \in 1..Len(q) : i + k < j /\ q[j].name = s
        BY <3>3
      <4>2. j - k \in 1..n /\ j - k # n /\ i < j - k /\ (j - k) + k = j
        BY <1>1, <4>1
      <4>3. r[j - k] = q[j]
        BY <1>2, <4>2
      <4> QED BY <4>1, <4>2, <4>3
    <3> QED BY <2>1, <3>1, <3>2, <3>3 DEF RingFits, NewestLast
  <2>2. ASSUME NEW i \in 1..n, r[i].name = s, r[i].exited
        PROVE  x /\ \A j \in 1..n : i < j /\ r[j].name = s => r[j].exited
    <3>1. i # n /\ i + k \in 1..Len(q) /\ r[i] = q[i + k]
      BY <1>1, <1>2, <1>3, <2>2
    <3>2. x /\ \A j \in 1..Len(q) : i + k < j /\ q[j].name = s => q[j].exited
      BY <2>2, <3>1 DEF RingFits
    <3>3. ASSUME NEW j \in 1..n, i < j, r[j].name = s PROVE r[j].exited
      <4>1. j # n /\ j + k \in 1..Len(q) /\ r[j] = q[j + k]
        BY <1>1, <1>2, <1>3, <3>3
      <4>2. i + k < j + k
        BY <1>1, <3>3
      <4> QED BY <3>2, <3>3, <4>1, <4>2
    <3> QED BY <3>2, <3>3
  <2> QED BY <2>1, <2>2 DEF RingFits, NewestLast
<1>4. ASSUME e.name = s, e.exited => y, x => e.exited PROVE RingFits(r, s, e,
             y)
  <2>1. ASSUME NEW i \in 1..n, r[i].name = s
        PROVE  r[i] = e \/ \E j \in 1..n : i < j /\ r[j].name = s
    <3>1. CASE i = n
      BY <1>1, <3>1
    <3>2. CASE i # n
      <4>1. i < n /\ n \in 1..n /\ r[n].name = s
        BY <1>1, <1>4, <3>2
      <4> QED BY <4>1
    <3> QED BY <3>1, <3>2
  <2>2. ASSUME NEW i \in 1..n, r[i].name = s, r[i].exited
        PROVE  y /\ \A j \in 1..n : i < j /\ r[j].name = s => r[j].exited
    <3>1. CASE i = n
      BY <1>1, <1>4, <2>2, <3>1
    <3>2. CASE i # n
      <4>1. i + k \in 1..Len(q) /\ r[i] = q[i + k]
        BY <1>2, <3>2
      <4>2. x /\ \A j \in 1..Len(q) : i + k < j /\ q[j].name = s => q[j].exited
        BY <2>2, <4>1 DEF RingFits
      <4>3. e.exited /\ y
        BY <1>4, <4>2
      <4>4. ASSUME NEW j \in 1..n, i < j, r[j].name = s PROVE r[j].exited
        <5>1. CASE j = n
          BY <1>1, <4>3, <5>1
        <5>2. CASE j # n
          <6>1. j + k \in 1..Len(q) /\ r[j] = q[j + k]
            BY <1>2, <5>2
          <6>2. i + k < j + k
            BY <1>1, <4>4
          <6> QED BY <4>2, <4>4, <6>1, <6>2
        <5> QED BY <5>1, <5>2
      <4> QED BY <4>3, <4>4
    <3> QED BY <3>1, <3>2
  <2> QED BY <2>1, <2>2 DEF RingFits, NewestLast
<1>5. e.name = s => ~Silent(r, s)
  BY <1>1 DEF Silent
<1>6. ASSUME e.name # s, k = 0, Silent(r, s), NEW i \in 1..Len(q)
      PROVE  q[i].name # s
  <2>1. i \in 1..n /\ i # n /\ i + k = i
    BY <1>1, <1>6
  <2>2. r[i] = q[i]
    BY <1>2, <2>1
  <2> QED BY <1>6, <2>1, <2>2 DEF Silent
<1> QED BY <1>3, <1>4, <1>5, <1>6 DEF Silent

\* A ring without its oldest event; when that was the last of the terminal's,
\* it was its newest.
LEMMA RingTail ==
  ASSUME NEW q \in Seq(PtyEvent), q # <<>>, NEW s \in Session, NEW l,
         NEW x \in BOOLEAN, RingFits(q, s, l, x)
  PROVE  /\ RingFits(Tail(q), s, l, x)
         /\ Silent(Tail(q), s) /\ q[1].name = s => q[1] = l
         /\ Silent(Tail(q), s) /\ q[1].name # s => Silent(q, s)
<1> DEFINE t == Tail(q)
<1>1. /\ t \in Seq(PtyEvent) /\ Len(q) \in Nat \ {0} /\ Len(t) = Len(q) - 1
      /\ \A i \in 1..Len(t) : t[i] = q[i + 1]
  BY Tails
<1> HIDE DEF t
<1>2. ASSUME NEW i \in 1..Len(q), i # 1
      PROVE  i - 1 \in 1..Len(t) /\ (i - 1) + 1 = i /\ t[i - 1] = q[i]
  BY <1>1, <1>2
<1>3. ASSUME NEW i \in 1..Len(t)
      PROVE  i + 1 \in 1..Len(q) /\ t[i] = q[i + 1]
  BY <1>1
<1>4. NewestLast(t, s, l)
  <2> SUFFICES ASSUME NEW i \in 1..Len(t), t[i].name = s
               PROVE  t[i] = l \/ \E j \in 1..Len(t) : i < j /\ t[j].name = s
    BY DEF NewestLast
  <2>1. q[i + 1] = l \/ \E j \in 1..Len(q) : i + 1 < j /\ q[j].name = s
    BY <1>3 DEF RingFits, NewestLast
  <2>2. CASE \E j \in 1..Len(q) : i + 1 < j /\ q[j].name = s
    <3>1. PICK j \in 1..Len(q) : i + 1 < j /\ q[j].name = s
      BY <2>2
    <3>2. j # 1 /\ i < j - 1
      BY <1>1, <3>1
    <3> QED BY <1>2, <3>1, <3>2
  <2> QED BY <1>3, <2>1, <2>2
<1>5. ASSUME NEW i \in 1..Len(t), t[i].name = s, t[i].exited
      PROVE  x /\ \A j \in 1..Len(t) : i < j /\ t[j].name = s => t[j].exited
  <2>1. x /\ \A j \in 1..Len(q) : i + 1 < j /\ q[j].name = s => q[j].exited
    BY <1>3, <1>5 DEF RingFits
  <2>2. ASSUME NEW j \in 1..Len(t), i < j, t[j].name = s PROVE t[j].exited
    <3>1. j + 1 \in 1..Len(q) /\ t[j] = q[j + 1] /\ i + 1 < j + 1
      BY <1>1, <1>3, <2>2
    <3> QED BY <2>1, <2>2, <3>1
  <2> QED BY <2>1, <2>2
<1>6. 1 \in 1..Len(q)
  BY <1>1
<1>7. ASSUME Silent(t, s), q[1].name = s PROVE q[1] = l
  <2>1. q[1] = l \/ \E j \in 1..Len(q) : 1 < j /\ q[j].name = s
    BY <1>6, <1>7 DEF RingFits, NewestLast
  <2>2. ASSUME NEW j \in 1..Len(q), 1 < j, q[j].name = s PROVE FALSE
    BY <1>2, <1>7, <2>2 DEF Silent
  <2> QED BY <2>1, <2>2
<1>8. ASSUME Silent(t, s), q[1].name # s PROVE Silent(q, s)
  BY <1>2, <1>8 DEF Silent
<1> QED BY <1>4, <1>5, <1>7, <1>8 DEF RingFits, t

\* A broadcast fits every ring that the events before it fit.
LEMMA PushRings ==
  ASSUME ObserveParameters, ObserveTypeOK, Writes, Rings, NEW e \in PtyEvent,
         Push(e),
         NEW w \in Watcher, NEW s \in Session, NEW y \in BOOLEAN
  PROVE  /\ e.name # s => RingFits(queue'[w], s, last_event[s], exited[s])
         /\ e.name = s /\ (e.exited => y) /\ (exited[s] => e.exited) =>
               RingFits(queue'[w], s, e, y)
         /\ wpc[w] # "off" /\ e.name = s => ~Silent(queue'[w], s)
         /\ wpc[w] # "off" /\ ~gap'[w] /\ Silent(queue'[w], s) =>
               ~gap[w] /\ Silent(queue[w], s)
<1>1. /\ queue[w] \in Seq(PtyEvent) /\ exited[s] \in BOOLEAN
      /\ RingFits(queue[w], s, last_event[s], exited[s])
  BY DEF ObserveTypeOK, Rings
<1>2. CASE wpc[w] = "off"
  <2>1. queue'[w] = <<>>
    BY <1>2, Pushed DEF Writes
  <2> QED BY <1>2, <2>1 DEF RingFits, NewestLast
<1>3. CASE wpc[w] # "off"
  <2>1. PICK k \in {0, 1} :
               /\ IF k = 1 THEN gap'[w] ELSE gap'[w] = gap[w]
               /\ queue'[w] \in Seq(PtyEvent)
               /\ Grown(queue[w], queue'[w], e, k)
    BY <1>3, Pushed
  <2> DEFINE q == queue[w]
             r == queue'[w]
  <2>2. /\ q \in Seq(PtyEvent) /\ r \in Seq(PtyEvent)
        /\ Grown(q, r, e, k) /\ RingFits(q, s, last_event[s], exited[s])
    BY <1>1, <2>1
  <2> HIDE DEF q, r
  <2>3. /\ e.name # s => RingFits(r, s, last_event[s], exited[s])
        /\ e.name = s /\ (e.exited => y) /\ (exited[s] => e.exited) => RingFits(r, s, e, y)
        /\ e.name = s => ~Silent(r, s)
        /\ e.name # s /\ k = 0 /\ Silent(r, s) => Silent(q, s)
    BY <1>1, <2>2, RingPush
  <2>4. ~gap'[w] => k = 0 /\ ~gap[w]
    BY <2>1
  <2> QED BY <2>3, <2>4 DEF q, r
<1> QED BY <1>2, <1>3

\* An emit fits every ring, whether or not the event is news.
LEMMA EmitRings ==
  ASSUME EventsInv, NEW s \in Session, NEW e \in PtyEvent, e.name = s,
         Emit(s, e),
         NEW y \in BOOLEAN, exited[s] => e.exited, e.exited => y,
         NEW w \in Watcher
  PROVE  /\ RingFits(queue'[w], s, e, y)
         /\ \A r \in Session : r # s => RingFits(queue'[w], r, last_event[r], exited[r])
<1> USE DEF EventsInv
<1>1. CASE last_event[s] = e /\ UNCHANGED <<last_event, queue, gap, unseen>>
  <2>1. RingFits(queue[w], s, e, exited[s])
    BY <1>1 DEF Rings
  <2>2. RingFits(queue[w], s, e, y)
    BY <2>1 DEF RingFits
  <2> QED BY <1>1, <2>2 DEF Rings
<1>2. CASE Push(e)
  <2>1. RingFits(queue'[w], s, e, y)
    BY <1>2, PushRings
  <2>2. ASSUME NEW r \in Session, r # s
        PROVE  RingFits(queue'[w], r, last_event[r], exited[r])
    BY <1>2, <2>2, PushRings
  <2> QED BY <2>1, <2>2
<1> QED BY <1>1, <1>2, Emitted

\* A watcher that has nothing to hear of a terminal after an emit had nothing
\* before, and the emit was no news of it.
LEMMA EmitSilent ==
  ASSUME EventsInv, NEW s \in Session, NEW e \in PtyEvent, e.name = s,
         Emit(s, e),
         NEW w \in Watcher, wpc[w] # "off", ~gap'[w],
         NEW r \in Session, Silent(queue'[w], r)
  PROVE  ~gap[w] /\ Silent(queue[w], r) /\ (r = s => last_event[s] = e)
<1> USE DEF EventsInv
<1>1. CASE last_event[s] = e /\ UNCHANGED <<last_event, queue, gap, unseen>>
  BY <1>1
<1>2. CASE Push(e)
  <2>1. ~gap[w] /\ Silent(queue[w], r) /\ (e.name = r => ~Silent(queue'[w], r))
    BY <1>2, PushRings
  <2> QED BY <2>1
<1> QED BY <1>1, <1>2, Emitted

\* Rings stay in the order of the terminals' states.
LEMMA RingStep == EventsInv /\ [ObserveNext]_observeVars => Rings'
<1> SUFFICES ASSUME EventsInv, [ObserveNext]_observeVars PROVE Rings'
  OBVIOUS
<1> USE DEF EventsInv
<1>1. CASE Elsewhere
  <2>1. /\ Event(Other, 0, FALSE) \in PtyEvent
        /\ Push(Event(Other, 0, FALSE))
        /\ Event(Other, 0, FALSE).name = Other
    BY <1>1, EventTypes DEF Elsewhere
  <2>2. last_event' = last_event /\ exited' = exited
    BY <1>1 DEF Elsewhere, ptyVars
  <2>3. ASSUME NEW w \in Watcher, NEW s \in Session
        PROVE  RingFits(queue'[w], s, last_event[s], exited[s])
    BY <2>1, PushRings DEF ObserveParameters
  <2> QED BY <2>2, <2>3 DEF Rings
<1>2. CASE \E s \in Session :
              Output(s) \/ Settle(s) \/ Read(s) \/ Store(s) \/
              ReapClear(s)
              \/ ReapRemove(s) \/ Kill(s) \/ KillClear(s)
  BY <1>2
     DEF Output, Settle, Read, Store, ReapClear, ReapRemove, Kill, KillClear,
         endVars, eventVars, watchVars, lookVars, Notify, ptyVars, evalVars,
         Rings
<1>3. ASSUME NEW s \in Session, EvalEmit(s)
      PROVE  Rings'
  <2>1. /\ Event(s, agent[s], exited[s]) \in PtyEvent
        /\ Event(s, agent[s], exited[s]).name = s
        /\ Event(s, agent[s], exited[s]).exited = exited[s]
        /\ Emit(s, Event(s, agent[s], exited[s]))
    BY <1>3, EventTypes DEF EvalEmit, ObserveTypeOK
  <2>2. /\ exited'[s] = exited[s] /\ exited'[s] \in BOOLEAN
        /\ \A r \in Session : r # s => exited'[r] = exited[r]
    BY <1>3 DEF EvalEmit, ptyVars, ObserveTypeOK
  <2>3. /\ last_event'[s] = Event(s, agent[s], exited[s])
        /\ \A r \in Session : r # s => last_event'[r] = last_event[r]
    BY <2>1, Emitted
  <2>4. ASSUME NEW w \in Watcher, NEW r \in Session
        PROVE  RingFits(queue'[w], r, last_event'[r], exited'[r])
    <3>1. CASE r = s
      <4>1. /\ exited[s] => Event(s, agent[s], exited[s]).exited
            /\ Event(s, agent[s], exited[s]).exited => exited'[s]
        BY <2>1, <2>2
      <4> DEFINE e == Event(s, agent[s], exited[s])
                 y == exited'[s]
      <4>2. /\ e \in PtyEvent
            /\ e.name = s
            /\ Emit(s, e)
            /\ y \in BOOLEAN
            /\ exited[s] => e.exited
            /\ e.exited => y
        BY <2>1, <2>2, <4>1
      <4> HIDE DEF e, y
      <4>3. RingFits(queue'[w], s, e, y)
        BY <4>2, EmitRings
      <4> QED BY <2>3, <3>1, <4>3 DEF e, y
    <3>2. CASE r # s
      <4>1. RingFits(queue'[w], r, last_event[r], exited[r])
        BY <2>1, <3>2, EmitRings
      <4> QED BY <2>2, <2>3, <3>2, <4>1
    <3> QED BY <3>1, <3>2
  <2> QED BY <2>4 DEF Rings
<1>4. ASSUME NEW s \in Session, ReapEmit(s)
      PROVE  Rings'
  <2>1. /\ Event(s, agent[s], exited[s]) \in PtyEvent
        /\ Event(s, agent[s], exited[s]).name = s
        /\ Event(s, agent[s], exited[s]).exited = exited[s]
        /\ Emit(s, Event(s, agent[s], exited[s]))
    BY <1>4, EventTypes DEF ReapEmit, ObserveTypeOK
  <2>2. /\ exited'[s] = exited[s] /\ exited'[s] \in BOOLEAN
        /\ \A r \in Session : r # s => exited'[r] = exited[r]
    BY <1>4 DEF ReapEmit, ptyVars, ObserveTypeOK
  <2>3. /\ last_event'[s] = Event(s, agent[s], exited[s])
        /\ \A r \in Session : r # s => last_event'[r] = last_event[r]
    BY <2>1, Emitted
  <2>4. ASSUME NEW w \in Watcher, NEW r \in Session
        PROVE  RingFits(queue'[w], r, last_event'[r], exited'[r])
    <3>1. CASE r = s
      <4>1. /\ exited[s] => Event(s, agent[s], exited[s]).exited
            /\ Event(s, agent[s], exited[s]).exited => exited'[s]
        BY <2>1, <2>2
      <4> DEFINE e == Event(s, agent[s], exited[s])
                 y == exited'[s]
      <4>2. /\ e \in PtyEvent
            /\ e.name = s
            /\ Emit(s, e)
            /\ y \in BOOLEAN
            /\ exited[s] => e.exited
            /\ e.exited => y
        BY <2>1, <2>2, <4>1
      <4> HIDE DEF e, y
      <4>3. RingFits(queue'[w], s, e, y)
        BY <4>2, EmitRings
      <4> QED BY <2>3, <3>1, <4>3 DEF e, y
    <3>2. CASE r # s
      <4>1. RingFits(queue'[w], r, last_event[r], exited[r])
        BY <2>1, <3>2, EmitRings
      <4> QED BY <2>2, <2>3, <3>2, <4>1
    <3> QED BY <3>1, <3>2
  <2> QED BY <2>4 DEF Rings
<1>5. ASSUME NEW s \in Session, KillEmit(s)
      PROVE  Rings'
  <2>1. /\ Event(s, agent[s], exited[s]) \in PtyEvent
        /\ Event(s, agent[s], exited[s]).name = s
        /\ Event(s, agent[s], exited[s]).exited = exited[s]
        /\ Emit(s, Event(s, agent[s], exited[s]))
    BY <1>5, EventTypes DEF KillEmit, ObserveTypeOK
  <2>2. /\ exited'[s] = exited[s] /\ exited'[s] \in BOOLEAN
        /\ \A r \in Session : r # s => exited'[r] = exited[r]
    BY <1>5 DEF KillEmit, ptyVars, ObserveTypeOK
  <2>3. /\ last_event'[s] = Event(s, agent[s], exited[s])
        /\ \A r \in Session : r # s => last_event'[r] = last_event[r]
    BY <2>1, Emitted
  <2>4. ASSUME NEW w \in Watcher, NEW r \in Session
        PROVE  RingFits(queue'[w], r, last_event'[r], exited'[r])
    <3>1. CASE r = s
      <4>1. /\ exited[s] => Event(s, agent[s], exited[s]).exited
            /\ Event(s, agent[s], exited[s]).exited => exited'[s]
        BY <2>1, <2>2
      <4> DEFINE e == Event(s, agent[s], exited[s])
                 y == exited'[s]
      <4>2. /\ e \in PtyEvent
            /\ e.name = s
            /\ Emit(s, e)
            /\ y \in BOOLEAN
            /\ exited[s] => e.exited
            /\ e.exited => y
        BY <2>1, <2>2, <4>1
      <4> HIDE DEF e, y
      <4>3. RingFits(queue'[w], s, e, y)
        BY <4>2, EmitRings
      <4> QED BY <2>3, <3>1, <4>3 DEF e, y
    <3>2. CASE r # s
      <4>1. RingFits(queue'[w], r, last_event[r], exited[r])
        BY <2>1, <3>2, EmitRings
      <4> QED BY <2>2, <2>3, <3>2, <4>1
    <3> QED BY <3>1, <3>2
  <2> QED BY <2>4 DEF Rings
<1>12. ASSUME NEW s \in Session, KillExited(s)
      PROVE  Rings'
  <2>1. UNCHANGED <<queue, last_event>>
    BY <1>12 DEF KillExited, eventVars
  <2>2. \A r \in Session : exited[r] => exited'[r]
    BY <1>12 DEF KillExited, ObserveTypeOK
  <2> QED BY <2>1, <2>2 DEF Rings, RingFits
<1>6. ASSUME NEW s \in Session, ReapExited(s)
      PROVE  Rings'
  <2>1. UNCHANGED <<queue, last_event>>
    BY <1>6 DEF ReapExited, eventVars
  <2>2. \A r \in Session : exited[r] => exited'[r]
    BY <1>6 DEF ReapExited, ObserveTypeOK
  <2> QED BY <2>1, <2>2 DEF Rings, RingFits
<1>7. CASE \E w \in Watcher :
              Subscribe(w) \/ Snapshot(w) \/ Write(w) \/
              Lagged(w)
  BY <1>7
     DEF Subscribe, Snapshot, Write, Lagged, ptyVars, evalVars, endVars,
       eventVars, lookVars, Event, Rings
<1>8. ASSUME NEW w \in Watcher, Receive(w)
      PROVE  Rings'
  <2>1. UNCHANGED <<last_event, exited>>
    BY <1>8 DEF Receive, ptyVars
  <2>2. /\ queue[w] \in Seq(PtyEvent) /\ queue[w] # <<>>
        /\ queue'[w] = Tail(queue[w])
        /\ \A v \in Watcher : v # w => queue'[v] = queue[v]
    BY <1>8 DEF Receive, ObserveTypeOK
  <2>3. ASSUME NEW s \in Session
        PROVE  RingFits(Tail(queue[w]), s, last_event[s], exited[s])
    <3>1. RingFits(queue[w], s, last_event[s], exited[s]) /\ exited[s] \in BOOLEAN
      BY DEF Rings, ObserveTypeOK
    <3> QED BY <2>2, <3>1, RingTail
  <2> QED BY <2>1, <2>2, <2>3 DEF Rings
<1>9. ASSUME NEW w \in Watcher, Unwatch(w)
      PROVE  Rings'
  <2>1. UNCHANGED <<last_event, exited>>
    BY <1>9 DEF Unwatch, ptyVars
  <2>2. /\ queue'[w] = <<>>
        /\ \A v \in Watcher : v # w => queue'[v] = queue[v]
    BY <1>9 DEF Unwatch, ObserveTypeOK
  <2>3. \A s \in Session : RingFits(<<>>, s, last_event[s], exited[s])
    BY DEF RingFits, NewestLast
  <2> QED BY <2>1, <2>2, <2>3 DEF Rings
<1>10. CASE \E o \in Observer :
               Open(o) \/ Update(o) \/ Look(o) \/ Send(o) \/
               Wake(o) \/
               Leave(o)
  BY <1>10
     DEF Open, Update, Look, Send, Wake, Leave, ptyVars, evalVars, endVars,
       eventVars, watchVars, OGoto, lookVars, Rings
<1>11. CASE UNCHANGED observeVars
  BY <1>11 DEF observeVars, Rings
<1> QED
  BY <1>1, <1>2, <1>3, <1>4, <1>5, <1>6, <1>7, <1>8, <1>9, <1>10, <1>11, <1>12
     DEF ObserveNext, EvalStep, EndStep, KillStep, WatchStep, LookStep

\* What is told by the events written, and by what was written before.
LEMMA Tellings ==
  ASSUME NEW p, NEW v, NEW s
  PROVE  /\ (\A e \in p : e.name # s) => ToldOf(p, v, s) = v[s]
         /\ \A e \in p : e.name = s /\ (\A f \in p : e.name = f.name => e = f) =>
               ToldOf(p, v, s) = e
  BY DEF ToldOf

\* The state a terminal has before its agent is stored is one its last event
\* has said, so a different agent is news.
LEMMA StoreIsNews ==
  ASSUME EventsInv, NEW s \in Session, Store(s), reaper[s] = "no",
         killer[s] \in {"no", "unlisted", "done"}, agent'[s] # agent[s]
  PROVE  last_event'[s] # Current(s)'
<1> USE DEF EventsInv
<1>1. /\ exited' = exited /\ last_event' = last_event /\ eval[s] = "read"
      /\ agent'[s] = reading[s] /\ agent'[s] \in Screen
  BY DEF Store, eventVars, ObserveTypeOK
<1>2. Current(s)' # Nothing /\ Current(s)'.agent = agent'[s]
  BY <1>1, EventTypes DEF Current, ObserveTypeOK
<1>3. Current(s).agent = agent[s]
  BY EventTypes DEF Current, ObserveTypeOK
<1>4. last_event[s] = Current(s) \/ last_event[s] = Nothing
  BY <1>1 DEF Settled
<1> QED BY <1>1, <1>2, <1>3, <1>4

\* What is emitted reaches a watcher, or leaves a gap that makes it look again.
LEMMA WatcherStep == EventsInv /\ [ObserveNext]_observeVars => WatcherKnows'
<1> SUFFICES ASSUME EventsInv, [ObserveNext]_observeVars PROVE WatcherKnows'
  OBVIOUS
<1> USE DEF EventsInv
<1>1. CASE Elsewhere
  <2>1. /\ Event(Other, 0, FALSE) \in PtyEvent
        /\ Push(Event(Other, 0, FALSE))
    BY <1>1, EventTypes DEF Elsewhere
  <2>2. UNCHANGED <<wpc, out, view, lagged, listed, last_event, exited, agent, eval, reaper>>
    BY <1>1 DEF Elsewhere, ptyVars, evalVars, endVars, watchVars
  <2>3. ASSUME NEW w \in Watcher, NEW s \in Session,
               wpc'[w] \in {"write", "receive"}, ~gap'[w], Silent(queue'[w], s)
        PROVE  ~gap[w] /\ Silent(queue[w], s)
    BY <2>1, <2>2, <2>3, PushRings
  <2> QED BY <2>2, <2>3 DEF WatcherKnows, WatcherIsTold, Known, Current
<1>2. CASE \E s \in Session : Output(s)
  BY <1>2
     DEF Output, endVars, eventVars, watchVars, lookVars, Notify,
       ObserveTypeOK, WatcherKnows, WatcherIsTold, Known, Current
<1>3. ASSUME NEW s \in Session, Settle(s)
      PROVE  WatcherKnows'
  BY <1>3
     DEF Settle, ptyVars, endVars, eventVars, watchVars, lookVars,
       ObserveTypeOK, WatcherKnows, WatcherIsTold, Known, Current
<1>4. ASSUME NEW s \in Session, Read(s)
      PROVE  WatcherKnows'
  BY <1>4
     DEF Read, ptyVars, endVars, eventVars, watchVars, lookVars, ObserveTypeOK,
       WatcherKnows, WatcherIsTold, Known, Current
<1>5. ASSUME NEW s \in Session, Store(s)
      PROVE  WatcherKnows'
  <2>1. /\ UNCHANGED <<wpc, out, view, lagged, listed, queue, gap, last_event, exited, reaper>>
        /\ \A r \in Session : r # s => agent'[r] = agent[r] /\ eval'[r] = eval[r]
        /\ eval[s] = "read" /\ eval'[s] = "wrote"
    BY <1>5 DEF Store, watchVars, eventVars, endVars, ObserveTypeOK
  <2>2. ASSUME NEW w \in Watcher PROVE WatcherIsTold(w, s)'
    <3>1. CASE agent'[s] = agent[s]
      BY <2>1, <3>1 DEF WatcherKnows, WatcherIsTold, Known, Current
    <3>2. CASE agent'[s] # agent[s] /\ reaper[s] = "no" /\ s \in listed
      <4>1. killer[s] = "no"
        BY <3>2 DEF EndPhases
      <4> QED BY <1>5, <2>1, <3>2, <4>1, StoreIsNews
                 DEF WatcherKnows, WatcherIsTold, Known
    <3>3. CASE reaper[s] # "no" \/ s \notin listed
      BY <2>1, <3>3 DEF WatcherKnows, WatcherIsTold, Known
    <3> QED BY <3>1, <3>2, <3>3
  <2>3. ASSUME NEW w \in Watcher, NEW r \in Session, r # s
        PROVE  WatcherIsTold(w, r)'
    BY <2>1, <2>3 DEF WatcherKnows, WatcherIsTold, Known, Current
  <2> QED BY <2>2, <2>3 DEF WatcherKnows
<1>6. ASSUME NEW s \in Session, EvalEmit(s)
      PROVE  WatcherKnows'
  <2>1. /\ Event(s, agent[s], exited[s]) \in PtyEvent
        /\ Event(s, agent[s], exited[s]).name = s
        /\ Event(s, agent[s], exited[s]).exited = exited[s]
        /\ Emit(s, Event(s, agent[s], exited[s]))
    BY <1>6, EventTypes DEF EvalEmit, ObserveTypeOK
  <2>2. /\ UNCHANGED <<wpc, out, view, lagged, listed>>
        /\ \A r \in Session : r # s =>
              /\ agent'[r] = agent[r] /\ exited'[r] = exited[r]
              /\ eval'[r] = eval[r] /\ reaper'[r] = reaper[r]
    BY <1>6 DEF EvalEmit, watchVars, ptyVars, evalVars, endVars, ObserveTypeOK
  <2>3. /\ last_event'[s] = Event(s, agent[s], exited[s])
        /\ \A r \in Session : r # s => last_event'[r] = last_event[r]
    BY <2>1, Emitted
  <2>4. ASSUME NEW w \in Watcher, NEW r \in Session,
               wpc'[w] \in {"write", "receive"}, ~gap'[w], Silent(queue'[w], r)
        PROVE  WatcherIsTold(w, r)'
    <3>1. /\ wpc[w] \in {"write", "receive"} /\ ~gap[w] /\ Silent(queue[w], r)
          /\ r = s => last_event[s] = Event(s, agent[s], exited[s])
      <4> DEFINE e == Event(s, agent[s], exited[s])
      <4>1. e \in PtyEvent /\ e.name = s /\ Emit(s, e)
        BY <2>1
      <4> HIDE DEF e
      <4>2. /\ wpc[w] \in {"write", "receive"}
            /\ ~gap[w]
            /\ Silent(queue[w], r)
            /\ r = s => last_event[s] = e
        BY <2>2, <2>4, <4>1, EmitSilent
      <4> QED BY <4>2 DEF e
    <3>2. CASE r = s
      <4>1. last_event'[s] = last_event[s]
        BY <2>3, <3>1, <3>2
      <4> QED BY <1>6, <2>2, <3>1, <3>2, <4>1
                 DEF EvalEmit, ptyVars, endVars, WatcherKnows, WatcherIsTold,
                   Known, Current
    <3>3. CASE r # s
      BY <2>2, <2>3, <3>1, <3>3 DEF WatcherKnows, WatcherIsTold, Known, Current
    <3> QED BY <3>2, <3>3
  <2> QED BY <2>4 DEF WatcherKnows, WatcherIsTold
<1>7. ASSUME NEW s \in Session, ReapClear(s)
      PROVE  WatcherKnows'
  BY <1>7
     DEF ReapClear, evalVars, eventVars, watchVars, lookVars, Notify,
       ObserveTypeOK, WatcherKnows, WatcherIsTold, Known, Current
<1>8. ASSUME NEW s \in Session, ReapRemove(s)
      PROVE  WatcherKnows'
  BY <1>8
     DEF ReapRemove, evalVars, eventVars, watchVars, lookVars, ObserveTypeOK,
       WatcherKnows, WatcherIsTold, Known, Current
<1>9. ASSUME NEW s \in Session, ReapEmit(s)
      PROVE  WatcherKnows'
  <2>1. /\ Event(s, agent[s], exited[s]) \in PtyEvent
        /\ Event(s, agent[s], exited[s]).name = s
        /\ Event(s, agent[s], exited[s]).exited = exited[s]
        /\ Emit(s, Event(s, agent[s], exited[s]))
    BY <1>9, EventTypes DEF ReapEmit, ObserveTypeOK
  <2>2. /\ UNCHANGED <<wpc, out, view, lagged, listed>>
        /\ \A r \in Session : r # s =>
              /\ agent'[r] = agent[r] /\ exited'[r] = exited[r]
              /\ eval'[r] = eval[r] /\ reaper'[r] = reaper[r]
    BY <1>9 DEF ReapEmit, watchVars, ptyVars, evalVars, endVars, ObserveTypeOK
  <2>3. /\ last_event'[s] = Event(s, agent[s], exited[s])
        /\ \A r \in Session : r # s => last_event'[r] = last_event[r]
    BY <2>1, Emitted
  <2>4. ASSUME NEW w \in Watcher, NEW r \in Session,
               wpc'[w] \in {"write", "receive"}, ~gap'[w], Silent(queue'[w], r)
        PROVE  WatcherIsTold(w, r)'
    <3>1. /\ wpc[w] \in {"write", "receive"} /\ ~gap[w] /\ Silent(queue[w], r)
          /\ r = s => last_event[s] = Event(s, agent[s], exited[s])
      <4> DEFINE e == Event(s, agent[s], exited[s])
      <4>1. e \in PtyEvent /\ e.name = s /\ Emit(s, e)
        BY <2>1
      <4> HIDE DEF e
      <4>2. /\ wpc[w] \in {"write", "receive"}
            /\ ~gap[w]
            /\ Silent(queue[w], r)
            /\ r = s => last_event[s] = e
        BY <2>2, <2>4, <4>1, EmitSilent
      <4> QED BY <4>2 DEF e
    <3>2. CASE r = s
      <4>1. last_event'[s] = last_event[s]
        BY <2>3, <3>1, <3>2
      <4> QED BY <1>9, <2>2, <3>1, <3>2, <4>1
                 DEF ReapEmit, ObserveTypeOK, WatcherKnows, WatcherIsTold,
                   Known
    <3>3. CASE r # s
      BY <2>2, <2>3, <3>1, <3>3 DEF WatcherKnows, WatcherIsTold, Known, Current
    <3> QED BY <3>2, <3>3
  <2> QED BY <2>4 DEF WatcherKnows, WatcherIsTold
<1>10. ASSUME NEW s \in Session, Kill(s)
       PROVE  WatcherKnows'
  BY <1>10
     DEF Kill, evalVars, eventVars, watchVars, lookVars, ObserveTypeOK,
       WatcherKnows, WatcherIsTold, Known, Current
<1>11. ASSUME NEW s \in Session, KillEmit(s)
      PROVE  WatcherKnows'
  <2>1. /\ Event(s, agent[s], exited[s]) \in PtyEvent
        /\ Event(s, agent[s], exited[s]).name = s
        /\ Event(s, agent[s], exited[s]).exited = exited[s]
        /\ Emit(s, Event(s, agent[s], exited[s]))
    BY <1>11, EventTypes DEF KillEmit, ObserveTypeOK
  <2>2. /\ UNCHANGED <<wpc, out, view, lagged, listed>>
        /\ \A r \in Session : r # s =>
              /\ agent'[r] = agent[r] /\ exited'[r] = exited[r]
              /\ eval'[r] = eval[r] /\ reaper'[r] = reaper[r]
    BY <1>11 DEF KillEmit, watchVars, ptyVars, evalVars, endVars, ObserveTypeOK
  <2>3. /\ last_event'[s] = Event(s, agent[s], exited[s])
        /\ \A r \in Session : r # s => last_event'[r] = last_event[r]
    BY <2>1, Emitted
  <2>4. ASSUME NEW w \in Watcher, NEW r \in Session,
               wpc'[w] \in {"write", "receive"}, ~gap'[w], Silent(queue'[w], r)
        PROVE  WatcherIsTold(w, r)'
    <3>1. /\ wpc[w] \in {"write", "receive"} /\ ~gap[w] /\ Silent(queue[w], r)
          /\ r = s => last_event[s] = Event(s, agent[s], exited[s])
      <4> DEFINE e == Event(s, agent[s], exited[s])
      <4>1. e \in PtyEvent /\ e.name = s /\ Emit(s, e)
        BY <2>1
      <4> HIDE DEF e
      <4>2. /\ wpc[w] \in {"write", "receive"}
            /\ ~gap[w]
            /\ Silent(queue[w], r)
            /\ r = s => last_event[s] = e
        BY <2>2, <2>4, <4>1, EmitSilent
      <4> QED BY <4>2 DEF e
    <3>2. CASE r = s
      <4>1. last_event'[s] = last_event[s]
        BY <2>3, <3>1, <3>2
      <4> QED BY <1>11, <2>2, <3>1, <3>2, <4>1
                 DEF KillEmit, EndPhases, ObserveTypeOK, WatcherKnows,
                   WatcherIsTold, Known
    <3>3. CASE r # s
      BY <2>2, <2>3, <3>1, <3>3 DEF WatcherKnows, WatcherIsTold, Known, Current
    <3> QED BY <3>2, <3>3
  <2> QED BY <2>4 DEF WatcherKnows, WatcherIsTold
<1>21. ASSUME NEW s \in Session, KillExited(s)
       PROVE  WatcherKnows'
  <2>1. /\ UNCHANGED <<wpc, out, view, lagged, listed, queue, gap, last_event, agent, eval>>
        /\ \A r \in Session : r # s => exited'[r] = exited[r] /\ reaper'[r] = reaper[r]
        /\ s \notin listed
    BY <1>21
    DEF KillExited, EndPhases, evalVars, watchVars, eventVars, ObserveTypeOK
  <2>2. ASSUME NEW w \in Watcher, NEW r \in Session PROVE WatcherIsTold(w, r)'
    <3>1. CASE r = s
      BY <2>1, <3>1 DEF WatcherKnows, WatcherIsTold, Known
    <3>2. CASE r # s
      BY <2>1, <3>2 DEF WatcherKnows, WatcherIsTold, Known, Current
    <3> QED BY <3>1, <3>2
  <2> QED BY <2>2 DEF WatcherKnows
<1>22. ASSUME NEW s \in Session, KillClear(s)
      PROVE  WatcherKnows'
  <2>1. /\ UNCHANGED <<wpc, out, view, lagged, listed, queue, gap, last_event, eval>>
        /\ UNCHANGED <<exited, reaper>>
        /\ \A r \in Session : r # s => agent'[r] = agent[r]
        /\ s \notin listed
    BY <1>22
    DEF KillClear, EndPhases, evalVars, watchVars, eventVars, ObserveTypeOK
  <2>2. ASSUME NEW w \in Watcher, NEW r \in Session PROVE WatcherIsTold(w, r)'
    <3>1. CASE r = s
      BY <2>1, <3>1 DEF WatcherKnows, WatcherIsTold, Known
    <3>2. CASE r # s
      BY <2>1, <3>2 DEF WatcherKnows, WatcherIsTold, Known, Current
    <3> QED BY <3>1, <3>2
  <2> QED BY <2>2 DEF WatcherKnows
<1>12. ASSUME NEW s \in Session, ReapExited(s)
       PROVE  WatcherKnows'
  <2>1. /\ UNCHANGED <<wpc, out, view, lagged, listed, queue, gap, last_event, agent, eval>>
        /\ \A r \in Session : r # s => exited'[r] = exited[r] /\ reaper'[r] = reaper[r]
        /\ reaper'[s] # "no"
    BY <1>12 DEF ReapExited, evalVars, watchVars, eventVars, ObserveTypeOK
  <2>2. ASSUME NEW w \in Watcher, NEW r \in Session PROVE WatcherIsTold(w, r)'
    <3>1. CASE r = s
      BY <2>1, <3>1 DEF WatcherKnows, WatcherIsTold, Known
    <3>2. CASE r # s
      BY <2>1, <3>2 DEF WatcherKnows, WatcherIsTold, Known, Current
    <3> QED BY <3>1, <3>2
  <2> QED BY <2>2 DEF WatcherKnows
<1>13. ASSUME NEW w \in Watcher, Subscribe(w)
       PROVE  WatcherKnows'
  <2>1. /\ UNCHANGED <<listed, agent, exited, eval, reaper, last_event>>
        /\ \A v \in Watcher : v # w =>
              /\ wpc'[v] = wpc[v] /\ out'[v] = out[v] /\ view'[v] = view[v]
              /\ gap'[v] = gap[v] /\ queue'[v] = queue[v]
              /\ lagged'[v] = lagged[v]
    BY <1>13
       DEF Subscribe, ptyVars, evalVars, endVars, eventVars, ObserveTypeOK
  <2>2. ASSUME NEW v \in Watcher, v # w, NEW s \in Session
        PROVE  WatcherIsTold(v, s)'
    BY <2>1, <2>2 DEF WatcherKnows, WatcherIsTold, Known, Current

  <2>6. ASSUME NEW s \in Session PROVE WatcherIsTold(w, s)'
    BY <1>13 DEF Subscribe, WatcherIsTold, ObserveTypeOK

  <2> QED BY <2>2, <2>6 DEF WatcherKnows
<1>14. ASSUME NEW w \in Watcher, Snapshot(w)
       PROVE  WatcherKnows'
  <2>1. /\ UNCHANGED <<listed, agent, exited, eval, reaper, last_event>>
        /\ \A v \in Watcher : v # w =>
              /\ wpc'[v] = wpc[v] /\ out'[v] = out[v] /\ view'[v] = view[v]
              /\ gap'[v] = gap[v] /\ queue'[v] = queue[v]
              /\ lagged'[v] = lagged[v]
    BY <1>14 DEF Snapshot, ptyVars, evalVars, endVars, eventVars, ObserveTypeOK
  <2>2. ASSUME NEW v \in Watcher, v # w, NEW s \in Session
        PROVE  WatcherIsTold(v, s)'
    BY <2>1, <2>2 DEF WatcherKnows, WatcherIsTold, Known, Current

  <2>3. /\ view' = view /\ lagged' = lagged /\ wpc[w] = "snapshot"
        /\ out'[w] = {Event(r, agent[r], exited[r]) : r \in listed}
    BY <1>14 DEF Snapshot, ObserveTypeOK
  <2>4. \A r \in Session : Event(r, agent[r], exited[r]).name = r
    BY EventTypes DEF ObserveTypeOK
  <2>5. listed \subseteq Session
    BY DEF ObserveTypeOK
  <2>6. ASSUME NEW s \in Session PROVE WatcherIsTold(w, s)'
    <3>1. CASE s \in listed
      <4>1. Known(w, s)' = Current(s)
        <5>1. Current(s) \in out'[w] /\ Current(s).name = s
          BY <2>3, <2>4, <3>1 DEF Current
        <5>2. \A f \in out'[w] : Current(s).name = f.name => Current(s) = f
          BY <2>3, <2>4, <2>5, <5>1 DEF Current
        <5> QED BY <5>1, <5>2, Tellings DEF Known
      <4>2. Current(s)' = Current(s)
        BY <2>1 DEF Current
      <4>3. last_event[s] # Nothing /\ last_event[s].exited => Current(s).exited
        BY EventTypes DEF LastFits, Current, ObserveTypeOK
      <4> QED BY <2>1, <4>1, <4>2, <4>3 DEF WatcherIsTold
    <3>2. CASE s \notin listed
      <4>1. Known(w, s)' = view[w][s]
        BY <2>3, <2>4, <2>5, <3>2, Tellings DEF Known
      <4>2. ~lagged[w] => view[w][s] = Nothing
        BY <2>3 DEF Writes
      <4> QED BY <2>1, <2>3, <3>2, <4>1, <4>2 DEF WatcherIsTold
    <3> QED BY <3>1, <3>2

  <2> QED BY <2>2, <2>6 DEF WatcherKnows
<1>15. ASSUME NEW w \in Watcher, Write(w)
       PROVE  WatcherKnows'
  <2>1. /\ UNCHANGED <<listed, agent, exited, eval, reaper, last_event>>
        /\ \A v \in Watcher : v # w =>
              /\ wpc'[v] = wpc[v] /\ out'[v] = out[v] /\ view'[v] = view[v]
              /\ gap'[v] = gap[v] /\ queue'[v] = queue[v]
              /\ lagged'[v] = lagged[v]
    BY <1>15 DEF Write, ptyVars, evalVars, endVars, eventVars, ObserveTypeOK
  <2>2. ASSUME NEW v \in Watcher, v # w, NEW s \in Session
        PROVE  WatcherIsTold(v, s)'
    BY <2>1, <2>2 DEF WatcherKnows, WatcherIsTold, Known, Current

  <2>3. /\ queue' = queue /\ gap' = gap /\ lagged' = lagged /\ wpc[w] = "write"
        /\ out'[w] = {}
        /\ \A s \in Session : view'[w][s] = ToldOf(out[w], view[w], s)
    BY <1>15 DEF Write, eventVars, ObserveTypeOK, ToldOf
  <2>6. ASSUME NEW s \in Session PROVE WatcherIsTold(w, s)'
    <3>1. Known(w, s)' = Known(w, s)
      BY <2>3, Tellings DEF Known
    <3>2. Current(s)' = Current(s)
      BY <2>1 DEF Current
    <3> QED BY <2>1, <2>3, <3>1, <3>2 DEF WatcherKnows, WatcherIsTold

  <2> QED BY <2>2, <2>6 DEF WatcherKnows
<1>16. ASSUME NEW w \in Watcher, Receive(w)
       PROVE  WatcherKnows'
  <2>1. /\ UNCHANGED <<listed, agent, exited, eval, reaper, last_event>>
        /\ \A v \in Watcher : v # w =>
              /\ wpc'[v] = wpc[v] /\ out'[v] = out[v] /\ view'[v] = view[v]
              /\ gap'[v] = gap[v] /\ queue'[v] = queue[v]
              /\ lagged'[v] = lagged[v]
    BY <1>16 DEF Receive, ptyVars, evalVars, endVars, eventVars, ObserveTypeOK
  <2>2. ASSUME NEW v \in Watcher, v # w, NEW s \in Session
        PROVE  WatcherIsTold(v, s)'
    BY <2>1, <2>2 DEF WatcherKnows, WatcherIsTold, Known, Current

  <2>3. /\ gap' = gap /\ lagged' = lagged /\ view' = view /\ ~gap[w]
        /\ wpc[w] = "receive"
        /\ queue[w] \in Seq(PtyEvent) /\ queue[w] # <<>>
        /\ queue'[w] = Tail(queue[w]) /\ out'[w] = {Head(queue[w])}
    BY <1>16 DEF Receive, ObserveTypeOK
  <2>4. Head(queue[w]) = queue[w][1] /\ queue[w][1] \in PtyEvent
    BY <2>3, Tails
  <2>5. out[w] = {}
    BY <2>3 DEF Writes
  <2>6. ASSUME NEW s \in Session PROVE WatcherIsTold(w, s)'
    <3>1. Current(s)' = Current(s)
      BY <2>1 DEF Current
    <3>2. RingFits(queue[w], s, last_event[s], exited[s]) /\ exited[s] \in BOOLEAN
      BY DEF Rings, ObserveTypeOK
    <3>3. CASE ~Silent(Tail(queue[w]), s)
      BY <2>3, <3>3 DEF WatcherIsTold
    <3>4. CASE Silent(Tail(queue[w]), s) /\ queue[w][1].name = s
      <4>1. queue[w][1] = last_event[s]
        BY <2>3, <3>2, <3>4, RingTail
      <4>2. Known(w, s)' = last_event[s] /\ last_event[s] # Nothing
        BY <2>3, <2>4, <3>4, <4>1, Tellings DEF Known, ObserveParameters
      <4>3. s \in listed /\ reaper[s] = "no" /\ eval[s] # "wrote" =>
              last_event[s] = Current(s)
        BY <4>2 DEF Settled, EndPhases
      <4> QED BY <2>1, <3>1, <4>2, <4>3 DEF WatcherIsTold
    <3>5. CASE Silent(Tail(queue[w]), s) /\ queue[w][1].name # s
      <4>1. Silent(queue[w], s)
        BY <2>3, <3>2, <3>5, RingTail
      <4>2. Known(w, s)' = Known(w, s)
        BY <2>3, <2>4, <2>5, <3>5, Tellings DEF Known
      <4> QED BY <2>1, <2>3, <3>1, <4>1, <4>2 DEF WatcherKnows, WatcherIsTold
    <3> QED BY <3>3, <3>4, <3>5

  <2> QED BY <2>2, <2>6 DEF WatcherKnows
<1>17. ASSUME NEW w \in Watcher, Lagged(w)
       PROVE  WatcherKnows'
  <2>1. /\ UNCHANGED <<listed, agent, exited, eval, reaper, last_event>>
        /\ \A v \in Watcher : v # w =>
              /\ wpc'[v] = wpc[v] /\ out'[v] = out[v] /\ view'[v] = view[v]
              /\ gap'[v] = gap[v] /\ queue'[v] = queue[v]
              /\ lagged'[v] = lagged[v]
    BY <1>17 DEF Lagged, ptyVars, evalVars, endVars, eventVars, ObserveTypeOK
  <2>2. ASSUME NEW v \in Watcher, v # w, NEW s \in Session
        PROVE  WatcherIsTold(v, s)'
    BY <2>1, <2>2 DEF WatcherKnows, WatcherIsTold, Known, Current

  <2>6. ASSUME NEW s \in Session PROVE WatcherIsTold(w, s)'
    BY <1>17 DEF Lagged, WatcherIsTold, ObserveTypeOK

  <2> QED BY <2>2, <2>6 DEF WatcherKnows
<1>18. ASSUME NEW w \in Watcher, Unwatch(w)
       PROVE  WatcherKnows'
  <2>1. /\ UNCHANGED <<listed, agent, exited, eval, reaper, last_event>>
        /\ \A v \in Watcher : v # w =>
              /\ wpc'[v] = wpc[v] /\ out'[v] = out[v] /\ view'[v] = view[v]
              /\ gap'[v] = gap[v] /\ queue'[v] = queue[v]
              /\ lagged'[v] = lagged[v]
    BY <1>18 DEF Unwatch, ptyVars, evalVars, endVars, eventVars, ObserveTypeOK
  <2>2. ASSUME NEW v \in Watcher, v # w, NEW s \in Session
        PROVE  WatcherIsTold(v, s)'
    BY <2>1, <2>2 DEF WatcherKnows, WatcherIsTold, Known, Current

  <2>6. ASSUME NEW s \in Session PROVE WatcherIsTold(w, s)'
    BY <1>18 DEF Unwatch, WatcherIsTold, ObserveTypeOK

  <2> QED BY <2>2, <2>6 DEF WatcherKnows
<1>19. CASE \E o \in Observer :
               Open(o) \/ Update(o) \/ Look(o) \/ Send(o) \/
               Wake(o) \/
               Leave(o)
  BY <1>19
     DEF Open, Update, Look, Send, Wake, Leave, ptyVars, evalVars, endVars,
       eventVars, watchVars, OGoto, lookVars, ObserveTypeOK, WatcherKnows,
       WatcherIsTold, Known, Current
<1>20. CASE UNCHANGED observeVars
  BY <1>20
     DEF observeVars, ObserveTypeOK, WatcherKnows, WatcherIsTold, Known,
       Current
<1> QED
  BY <1>1, <1>2, <1>3, <1>4, <1>5, <1>6, <1>7, <1>8, <1>9, <1>10, <1>11,
     <1>12, <1>13, <1>14, <1>15, <1>16, <1>17, <1>18, <1>19, <1>20, <1>21, <1>22
  DEF ObserveNext, EvalStep, EndStep, KillStep, WatchStep, LookStep

\* Whatever an observer's snapshot has lost sight of notifies it, or is about to.
LEMMA ObserverStep == EventsInv /\ [ObserveNext]_observeVars => ObserverKnows'
<1> SUFFICES ASSUME EventsInv, [ObserveNext]_observeVars PROVE ObserverKnows'
  OBVIOUS
<1> USE DEF EventsInv
<1>1. CASE Elsewhere
  BY <1>1
     DEF Elsewhere, ptyVars, evalVars, endVars, watchVars, lookVars, Event,
       ObserveTypeOK, ObserverKnows, KillUntold, Current, ObserveParameters
<1>2. ASSUME NEW s \in Session, Output(s)
      PROVE  ObserverKnows'
  BY <1>2
     DEF Output, endVars, eventVars, watchVars, lookVars, Notify,
       ObserveTypeOK, ObserverKnows, KillUntold, Current, ObserveParameters, Current,
       ObserveParameters
<1>3. ASSUME NEW s \in Session, Settle(s)
      PROVE  ObserverKnows'
  BY <1>3
     DEF Settle, ptyVars, endVars, eventVars, watchVars, lookVars,
       ObserveTypeOK, ObserverKnows, KillUntold, Current, ObserveParameters, Current,
       ObserveParameters
<1>4. ASSUME NEW s \in Session, Read(s)
      PROVE  ObserverKnows'
  BY <1>4
     DEF Read, ptyVars, endVars, eventVars, watchVars, lookVars, ObserveTypeOK,
       ObserverKnows, KillUntold, Current, ObserveParameters, Current, ObserveParameters
<1>5. ASSUME NEW s \in Session, Store(s)
      PROVE  ObserverKnows'
  <2>1. /\ UNCHANGED <<opc, snap, unseen, screen, last_event, exited, reaper, killer>>
        /\ \A r \in Session : r # s => agent'[r] = agent[r] /\ eval'[r] = eval[r]
        /\ eval[s] = "read" /\ eval'[s] = "wrote"
    BY <1>5 DEF Store, lookVars, eventVars, endVars, ObserveTypeOK
  <2>2. CASE s # Watched
    BY <2>1, <2>2 DEF ObserverKnows, KillUntold, Current, ObserveParameters
  <2>3. CASE s = Watched /\ (agent'[s] = agent[s] \/ exited[s])
    BY <2>1, <2>3 DEF ObserverKnows, KillUntold
  <2>4. CASE s = Watched /\ agent'[s] # agent[s] /\ ~exited[s]
    <3>1. reaper[s] = "no" /\ killer[s] \in {"no", "unlisted", "done"}
      BY <2>4 DEF EndPhases, ObserveTypeOK
    <3> QED BY <1>5, <2>1, <2>4, <3>1, StoreIsNews DEF ObserverKnows, KillUntold
  <2> QED BY <2>2, <2>3, <2>4
<1>6. ASSUME NEW s \in Session, EvalEmit(s)
      PROVE  ObserverKnows'
  <2>1. /\ Emit(s, Event(s, agent[s], exited[s]))
        /\ UNCHANGED <<opc, snap, screen>>
    BY <1>6 DEF EvalEmit, lookVars, ptyVars
  <2>2. CASE last_event[s] # Event(s, agent[s], exited[s]) /\ s = Watched
    <3>1. \A i \in Observer : unseen'[i]
      BY <2>1, <2>2, Emitted DEF Notify
    <3> QED BY <2>1, <3>1 DEF ObserverKnows
  <2>3. CASE s # Watched
    <3>1. last_event'[Watched] = last_event[Watched] /\ (unseen' = unseen \/ Notify(s))
      BY <2>1, <2>3, Emitted DEF ObserveParameters
    <3>3. \A i \in Observer : unseen[i] => unseen'[i]
      BY <3>1 DEF Notify
    <3>2. /\ agent'[Watched] = agent[Watched]
          /\ exited'[Watched] = exited[Watched]
          /\ eval'[Watched] = eval[Watched]
          /\ reaper'[Watched] = reaper[Watched]
          /\ killer'[Watched] = killer[Watched]
      BY <1>6, <2>3
         DEF EvalEmit, ptyVars, evalVars, endVars, ObserveTypeOK,
           ObserveParameters
    <3> QED BY <2>1, <3>1, <3>2, <3>3 DEF ObserverKnows, KillUntold, Current
  <2>4. CASE last_event[s] = Event(s, agent[s], exited[s]) /\ s = Watched
    <3>1. unseen' = unseen /\ last_event' = last_event
      BY <2>1, <2>4, Emitted
    <3>2. UNCHANGED <<agent, exited, reaper>> /\ last_event[s] = Current(s)
      BY <1>6, <2>4 DEF EvalEmit, ptyVars, endVars, Current
    <3>3. KillUntold' = KillUntold
      BY <1>6, <3>1 DEF EvalEmit, endVars, KillUntold
    <3> QED BY <2>1, <2>4, <3>1, <3>2, <3>3 DEF ObserverKnows
  <2> QED BY <2>2, <2>3, <2>4
<1>7. ASSUME NEW s \in Session, ReapClear(s)
      PROVE  ObserverKnows'
  BY <1>7
     DEF ReapClear, evalVars, eventVars, watchVars, lookVars, Notify,
       ObserveTypeOK, ObserverKnows, KillUntold, Current, ObserveParameters
<1>8. ASSUME NEW s \in Session, ReapRemove(s)
      PROVE  ObserverKnows'
  BY <1>8
     DEF ReapRemove, evalVars, eventVars, watchVars, lookVars, ObserveTypeOK,
       ObserverKnows, KillUntold, Current, ObserveParameters, EndPhases
<1>9. ASSUME NEW s \in Session, ReapEmit(s)
      PROVE  ObserverKnows'
  <2>1. /\ Emit(s, Event(s, agent[s], exited[s]))
        /\ UNCHANGED <<opc, snap, screen>>
    BY <1>9 DEF ReapEmit, lookVars, ptyVars
  <2>2. CASE last_event[s] # Event(s, agent[s], exited[s]) /\ s = Watched
    <3>1. \A i \in Observer : unseen'[i]
      BY <2>1, <2>2, Emitted DEF Notify
    <3> QED BY <2>1, <3>1 DEF ObserverKnows
  <2>3. CASE s # Watched
    <3>1. last_event'[Watched] = last_event[Watched] /\ (unseen' = unseen \/ Notify(s))
      BY <2>1, <2>3, Emitted DEF ObserveParameters
    <3>3. \A i \in Observer : unseen[i] => unseen'[i]
      BY <3>1 DEF Notify
    <3>2. /\ agent'[Watched] = agent[Watched]
          /\ exited'[Watched] = exited[Watched]
          /\ eval'[Watched] = eval[Watched]
          /\ reaper'[Watched] = reaper[Watched]
          /\ killer'[Watched] = killer[Watched]
      BY <1>9, <2>3
         DEF ReapEmit, ptyVars, evalVars, endVars, ObserveTypeOK,
           ObserveParameters
    <3> QED BY <2>1, <3>1, <3>2, <3>3 DEF ObserverKnows, KillUntold, Current
  <2>4. CASE last_event[s] = Event(s, agent[s], exited[s]) /\ s = Watched
    <3>1. unseen' = unseen /\ last_event' = last_event
      BY <2>1, <2>4, Emitted
    <3>2. exited[s] /\ reaper[s] # "exited"
      BY <1>9 DEF ReapEmit, EndPhases
    <3>3. KillUntold' = KillUntold
      BY <1>9, <3>1 DEF ReapEmit, KillUntold
    <3> QED BY <2>1, <2>4, <3>1, <3>2, <3>3 DEF ObserverKnows
  <2> QED BY <2>2, <2>3, <2>4
<1>10. ASSUME NEW s \in Session, Kill(s)
       PROVE  ObserverKnows'
  BY <1>10
     DEF Kill, evalVars, eventVars, watchVars, lookVars, ObserveTypeOK,
       ObserverKnows, KillUntold, Current, ObserveParameters, Current, ObserveParameters
<1>11. ASSUME NEW s \in Session, KillEmit(s)
      PROVE  ObserverKnows'
  <2>1. /\ Emit(s, Event(s, agent[s], exited[s]))
        /\ UNCHANGED <<opc, snap, screen>>
    BY <1>11 DEF KillEmit, lookVars, ptyVars
  <2>2. CASE last_event[s] # Event(s, agent[s], exited[s]) /\ s = Watched
    <3>1. \A i \in Observer : unseen'[i]
      BY <2>1, <2>2, Emitted DEF Notify
    <3> QED BY <2>1, <3>1 DEF ObserverKnows
  <2>3. CASE s # Watched
    <3>1. last_event'[Watched] = last_event[Watched] /\ (unseen' = unseen \/ Notify(s))
      BY <2>1, <2>3, Emitted DEF ObserveParameters
    <3>3. \A i \in Observer : unseen[i] => unseen'[i]
      BY <3>1 DEF Notify
    <3>2. /\ agent'[Watched] = agent[Watched]
          /\ exited'[Watched] = exited[Watched]
          /\ eval'[Watched] = eval[Watched]
          /\ reaper'[Watched] = reaper[Watched]
          /\ killer'[Watched] = killer[Watched]
      BY <1>11, <2>3
         DEF KillEmit, ptyVars, evalVars, endVars, ObserveTypeOK,
           ObserveParameters
    <3> QED BY <2>1, <3>1, <3>2, <3>3 DEF ObserverKnows, KillUntold, Current
  <2>4. CASE last_event[s] = Event(s, agent[s], exited[s]) /\ s = Watched
    <3>1. unseen' = unseen /\ last_event' = last_event
      BY <2>1, <2>4, Emitted
    <3>2. exited[s] /\ reaper' = reaper
      BY <1>11 DEF KillEmit, EndPhases
    <3>4. last_event[s] # Nothing /\ last_event[s].exited = exited[s]
      BY <2>4, EventTypes DEF ObserveTypeOK
    <3>3. ~KillUntold
      BY <2>4, <3>2, <3>4 DEF KillUntold
    <3> QED BY <2>1, <2>4, <3>1, <3>2, <3>3 DEF ObserverKnows
  <2> QED BY <2>2, <2>3, <2>4
<1>21. ASSUME NEW s \in Session, KillExited(s)
       PROVE  ObserverKnows'
  <2>1. /\ UNCHANGED <<opc, snap, unseen, screen, agent, eval, reaper, last_event>>
        /\ killer[s] = "unlisted" /\ killer'[s] = "exited"
        /\ \A r \in Session : r # s => exited'[r] = exited[r] /\ killer'[r] = killer[r]
    BY <1>21
    DEF KillExited, evalVars, eventVars, lookVars, ObserveTypeOK
  <2>2. CASE s # Watched
    <3>1. exited'[Watched] = exited[Watched] /\ killer'[Watched] = killer[Watched]
      BY <2>1, <2>2 DEF ObserveParameters
    <3>2. Current(Watched)' = Current(Watched) /\ KillUntold' = KillUntold
      BY <2>1, <3>1 DEF Current, KillUntold
    <3> QED BY <2>1, <3>1, <3>2 DEF ObserverKnows
  <2>3. CASE s = Watched
    <3>1. CASE last_event[s] = Nothing \/ ~last_event[s].exited
      <4>1. KillUntold'
        BY <2>1, <2>3, <3>1 DEF KillUntold
      <4> QED BY <2>1, <4>1 DEF ObserverKnows
    <3>2. CASE last_event[s] # Nothing /\ last_event[s].exited
      <4>1. exited[s] /\ ~KillUntold
        BY <2>1, <2>3, <3>2 DEF LastFits, KillUntold
      <4> QED BY <2>1, <2>3, <4>1 DEF ObserverKnows
    <3> QED BY <3>1, <3>2
  <2> QED BY <2>2, <2>3
<1>22. ASSUME NEW s \in Session, KillClear(s)
      PROVE  ObserverKnows'
  BY <1>22
     DEF KillClear, evalVars, eventVars, watchVars, lookVars, Notify,
         ObserveTypeOK, ObserverKnows, KillUntold, EndPhases, Current,
         ObserveParameters
<1>12. ASSUME NEW s \in Session, ReapExited(s)
       PROVE  ObserverKnows'
  BY <1>12
     DEF ReapExited, evalVars, eventVars, watchVars, lookVars, ObserveTypeOK,
       ObserverKnows, KillUntold, Current, ObserveParameters, Current, ObserveParameters
<1>13. CASE \E w \in Watcher :
               Subscribe(w) \/ Snapshot(w) \/ Write(w) \/
               Receive(w) \/
               Lagged(w) \/ Unwatch(w)
  BY <1>13
     DEF Subscribe, Snapshot, Write, Receive, Lagged, Unwatch, ptyVars,
       evalVars, endVars, eventVars, lookVars, Event, ObserveTypeOK,
       ObserverKnows, KillUntold, Current, ObserveParameters
<1>14. ASSUME NEW o \in Observer, Open(o)
       PROVE  ObserverKnows'
  BY <1>14
     DEF Open, ptyVars, evalVars, endVars, eventVars, watchVars, OGoto,
       lookVars, ObserveTypeOK, ObserverKnows, KillUntold, Current, ObserveParameters
<1>15. ASSUME NEW o \in Observer, Update(o)
       PROVE  ObserverKnows'
  BY <1>15
     DEF Update, ptyVars, evalVars, endVars, eventVars, watchVars, OGoto,
       lookVars, ObserveTypeOK, ObserverKnows, KillUntold, Current, ObserveParameters
<1>16. ASSUME NEW o \in Observer, Look(o)
       PROVE  ObserverKnows'
  BY <1>16
     DEF Look, ptyVars, evalVars, endVars, eventVars, watchVars, OGoto,
       lookVars, ObserveTypeOK, ObserverKnows, KillUntold, Current, ObserveParameters
<1>17. ASSUME NEW o \in Observer, Send(o)
       PROVE  ObserverKnows'
  BY <1>17
     DEF Send, ptyVars, evalVars, endVars, eventVars, watchVars, OGoto,
       lookVars, ObserveTypeOK, ObserverKnows, KillUntold, Current, ObserveParameters
<1>18. ASSUME NEW o \in Observer, Wake(o)
       PROVE  ObserverKnows'
  BY <1>18
     DEF Wake, ptyVars, evalVars, endVars, eventVars, watchVars, OGoto,
       lookVars, ObserveTypeOK, ObserverKnows, KillUntold, Current, ObserveParameters
<1>19. ASSUME NEW o \in Observer, Leave(o)
       PROVE  ObserverKnows'
  BY <1>19
     DEF Leave, ptyVars, evalVars, endVars, eventVars, watchVars, OGoto,
       lookVars, ObserveTypeOK, ObserverKnows, KillUntold, Current, ObserveParameters
<1>20. CASE UNCHANGED observeVars
  BY <1>20
     DEF observeVars, ObserveTypeOK, ObserverKnows, KillUntold, Current,
         ObserveParameters
<1> QED
  BY <1>1, <1>2, <1>3, <1>4, <1>5, <1>6, <1>7, <1>8, <1>9, <1>10, <1>11,
     <1>12, <1>13, <1>14, <1>15, <1>16, <1>17, <1>18, <1>19, <1>20, <1>21, <1>22
  DEF ObserveNext, EvalStep, EndStep, KillStep, WatchStep, LookStep

LEMMA EventInit == ObserveParameters /\ ObserveInit => EventsInv
<1> SUFFICES ASSUME ObserveParameters, ObserveInit PROVE EventsInv
  OBVIOUS
<1>1. ObserveTypeOK
  <2>1. Blank \in PtySnapshot /\ 0 \in Screen
    BY EventTypes DEF Blank, PtySnapshot
  <2>2. queue \in [Watcher -> Seq(PtyEvent)] /\ \A w \in Watcher : Len(queue[w]) <= Backlog
    BY DEF ObserveInit, ObserveParameters
  <2>3. view \in [Watcher -> [Session -> PtyEvent \cup {Nothing}]]
    BY DEF ObserveInit
  <2>4. /\ last_event \in [Session -> PtyEvent \cup {Nothing}]
        /\ out \in [Watcher -> SUBSET PtyEvent]
        /\ snap \in [Observer -> PtySnapshot]
    BY <2>1 DEF ObserveInit
  <2> QED BY <2>1, <2>2, <2>3, <2>4 DEF ObserveInit, ObserveTypeOK
<1>2. EndPhases /\ LastFits /\ Settled
  BY DEF ObserveInit, EndPhases, LastFits, Settled
<1>3. Rings
  <2>1. \A w \in Watcher : queue[w] = <<>>
    BY DEF ObserveInit
  <2> QED BY <2>1 DEF Rings, RingFits, NewestLast
<1>4. Writes /\ WatcherKnows /\ ObserverKnows
  BY DEF ObserveInit, Writes, WatcherKnows, WatcherIsTold, ObserverKnows
<1> QED BY <1>1, <1>2, <1>3, <1>4 DEF EventsInv

LEMMA EventStep == EventsInv /\ [ObserveNext]_observeVars => EventsInv'
  BY EventTypeStep, EndPhaseStep, LastStep, SettledStep, RingStep, WritesStep,
     WatcherStep, ObserverStep
     DEF EventsInv, ObserveParameters

\* What the invariant says of who has nothing more coming.
LEMMA EventInv == EventsInv => Informed
<1> SUFFICES ASSUME EventsInv PROVE Informed
  OBVIOUS
<1> USE DEF EventsInv
<1>1. EndsAreLast
  <2>1. ASSUME NEW w \in Watcher, NEW s \in Session
        PROVE  /\ \A i \in Coming(w, s) :
                     \/ queue[w][i] = last_event[s]
                     \/ \E j \in Coming(w, s) : i < j
               /\ \A i, j \in Coming(w, s) :
                     i < j /\ queue[w][i].exited => queue[w][j].exited
    BY DEF Rings, RingFits, NewestLast, Coming
  <2> QED BY <2>1 DEF EndsAreLast, LastFits
<1>2. DrainedWatcherKnows
  <2> SUFFICES ASSUME NEW w \in Watcher, NEW s \in Session,
                      wpc[w] = "receive", ~gap[w], queue[w] = <<>>
               PROVE  /\ s \in listed /\ reaper[s] = "no" /\ eval[s] # "wrote" =>
                            view[w][s] = Current(s)
                      /\ last_event[s] # Nothing /\ last_event[s].exited /\ ~lagged[w] =>
                            view[w][s] = Nothing \/ view[w][s].exited
    BY DEF DrainedWatcherKnows
  <2>1. Silent(queue[w], s)
    BY DEF Silent
  <2>2. Known(w, s) = view[w][s]
    BY Tellings DEF Known, Writes
  <2> QED BY <2>1, <2>2 DEF WatcherKnows, WatcherIsTold
<1>3. SleepingObserverKnows
  BY DEF SleepingObserverKnows, ObserverKnows, KillUntold
<1> QED BY <1>1, <1>2, <1>3 DEF Informed

\* Who has nothing more coming knows all there is to know, whatever the size
\* of the ring and the number of terminals, watchers and observers.
THEOREM CallersAreInformed == ObserveSpec => []Informed
<1>1. ObserveInit => EventsInv
  BY EventInit, ObserveAssumption
<1> QED BY <1>1, EventStep, EventInv, PTL DEF ObserveSpec

-----------------------------------------------------------------------------
(* Bytes and lengths: modules Wire and Peers *)

\* Division by the base.
LEMMA Divided ==
  ASSUME NEW b \in Nat \ {0}, NEW n \in Nat
  PROVE  /\ n \div b \in Nat
         /\ n % b \in 0..(b - 1)
         /\ n = (n % b) + b * (n \div b)
OBVIOUS

LEMMA Multiplied ==
  ASSUME NEW b \in Nat \ {0}, NEW d \in 0..(b - 1), NEW q \in Nat
  PROVE  /\ d + b * q \in Nat
         /\ (d + b * q) % b = d
         /\ (d + b * q) \div b = q
OBVIOUS

LEMMA Small ==
  ASSUME NEW b \in Nat \ {0}, NEW d \in 0..(b - 1)
  PROVE  d \in Nat /\ d % b = d
OBVIOUS

LEMMA Bounded ==
  ASSUME NEW b \in Nat \ {0}, NEW n \in Nat, NEW m \in Nat, n < b * m
  PROVE  n \div b < m
OBVIOUS

\* A length survives its four bytes, and no other four bytes give it.
LEMMA LengthSurvives ==
  ASSUME PeersParameters, NEW n \in Length
  PROVE  ToLe(n) \in Seq(Byte) /\ Len(ToLe(n)) = 4 /\ FromLe(ToLe(n)) = n
<1> DEFINE n1 == n \div Base
           n2 == n1 \div Base
           n3 == n2 \div Base
<1>1. Base \in Nat \ {0} /\ n \in Nat /\ n < Base * (Base * (Base * Base))
  BY DEF PeersParameters, Length
<1>2. Base * Base \in Nat /\ Base * (Base * Base) \in Nat
  BY <1>1
<1>3. n1 \in Nat /\ n % Base \in Byte /\ n = (n % Base) + Base * n1
  BY <1>1, Divided DEF Byte
<1>4. n1 < Base * (Base * Base)
  BY <1>1, <1>2, Bounded
<1> HIDE DEF n1
<1>5. n2 \in Nat /\ n1 % Base \in Byte /\ n1 = (n1 % Base) + Base * n2
  BY <1>1, <1>3, Divided DEF Byte
<1>6. n2 < Base * Base
  BY <1>1, <1>2, <1>3, <1>4, Bounded
<1> HIDE DEF n2
<1>7. n3 \in Nat /\ n2 % Base \in Byte /\ n2 = (n2 % Base) + Base * n3
  BY <1>1, <1>5, Divided DEF Byte
<1>8. n3 < Base
  BY <1>1, <1>5, <1>6, Bounded
<1> HIDE DEF n3
<1>9. n3 % Base = n3 /\ n3 % Base \in Byte
  BY <1>1, <1>7, <1>8 DEF Byte
<1>10. ToLe(n) = <<n % Base, n1 % Base, n2 % Base, n3 % Base>>
  BY DEF ToLe, n1, n2, n3
<1>11. /\ ToLe(n)[1] = n % Base /\ ToLe(n)[2] = n1 % Base
       /\ ToLe(n)[3] = n2 % Base /\ ToLe(n)[4] = n3
  BY <1>9, <1>10
<1>12. FromLe(ToLe(n)) =
         (n % Base) + Base * ((n1 % Base) + Base * ((n2 % Base) + Base * n3))
  BY <1>11 DEF FromLe
<1>13. FromLe(ToLe(n)) = (n % Base) + Base * ((n1 % Base) + Base * n2)
  BY <1>7, <1>12
<1>14. FromLe(ToLe(n)) = (n % Base) + Base * n1
  BY <1>5, <1>13
<1>15. ToLe(n) \in Seq(Byte) /\ Len(ToLe(n)) = 4
  BY <1>3, <1>5, <1>7, <1>9, <1>10
<1> QED BY <1>3, <1>14, <1>15

LEMMA BytesSurvive ==
  ASSUME PeersParameters, NEW h, h[1] \in Byte, h[2] \in Byte, h[3] \in Byte, h[4] \in Byte
  PROVE  /\ FromLe(h) \in Nat
         /\ ToLe(FromLe(h)) = <<h[1], h[2], h[3], h[4]>>
<1> DEFINE n3 == h[4]
           n2 == h[3] + Base * n3
           n1 == h[2] + Base * n2
           n  == h[1] + Base * n1
<1>1. Base \in Nat \ {0} /\ Byte = 0..(Base - 1)
  BY DEF PeersParameters, Byte
<1>2. n3 \in Nat /\ n3 % Base = n3
  BY <1>1, Small
<1>m. ASSUME NEW d \in Byte, NEW q \in Nat
      PROVE  /\ d + Base * q \in Nat
             /\ (d + Base * q) % Base = d
             /\ (d + Base * q) \div Base = q
  BY <1>1, Multiplied
<1>3. n2 \in Nat /\ n2 % Base = h[3] /\ n2 \div Base = n3
  BY <1>2, <1>m, Zenon
<1> HIDE DEF n2
<1>4. n1 \in Nat /\ n1 % Base = h[2] /\ n1 \div Base = n2
  BY <1>3, <1>m, Zenon
<1> HIDE DEF n1
<1>5. n \in Nat /\ n % Base = h[1] /\ n \div Base = n1
  BY <1>4, <1>m, Zenon
<1>6. FromLe(h) = n
  BY DEF FromLe, n1, n2
<1> QED BY <1>2, <1>3, <1>4, <1>5, <1>6 DEF ToLe

-----------------------------------------------------------------------------
(* Frames *)

AnyFrame == [lane : Byte, payload : Seq(Byte)]
Bytes(f) == encode(f.lane, f.payload)

\* Two runs of bytes in a row, and a part of one.
LEMMA Joined ==
  ASSUME NEW s \in Seq(Byte), NEW t \in Seq(Byte)
  PROVE  /\ s \o t \in Seq(Byte)
         /\ Len(s \o t) = Len(s) + Len(t)
         /\ \A i \in 1..Len(s) : (s \o t)[i] = s[i]
         /\ \A i \in 1..Len(t) : (s \o t)[Len(s) + i] = t[i]
<1>1. s \o t \in Seq(Byte) /\ Len(s \o t) = Len(s) + Len(t)
  OBVIOUS
<1>2. \A i \in 1..Len(s) : (s \o t)[i] = s[i]
  OBVIOUS
<1>3. \A i \in 1..Len(t) : (s \o t)[Len(s) + i] = t[i]
  OBVIOUS
<1> QED BY <1>1, <1>2, <1>3

LEMMA Part ==
  ASSUME NEW s \in Seq(Byte), NEW m \in Nat, NEW n \in Nat, m <= n, n <= Len(s)
  PROVE  /\ SubSeq(s, m + 1, n) \in Seq(Byte)
         /\ Len(SubSeq(s, m + 1, n)) = n - m
         /\ \A i \in 1..(n - m) : SubSeq(s, m + 1, n)[i] = s[m + i]
<1>1. \A i \in (m + 1)..n : s[i] \in Byte
  OBVIOUS
<1>2. SubSeq(s, m + 1, n) \in Seq(Byte)
  BY <1>1
<1>3. Len(SubSeq(s, m + 1, n)) = n - m
  OBVIOUS
<1>4. \A i \in 1..(n - m) : SubSeq(s, m + 1, n)[i] = s[m + i]
  OBVIOUS
<1> QED BY <1>2, <1>3, <1>4

\* Four bytes, a lane and a payload in a row.
Row(b, l, p) == (b \o <<l>>) \o p

SameLength(x, y) == x[1] = y[1] /\ x[2] = y[2] /\ x[3] = y[3] /\ x[4] = y[4]

LEMMA Laying ==
  ASSUME NEW b \in Seq(Byte), Len(b) = 4, NEW l \in Byte, NEW p \in Seq(Byte)
  PROVE  /\ Row(b, l, p) \in Seq(Byte)
         /\ Len(Row(b, l, p)) = 5 + Len(p) /\ Len(p) \in Nat
         /\ SameLength(Row(b, l, p), b)
         /\ Row(b, l, p)[5] = l
         /\ \A k \in 1..Len(p) : Row(b, l, p)[5 + k] = p[k]
<1> DEFINE h == b \o <<l>>
<1>1. <<l>> \in Seq(Byte) /\ Len(<<l>>) = 1 /\ <<l>>[1] = l
  OBVIOUS
<1>2. /\ h \in Seq(Byte) /\ Len(h) = Len(b) + Len(<<l>>)
      /\ \A i \in 1..Len(b) : h[i] = b[i]
      /\ \A i \in 1..Len(<<l>>) : h[Len(b) + i] = <<l>>[i]
  BY <1>1, Joined
<1>3. /\ h \in Seq(Byte) /\ Len(h) = 5 /\ h[5] = l
      /\ h[1] = b[1] /\ h[2] = b[2] /\ h[3] = b[3] /\ h[4] = b[4]
  BY <1>1, <1>2
<1> HIDE DEF h
<1>4. /\ h \o p \in Seq(Byte) /\ Len(h \o p) = Len(h) + Len(p)
      /\ \A i \in 1..Len(h) : (h \o p)[i] = h[i]
      /\ \A k \in 1..Len(p) : (h \o p)[Len(h) + k] = p[k]
  BY <1>3, Joined
<1>5. /\ Len(h \o p) = 5 + Len(p) /\ Len(p) \in Nat
      /\ (h \o p)[1] = b[1] /\ (h \o p)[2] = b[2]
      /\ (h \o p)[3] = b[3] /\ (h \o p)[4] = b[4]
      /\ (h \o p)[5] = l
      /\ \A k \in 1..Len(p) : (h \o p)[5 + k] = p[k]
  BY <1>3, <1>4
<1> QED BY <1>4, <1>5 DEF h, Row, SameLength

LEMMA RowLength ==
  ASSUME NEW b \in Seq(Byte), Len(b) = 4, NEW l \in Byte, NEW p \in Seq(Byte)
  PROVE  Row(b, l, p) \in Seq(Byte) /\ Len(Row(b, l, p)) = 5 + Len(p)
BY Laying

LEMMA RowPayload ==
  ASSUME NEW b \in Seq(Byte), Len(b) = 4, NEW l \in Byte, NEW p \in Seq(Byte)
  PROVE  \A k \in 1..Len(p) : Row(b, l, p)[5 + k] = p[k]
BY Laying

\* What encode lays out.
LEMMA Layout ==
  ASSUME PeersParameters, NEW f \in AnyFrame, Bytes(f) # Invalid
  PROVE  /\ Bytes(f) \in Seq(Byte)
         /\ Len(f.payload) \in Nat /\ Len(f.payload) + 1 <= MAX_FRAME_SIZE
         /\ Len(Bytes(f)) = HEADER_LEN + Len(f.payload)
         /\ FromLe(Bytes(f)) = Len(f.payload) + 1
         /\ Bytes(f)[5] = f.lane
         /\ \A k \in 1..Len(f.payload) : Bytes(f)[HEADER_LEN + k] = f.payload[k]
<1> DEFINE n == Len(f.payload)
           b == ToLe(n + 1)
           e == Row(b, f.lane, f.payload)
<1>1. n \in Nat /\ n + 1 <= MAX_FRAME_SIZE /\ Bytes(f) = e
  BY DEF Bytes, encode, AnyFrame, Row
<1>2. n + 1 \in Length
  BY <1>1 DEF PeersParameters, Length
<1>3. b \in Seq(Byte) /\ Len(b) = 4 /\ FromLe(b) = n + 1
  BY <1>2, LengthSurvives
<1>4. f.lane \in Byte /\ f.payload \in Seq(Byte)
  BY DEF AnyFrame
<1> HIDE DEF b
<1>5. /\ e \in Seq(Byte) /\ Len(e) = 5 + n /\ e[5] = f.lane
      /\ SameLength(e, b)
      /\ \A k \in 1..n : e[5 + k] = f.payload[k]
  <2>1. e \in Seq(Byte) /\ Len(e) = 5 + n
    BY <1>3, <1>4, RowLength, Zenon
  <2>2. e[5] = f.lane
    BY <1>3, <1>4, Laying, Zenon
  <2>3. SameLength(e, b)
    BY <1>3, <1>4, Laying, Zenon
  <2>4. \A k \in 1..n : e[5 + k] = f.payload[k]
    BY <1>3, <1>4, RowPayload, Zenon
  <2> QED BY <2>1, <2>2, <2>3, <2>4
<1> HIDE DEF e
<1>6. FromLe(e) = FromLe(b)
  BY <1>5 DEF FromLe, SameLength
<1> QED BY <1>1, <1>3, <1>5, <1>6 DEF HEADER_LEN

\* A header that was read is an answer, not an error.
LEMMA Answers ==
  /\ \A x, y : [lane |-> x, len |-> y] # Invalid
  /\ \A x, y, z : "end" \notin DOMAIN [lane |-> x, payload |-> y, rest |-> z]
  /\ \A x : "end" \in DOMAIN [end |-> x]
BY DEF Invalid

\* A reader that has the first bytes of a frame knows its lane and its length.
LEMMA HeaderRead ==
  ASSUME PeersParameters, NEW f \in AnyFrame, Bytes(f) # Invalid, NEW h,
         \A i \in 1..HEADER_LEN : h[i] = Bytes(f)[i]
  PROVE  parse_header(h) = [lane |-> f.lane, len |-> Len(f.payload)]
<1>1. /\ h[1] = Bytes(f)[1] /\ h[2] = Bytes(f)[2] /\ h[3] = Bytes(f)[3]
      /\ h[4] = Bytes(f)[4] /\ h[5] = Bytes(f)[5]
  BY DEF HEADER_LEN
<1>2. FromLe(h) = FromLe(Bytes(f))
  BY <1>1 DEF FromLe
<1>3. /\ FromLe(h) = Len(f.payload) + 1 /\ h[5] = f.lane
      /\ Len(f.payload) \in Nat /\ Len(f.payload) + 1 <= MAX_FRAME_SIZE
  BY <1>1, <1>2, Layout
<1>4. MAX_FRAME_SIZE \in Nat
  BY DEF PeersParameters, Length
<1> QED BY <1>3, <1>4 DEF parse_header

-----------------------------------------------------------------------------
(* A connection that carries frames *)

Written == [frame : AnyFrame, end : Nat]
End(s, i) == IF i = 0 THEN 0 ELSE s[i].end

LinkTyped ==
    /\ sent \in Seq(Written)
    /\ stream \in Seq(Byte)
    /\ open \in BOOLEAN
    /\ at \in Nat
    /\ got \in Seq(AnyFrame)

\* Every frame lies where the one before it ends, as far as the stream goes.
Laid ==
    \A i \in 1..Len(sent) :
        /\ Bytes(sent[i].frame) # Invalid
        /\ End(sent, i) = End(sent, i - 1) + Len(Bytes(sent[i].frame))
        /\ \A k \in 1..Len(Bytes(sent[i].frame)) :
              End(sent, i - 1) + k <= Len(stream)
                => stream[End(sent, i - 1) + k] = Bytes(sent[i].frame)[k]

\* The stream goes as far as the last one, unless it was cut.
Extent ==
    /\ \A i, j \in 0..Len(sent) : i <= j => End(sent, i) <= End(sent, j)
    /\ Len(stream) <= End(sent, Len(sent))
    /\ open => Len(stream) = End(sent, Len(sent))

\* The reader is where a frame ends, and has those before it.
Reading ==
    /\ Len(got) <= Len(sent)
    /\ at = End(sent, Len(got)) /\ at <= Len(stream)
    /\ \A i \in 1..Len(got) : got[i] = sent[i].frame

\* Its loop ends at a frame that was cut, or at the end.
LoopEnd ==
    /\ ended \in {"no", "none", "error"}
    /\ ended # "no" =>
          /\ ~open
          /\ Len(got) < Len(sent) => Len(stream) < End(sent, Len(got) + 1)
          /\ ended = "error" <=> Len(stream) - at >= HEADER_LEN

LinkInv == LinkTyped /\ Laid /\ Extent /\ Reading /\ LoopEnd

\* A place in a stream.
LEMMA LaidAt ==
  ASSUME LinkTyped
  PROVE  /\ Len(sent) \in Nat /\ Len(stream) \in Nat /\ Len(got) \in Nat
         /\ \A i \in 0..Len(sent) : End(sent, i) \in Nat
         /\ \A i \in 1..Len(sent) : sent[i].frame \in AnyFrame
<1>1. Len(sent) \in Nat /\ Len(stream) \in Nat /\ Len(got) \in Nat
  BY DEF LinkTyped
<1>2. \A i \in 1..Len(sent) : sent[i] \in Written
  BY ElementOfSeq DEF LinkTyped
<1>3. \A i \in 1..Len(sent) : sent[i].frame \in AnyFrame /\ sent[i].end \in Nat
  BY <1>2 DEF Written
<1>4. \A i \in 0..Len(sent) : i = 0 \/ i \in 1..Len(sent)
  BY <1>1
<1> QED BY <1>1, <1>3, <1>4 DEF End

LEMMA WriteStep ==
  ASSUME PeersParameters, LinkInv, NEW f \in Frame, write_lane(f)
  PROVE  LinkInv'
<1> DEFINE b == Bytes(f)
           n == Len(sent)
           m == [frame |-> f, end |-> Len(stream) + Len(b)]
<1>1. f \in AnyFrame
  BY DEF PeersParameters, AnyFrame
<1>2. open /\ b # Invalid /\ stream' = stream \o b
  BY DEF write_lane, Bytes
<1>3. b \in Seq(Byte) /\ Len(b) \in Nat
  BY <1>1, <1>2, Layout
<1> HIDE DEF b
<1>4. /\ stream' \in Seq(Byte)
      /\ Len(stream') = Len(stream) + Len(b)
      /\ \A i \in 1..Len(stream) : stream'[i] = stream[i]
      /\ \A i \in 1..Len(b) : stream'[Len(stream) + i] = b[i]
  BY <1>2, <1>3, Joined DEF LinkInv, LinkTyped
<1>5. sent' = Append(sent, m) /\ UNCHANGED <<open, at, got, ended>>
  BY <1>4 DEF write_lane
<1>6. /\ n \in Nat /\ Len(stream) \in Nat /\ Len(got) \in Nat
      /\ \A i \in 0..n : End(sent, i) \in Nat
  BY LaidAt DEF LinkInv
<1>7. m \in Written
  BY <1>1, <1>3, <1>6 DEF Written
<1>8. /\ sent' \in Seq(Written)
      /\ Len(sent') = n + 1
      /\ sent'[n + 1] = m
      /\ \A i \in 1..n : sent'[i] = sent[i]
  BY <1>5, <1>7 DEF LinkInv, LinkTyped
<1>9. LinkTyped'
  BY <1>4, <1>5, <1>8 DEF LinkInv, LinkTyped
<1>10. Len(stream) = End(sent, n)
  BY <1>2 DEF LinkInv, Extent
<1>11. \A i \in 0..n : End(sent', i) = End(sent, i)
  <2> SUFFICES ASSUME NEW i \in 0..n PROVE End(sent', i) = End(sent, i)
    OBVIOUS
  <2>1. i = 0 \/ i \in 1..n
    BY <1>6
  <2> QED BY <1>8, <2>1 DEF End
<1>12. End(sent', n + 1) = End(sent, n) + Len(b)
  <2>1. n + 1 # 0
    BY <1>6
  <2>2. sent'[n + 1].end = Len(stream) + Len(b)
    BY <1>8
  <2> QED BY <1>10, <2>1, <2>2 DEF End
<1>13. ASSUME NEW i \in 1..Len(sent')
       PROVE  /\ Bytes(sent'[i].frame) # Invalid
              /\ End(sent', i) = End(sent', i - 1) + Len(Bytes(sent'[i].frame))
              /\ \A k \in 1..Len(Bytes(sent'[i].frame)) :
                    End(sent', i - 1) + k <= Len(stream')
                      => stream'[End(sent', i - 1) + k] = Bytes(sent'[i].frame)[k]
  <2>1. CASE i = n + 1
    <3>1. i - 1 = n /\ n \in 0..n
      BY <1>6, <2>1
    <3>2. sent'[i].frame = f /\ End(sent', i - 1) = End(sent, n)
      BY <1>8, <1>11, <2>1, <3>1
    <3>3. b # Invalid /\ End(sent', i) = End(sent', i - 1) + Len(b)
      BY <1>2, <1>12, <2>1, <3>2
    <3>4. \A k \in 1..Len(b) : stream'[End(sent', i - 1) + k] = b[k]
      BY <1>4, <1>10, <3>2, Zenon
    <3> QED BY <3>2, <3>3, <3>4, Zenon DEF b
  <2>2. CASE i \in 1..n
    <3>1. i - 1 \in 0..n /\ i \in 0..n
      BY <1>6, <2>2
    <3>2. /\ sent'[i].frame = sent[i].frame
          /\ End(sent', i) = End(sent, i) /\ End(sent', i - 1) = End(sent, i - 1)
      BY <1>8, <1>11, <2>2, <3>1
    <3> DEFINE c == Bytes(sent[i].frame)
               p == End(sent, i - 1)
    <3>3. /\ c # Invalid /\ End(sent, i) = p + Len(c)
          /\ \A k \in 1..Len(c) : p + k <= Len(stream) => stream[p + k] = c[k]
      BY <2>2 DEF LinkInv, Laid
    <3>4. Len(c) \in Nat
      BY <2>2, <3>3, LaidAt, Layout DEF LinkInv, HEADER_LEN
    <3>5. End(sent, i) <= Len(stream) /\ End(sent, i) \in Nat /\ p \in Nat
      BY <1>6, <1>10, <3>1 DEF LinkInv, Extent
    <3> HIDE DEF c, p
    <3>6. ASSUME NEW k \in 1..Len(c)
          PROVE  stream'[p + k] = c[k]
      <4>1. p + k <= Len(stream) /\ p + k \in 1..Len(stream)
        BY <1>6, <3>3, <3>4, <3>5
      <4> QED BY <1>4, <3>3, <4>1
    <3> QED BY <3>2, <3>3, <3>6 DEF c, p
  <2> QED BY <1>6, <1>8, <2>1, <2>2
<1>14. Laid'
  BY <1>13 DEF Laid
<1>15. Extent'
  <2>1. ASSUME NEW i \in 0..(n + 1), NEW j \in 0..(n + 1), i <= j
        PROVE  End(sent', i) <= End(sent', j)
    <3>1. CASE j \in 0..n
      BY <1>6, <1>11, <2>1, <3>1 DEF LinkInv, Extent
    <3>2. CASE j = n + 1 /\ i \in 0..n
      <4>1. n \in 0..n /\ i <= n
        BY <1>6, <3>2
      <4>2. End(sent, i) <= End(sent, n) /\ End(sent, n) \in Nat /\ End(sent, i) \in Nat
        BY <1>6, <3>2, <4>1 DEF LinkInv, Extent
      <4> QED BY <1>3, <1>11, <1>12, <3>2, <4>2
    <3>3. CASE j = n + 1 /\ i = n + 1
      <4>1. End(sent', n + 1) \in Nat
        BY <1>3, <1>6, <1>12
      <4> QED BY <3>3, <4>1
    <3> QED BY <1>6, <2>1, <3>1, <3>2, <3>3
  <2>2. Len(stream') = End(sent', Len(sent'))
    BY <1>4, <1>8, <1>10, <1>12
  <2>3. Len(stream') \in Nat
    BY <1>3, <1>4, <1>6
  <2> QED BY <1>8, <2>1, <2>2, <2>3 DEF Extent
<1>16. Reading'
  <2>1. Len(got) <= n /\ at = End(sent, Len(got)) /\ at <= Len(stream) /\ at \in Nat
    BY DEF LinkInv, Reading, LinkTyped
  <2>2. Len(got) \in 0..n
    BY <1>6, <2>1
  <2>3. at' = End(sent', Len(got'))
    BY <1>5, <1>11, <2>1, <2>2
  <2>4. Len(got') <= Len(sent') /\ at' <= Len(stream')
    BY <1>3, <1>4, <1>5, <1>6, <1>8, <2>1
  <2>5. \A i \in 1..Len(got') : got'[i] = sent'[i].frame
    BY <1>5, <1>6, <1>8, <2>1 DEF LinkInv, Reading
  <2> QED BY <2>3, <2>4, <2>5 DEF Reading
<1>17. LoopEnd'
  BY <1>2, <1>5 DEF LinkInv, LoopEnd
<1> QED BY <1>9, <1>14, <1>15, <1>16, <1>17 DEF LinkInv

LEMMA CutStep ==
  ASSUME LinkInv, NEW n \in 0..Len(stream), CutOff(n)
  PROVE  LinkInv'
<1>1. /\ open /\ n >= at /\ open' = FALSE /\ stream' = SubSeq(stream, 1, n)
      /\ UNCHANGED <<sent, at, got, ended>>
  BY DEF CutOff
<1>2. stream \in Seq(Byte) /\ Len(stream) \in Nat /\ n \in Nat /\ n <= Len(stream)
  BY DEF LinkInv, LinkTyped
<1>3. /\ SubSeq(stream, 0 + 1, n) \in Seq(Byte)
      /\ Len(SubSeq(stream, 0 + 1, n)) = n - 0
      /\ \A i \in 1..(n - 0) : SubSeq(stream, 0 + 1, n)[i] = stream[0 + i]
  BY <1>2, Part
<1>4. /\ stream' \in Seq(Byte) /\ Len(stream') = n
      /\ \A i \in 1..n : stream'[i] = stream[i]
  BY <1>1, <1>2, <1>3
<1>5. LinkTyped'
  BY <1>1, <1>4 DEF LinkInv, LinkTyped
<1>6. Laid'
  <2> SUFFICES ASSUME NEW i \in 1..Len(sent)
               PROVE  /\ Bytes(sent[i].frame) # Invalid
                      /\ End(sent, i) = End(sent, i - 1) + Len(Bytes(sent[i].frame))
                      /\ \A k \in 1..Len(Bytes(sent[i].frame)) :
                            End(sent, i - 1) + k <= n
                              => stream'[End(sent, i - 1) + k] = Bytes(sent[i].frame)[k]
    BY <1>1, <1>4 DEF Laid
  <2> DEFINE c == Bytes(sent[i].frame)
             p == End(sent, i - 1)
  <2>1. i - 1 \in 0..Len(sent)
    BY LaidAt DEF LinkInv
  <2>2. p \in Nat
    BY <2>1, LaidAt DEF LinkInv
  <2>3. /\ c # Invalid /\ End(sent, i) = p + Len(c)
        /\ \A k \in 1..Len(c) : p + k <= Len(stream) => stream[p + k] = c[k]
    BY DEF LinkInv, Laid
  <2> HIDE DEF c, p
  <2>4. ASSUME NEW k \in 1..Len(c), p + k <= n
        PROVE  stream'[p + k] = c[k]
    <3>1. p + k \in 1..n /\ p + k <= Len(stream)
      BY <1>2, <2>2, <2>4
    <3> QED BY <1>4, <2>3, <3>1
  <2> QED BY <2>3, <2>4 DEF c, p
<1>7. Extent'
  <2>1. n <= End(sent, Len(sent))
    BY <1>1, <1>2 DEF LinkInv, Extent
  <2> QED BY <1>1, <1>4, <2>1 DEF LinkInv, Extent
<1>8. Reading'
  BY <1>1, <1>4 DEF LinkInv, LinkTyped, Reading
<1>9. LoopEnd'
  BY <1>1 DEF LinkInv, LoopEnd
<1> QED BY <1>5, <1>6, <1>7, <1>8, <1>9 DEF LinkInv

\* One turn of the loop.
LEMMA PumpStep ==
  ASSUME PeersParameters, LinkInv, pump
  PROVE  LinkInv'
<1> DEFINE r == SubSeq(stream, at + 1, Len(stream))
           h == parse_header(SubSeq(r, 1, HEADER_LEN))
           n == Len(got)
           g == sent[n + 1].frame
           e == Bytes(g)
<1>1. UNCHANGED <<sent, stream, open>>
  BY DEF pump
<1>2. /\ stream \in Seq(Byte) /\ Len(stream) \in Nat /\ at \in Nat /\ at <= Len(stream)
      /\ n \in Nat /\ Len(sent) \in Nat /\ n <= Len(sent) /\ at = End(sent, n)
      /\ n \in 0..Len(sent)
  BY LaidAt DEF LinkInv, LinkTyped, Reading
<1>3. /\ r \in Seq(Byte) /\ Len(r) = Len(stream) - at
      /\ \A i \in 1..(Len(stream) - at) : r[i] = stream[at + i]
  BY <1>2, Part
<1>4. ASSUME n < Len(sent)
      PROVE  /\ n + 1 \in 1..Len(sent) /\ g \in AnyFrame /\ e # Invalid
             /\ Len(e) = HEADER_LEN + Len(g.payload) /\ Len(g.payload) \in Nat
             /\ End(sent, n + 1) = at + Len(e)
             /\ \A k \in 1..Len(e) : k <= Len(r) => r[k] = e[k]
  <2>1. n + 1 \in 1..Len(sent) /\ (n + 1) - 1 = n
    BY <1>2, <1>4
  <2>2. g \in AnyFrame
    BY <2>1, LaidAt DEF LinkInv
  <2>3. /\ e # Invalid /\ End(sent, n + 1) = at + Len(e)
        /\ \A k \in 1..Len(e) : at + k <= Len(stream) => stream[at + k] = e[k]
    BY <1>2, <2>1 DEF LinkInv, Laid
  <2>4. Len(e) = HEADER_LEN + Len(g.payload) /\ Len(g.payload) \in Nat
    BY <2>2, <2>3, Layout
  <2> HIDE DEF r, g, e
  <2>5. ASSUME NEW k \in 1..Len(e), k <= Len(r)
        PROVE  r[k] = e[k]
    <3>1. k \in 1..(Len(stream) - at) /\ at + k <= Len(stream)
      BY <1>2, <1>3, <2>5
    <3> QED BY <1>3, <2>3, <3>1
  <2> QED BY <2>1, <2>2, <2>3, <2>4, <2>5
<1>5. ASSUME Len(r) >= HEADER_LEN
      PROVE  /\ n < Len(sent)
             /\ h = [lane |-> g.lane, len |-> Len(g.payload)] /\ h # Invalid
  <2>1. n < Len(sent)
    BY <1>2, <1>3, <1>5 DEF LinkInv, Extent, HEADER_LEN
  <2> HIDE DEF r
  <2>2. /\ SubSeq(r, 0 + 1, HEADER_LEN) \in Seq(Byte)
        /\ Len(SubSeq(r, 0 + 1, HEADER_LEN)) = HEADER_LEN - 0
        /\ \A i \in 1..(HEADER_LEN - 0) : SubSeq(r, 0 + 1, HEADER_LEN)[i] = r[0 + i]
    BY <1>2, <1>3, <1>5, Part DEF HEADER_LEN
  <2>3. \A i \in 1..HEADER_LEN : SubSeq(r, 1, HEADER_LEN)[i] = r[i]
    BY <2>2 DEF HEADER_LEN
  <2>a. Len(e) = HEADER_LEN + Len(g.payload) /\ Len(g.payload) \in Nat
    BY <1>4, <2>1
  <2>b. \A i \in 1..HEADER_LEN : i <= Len(r)
    BY <1>2, <1>3, <1>5 DEF HEADER_LEN
  <2>c. \A i \in 1..HEADER_LEN : i \in 1..(HEADER_LEN + Len(g.payload))
    BY <2>a DEF HEADER_LEN
  <2>4. \A i \in 1..HEADER_LEN : i \in 1..Len(e) /\ i <= Len(r)
    BY <2>a, <2>b, <2>c
  <2>5. \A i \in 1..HEADER_LEN : SubSeq(r, 1, HEADER_LEN)[i] = e[i]
    BY <1>4, <2>1, <2>3, <2>4
  <2>6. h = [lane |-> g.lane, len |-> Len(g.payload)]
    BY <1>4, <2>1, <2>5, HeaderRead
  <2> QED BY <2>1, <2>6, Answers
<1> HIDE DEF r, h, g, e
<1>6. CASE Len(r) < HEADER_LEN
  <2>1. read_lane(r) = [end |-> "none"] /\ Waits(r)
    BY <1>6 DEF read_lane, Waits
  <2>2. ~open /\ ended' = "none" /\ UNCHANGED <<at, got>>
    BY <2>1, Answers DEF pump, r
  <2>3. ASSUME n < Len(sent) PROVE Len(stream) < End(sent, n + 1)
    <3>1. End(sent, n + 1) = at + (5 + Len(g.payload)) /\ Len(g.payload) \in Nat
      BY <1>4, <2>3 DEF HEADER_LEN
    <3>2. Len(stream) - at < 5
      BY <1>3, <1>6 DEF HEADER_LEN
    <3> QED BY <1>2, <3>1, <3>2
  <2>4. LoopEnd'
    BY <1>1, <1>2, <1>3, <1>6, <2>2, <2>3 DEF LoopEnd, HEADER_LEN
  <2> QED
    BY <1>1, <2>2, <2>4 DEF LinkInv, LinkTyped, Laid, Extent, Reading
<1>7. CASE Len(r) >= HEADER_LEN /\ Len(r) < HEADER_LEN + Len(g.payload)
  <2>1. h # Invalid /\ h.len = Len(g.payload)
    BY <1>5, <1>7
  <2>2. ~(Len(r) < HEADER_LEN)
    BY <1>2, <1>3, <1>7 DEF HEADER_LEN
  <2>3. read_lane(r) = [end |-> "error"] /\ Waits(r)
    BY <1>7, <2>1, <2>2 DEF read_lane, Waits, h
  <2>4. ~open /\ ended' = "error" /\ UNCHANGED <<at, got>>
    BY <2>3, Answers DEF pump, r
  <2>5. Len(stream) < End(sent, n + 1)
    <3>1. End(sent, n + 1) = at + (5 + Len(g.payload)) /\ Len(g.payload) \in Nat
      BY <1>4, <1>5, <1>7 DEF HEADER_LEN
    <3>2. Len(stream) - at < 5 + Len(g.payload)
      BY <1>3, <1>7 DEF HEADER_LEN
    <3> QED BY <1>2, <3>1, <3>2
  <2>6. LoopEnd'
    BY <1>1, <1>2, <1>3, <1>7, <2>4, <2>5 DEF LoopEnd, HEADER_LEN
  <2> QED
    BY <1>1, <2>4, <2>6 DEF LinkInv, LinkTyped, Laid, Extent, Reading
<1>8. CASE Len(r) >= HEADER_LEN /\ Len(r) >= HEADER_LEN + Len(g.payload)
  <2> DEFINE l == Len(g.payload)
             p == SubSeq(r, HEADER_LEN + 1, HEADER_LEN + l)
             t == SubSeq(r, HEADER_LEN + l + 1, Len(r))
  <2>1. n < Len(sent) /\ h # Invalid /\ h.lane = g.lane /\ h.len = l
    BY <1>5, <1>8
  <2>2. l \in Nat /\ g \in AnyFrame /\ g.payload \in Seq(Byte)
    BY <1>4, <2>1 DEF AnyFrame
  <2> HIDE DEF l
  <2>3. ~(Len(r) < HEADER_LEN) /\ ~(Len(r) < HEADER_LEN + l)
    BY <1>2, <1>3, <1>8, <2>2 DEF HEADER_LEN, l
  <2>4. read_lane(r) = [lane |-> g.lane, payload |-> p, rest |-> t]
    BY <2>1, <2>3 DEF read_lane, h
  <2>5. /\ p \in Seq(Byte) /\ Len(p) = (HEADER_LEN + l) - HEADER_LEN
        /\ \A i \in 1..((HEADER_LEN + l) - HEADER_LEN) : p[i] = r[HEADER_LEN + i]
    BY <1>2, <1>3, <2>2, <2>3, Part DEF HEADER_LEN
  <2>6. Len(t) = Len(r) - (HEADER_LEN + l)
    BY <1>2, <1>3, <2>2, <2>3, Part DEF HEADER_LEN
  <2> HIDE DEF p, t
  <2>7. p = g.payload
    <3>1. \A k \in 1..l : e[HEADER_LEN + k] = g.payload[k]
      BY <1>4, <2>1, Layout DEF l, e
    <3>2. \A k \in 1..l : HEADER_LEN + k \in 1..Len(e) /\ HEADER_LEN + k <= Len(r)
      <4>1. Len(e) = 5 + l
        BY <1>4, <2>1 DEF HEADER_LEN, l
      <4>2. ~(Len(r) < 5 + l) /\ Len(r) \in Int
        BY <1>2, <1>3, <2>3 DEF HEADER_LEN
      <4> QED BY <2>2, <4>1, <4>2 DEF HEADER_LEN
    <3>3. Len(p) = l /\ \A k \in 1..l : p[k] = r[HEADER_LEN + k]
      BY <2>2, <2>5 DEF HEADER_LEN
    <3>4. \A k \in 1..l : p[k] = g.payload[k]
      BY <1>4, <2>1, <3>1, <3>2, <3>3
    <3> QED BY <2>2, <2>5, <3>3, <3>4, SeqEqual DEF l
  <2>8. /\ at' = Len(stream) - Len(t)
        /\ got' = Append(got, [lane |-> g.lane, payload |-> p])
        /\ UNCHANGED ended /\ ended = "no"
    BY <2>4, Answers DEF pump, r
  <2>9. [lane |-> g.lane, payload |-> p] = g
    BY <2>2, <2>7 DEF AnyFrame
  <2>a. End(sent, n + 1) = at + (5 + l)
    BY <1>4, <2>1 DEF HEADER_LEN, l
  <2>b. Len(t) = (Len(stream) - at) - (5 + l) /\ ~(Len(stream) - at < 5 + l)
    BY <1>3, <2>3, <2>6 DEF HEADER_LEN
  <2>10. at' = End(sent, n + 1) /\ at' <= Len(stream) /\ at' \in Nat
    <3>1. Len(stream) - Len(t) = at + (5 + l)
      BY <1>2, <2>2, <2>b
    <3>2. at + (5 + l) <= Len(stream) /\ at + (5 + l) \in Nat
      BY <1>2, <2>2, <2>b
    <3> QED BY <2>8, <2>a, <3>1, <3>2
  <2>11. /\ got' \in Seq(AnyFrame) /\ Len(got') = n + 1
         /\ got'[n + 1] = g /\ \A i \in 1..n : got'[i] = got[i]
    BY <2>2, <2>8, <2>9, AppendProperties DEF LinkInv, LinkTyped
  <2>12. LinkTyped'
    BY <1>1, <2>10, <2>11 DEF LinkInv, LinkTyped
  <2>13. Reading'
    <3>1. \A i \in 1..Len(got') : got'[i] = sent[i].frame
      BY <1>2, <2>11 DEF LinkInv, Reading, g
    <3>2. n + 1 <= Len(sent)
      BY <1>2, <2>1
    <3> QED BY <1>1, <2>10, <2>11, <3>1, <3>2 DEF Reading
  <2>14. LoopEnd'
    BY <2>8 DEF LoopEnd
  <2> QED BY <1>1, <2>12, <2>13, <2>14 DEF LinkInv, Laid, Extent
<1> QED BY <1>2, <1>3, <1>4, <1>5, <1>6, <1>7, <1>8 DEF HEADER_LEN

-----------------------------------------------------------------------------
(* Headers *)

\* Bytes are no error.
LEMMA NotInvalid ==
  ASSUME NEW s \in Seq(Byte), Len(s) >= 2
  PROVE  s # Invalid
<1>1. 1 \in DOMAIN s /\ 2 \in DOMAIN s
  OBVIOUS
<1>2. \A x, y \in DOMAIN Invalid : x = y
  BY DEF Invalid
<1> QED BY <1>1, <1>2

Zeros(n) == [i \in 1..n |-> 0]

LEMMA ZeroBytes ==
  ASSUME PeersParameters, NEW n \in Nat
  PROVE  Zeros(n) \in Seq(Byte) /\ Len(Zeros(n)) = n
<1>1. 0 \in Byte
  BY DEF PeersParameters, Byte
<1> QED BY <1>1 DEF Zeros

\* What fits is encoded.
LEMMA Sendable ==
  ASSUME PeersParameters, NEW f \in AnyFrame, Len(f.payload) + 1 <= MAX_FRAME_SIZE
  PROVE  Bytes(f) # Invalid
<1> DEFINE b == ToLe(Len(f.payload) + 1)
           e == Row(b, f.lane, f.payload)
<1>1. f.payload \in Seq(Byte) /\ f.lane \in Byte /\ Len(f.payload) \in Nat
  BY DEF AnyFrame
<1>2. Len(f.payload) + 1 \in Length
  BY <1>1 DEF PeersParameters, Length
<1>3. b \in Seq(Byte) /\ Len(b) = 4
  BY <1>2, LengthSurvives
<1>4. Bytes(f) = e
  BY <1>1 DEF Bytes, encode, Row
<1> HIDE DEF b
<1>5. e \in Seq(Byte) /\ Len(e) = 5 + Len(f.payload)
  BY <1>1, <1>3, RowLength, Zenon
<1> HIDE DEF e
<1>6. Len(e) >= 2
  BY <1>1, <1>5
<1> QED BY <1>4, <1>5, <1>6, NotInvalid

\* The first bytes of a sequence.
LEMMA Prefix ==
  ASSUME NEW s \in Seq(Byte), NEW n \in Nat, n <= Len(s)
  PROVE  /\ SubSeq(s, 1, n) \in Seq(Byte) /\ Len(SubSeq(s, 1, n)) = n
         /\ \A i \in 1..n : SubSeq(s, 1, n)[i] = s[i]
<1>1. /\ SubSeq(s, 0 + 1, n) \in Seq(Byte)
      /\ Len(SubSeq(s, 0 + 1, n)) = n - 0
      /\ \A i \in 1..(n - 0) : SubSeq(s, 0 + 1, n)[i] = s[0 + i]
  BY Part
<1> QED BY <1>1

\* A header of bytes says at most what four of them can.
LEMMA HeaderBytes ==
  ASSUME PeersParameters, NEW h \in [1..HEADER_LEN -> Byte]
  PROVE  /\ h \in Seq(Byte) /\ Len(h) = 5 /\ h[5] \in Byte
         /\ h[1] \in Byte /\ h[2] \in Byte /\ h[3] \in Byte /\ h[4] \in Byte
         /\ FromLe(h) \in Nat
         /\ ToLe(FromLe(h)) = <<h[1], h[2], h[3], h[4]>>
<1>1. /\ h \in Seq(Byte) /\ Len(h) = 5 /\ h[5] \in Byte
      /\ h[1] \in Byte /\ h[2] \in Byte /\ h[3] \in Byte /\ h[4] \in Byte
  <2>1. h \in [1..5 -> Byte]
    BY DEF HEADER_LEN
  <2>2. \A i \in 1..5 : h[i] \in Byte
    BY <2>1
  <2>3. h = [i \in 1..5 |-> h[i]]
    BY <2>1
  <2>4. h \in Seq(Byte) /\ Len(h) = 5
    BY <2>2, <2>3
  <2> QED BY <2>2, <2>4
<1> QED BY <1>1, BytesSurvive

\* Readers take the headers of frames that are sent, and no others.
LEMMA FrameHeaders ==
  ASSUME PeersParameters, NEW h \in [1..HEADER_LEN -> Byte]
  PROVE  parse_header(h) # Invalid <=>
            \E n \in 0..(MAX_FRAME_SIZE + 1) :
                /\ encode(h[5], Zeros(n)) # Invalid
                /\ SubSeq(encode(h[5], Zeros(n)), 1, 5) = h
<1>0. MAX_FRAME_SIZE \in Nat
  BY DEF PeersParameters, Length
<1> DEFINE F(n) == [lane |-> h[5], payload |-> Zeros(n)]
<1>f. ASSUME NEW n \in Nat
      PROVE  /\ F(n) \in AnyFrame /\ Len(F(n).payload) = n /\ F(n).lane = h[5]
             /\ Bytes(F(n)) = encode(h[5], Zeros(n))
  BY HeaderBytes, ZeroBytes DEF AnyFrame, Bytes
<1> HIDE DEF F
<1>1. ASSUME parse_header(h) # Invalid
      PROVE  \E n \in 0..(MAX_FRAME_SIZE + 1) :
                /\ encode(h[5], Zeros(n)) # Invalid
                /\ SubSeq(encode(h[5], Zeros(n)), 1, 5) = h
  <2> DEFINE n == FromLe(h) - 1
             e == Bytes(F(n))
  <2>1. FromLe(h) # 0 /\ ~(FromLe(h) > MAX_FRAME_SIZE) /\ FromLe(h) \in Nat
    BY <1>1, HeaderBytes DEF parse_header
  <2>2. /\ n \in Nat /\ n + 1 <= MAX_FRAME_SIZE
        /\ n + 1 = FromLe(h) /\ n \in 0..(MAX_FRAME_SIZE + 1)
    BY <1>0, <2>1
  <2> HIDE DEF n
  <2>3. /\ F(n) \in AnyFrame /\ Len(F(n).payload) = n
        /\ F(n).lane = h[5] /\ e = encode(h[5], Zeros(n))
    BY <1>f, <2>2
  <2>4. e # Invalid
    BY <2>2, <2>3, Sendable
  <2>5. e = Row(ToLe(n + 1), h[5], Zeros(n))
    BY <2>2, <2>3, <2>4, ZeroBytes DEF encode, Row
  <2>6. n + 1 \in Length
    BY <2>2 DEF PeersParameters, Length
  <2>7. ToLe(n + 1) \in Seq(Byte) /\ Len(ToLe(n + 1)) = 4
    BY <2>6, LengthSurvives
  <2>8. Zeros(n) \in Seq(Byte) /\ Len(Zeros(n)) = n
    BY <2>2, ZeroBytes
  <2>9. h[5] \in Byte
    BY HeaderBytes
  <2>10. ToLe(n + 1) = <<h[1], h[2], h[3], h[4]>>
    BY <2>2, HeaderBytes
  <2> HIDE DEF e
  <2>a. ToLe(n + 1)[1] = h[1] /\ ToLe(n + 1)[2] = h[2] /\ ToLe(n + 1)[3] = h[3]
         /\ ToLe(n + 1)[4] = h[4]
    BY <2>10
  <2>11. /\ e \in Seq(Byte) /\ Len(e) = 5 + n /\ e[5] = h[5]
         /\ SameLength(e, ToLe(n + 1))
    <3>a. e \in Seq(Byte) /\ Len(e) = 5 + Len(Zeros(n))
      BY <2>5, <2>7, <2>8, <2>9, RowLength, Zenon
    <3>1. e \in Seq(Byte) /\ Len(e) = 5 + n
      BY <2>8, <3>a
    <3>2. e[5] = h[5]
      BY <2>5, <2>7, <2>8, <2>9, Laying, Zenon
    <3>3. SameLength(e, ToLe(n + 1))
      BY <2>5, <2>7, <2>8, <2>9, Laying, Zenon
    <3> QED BY <3>1, <3>2, <3>3
  <2>12. e[1] = h[1] /\ e[2] = h[2] /\ e[3] = h[3] /\ e[4] = h[4]
    BY <2>a, <2>11 DEF SameLength
  <2>13. \A i \in 1..5 : e[i] = h[i]
    BY <2>11, <2>12
  <2>14. 5 <= Len(e)
    BY <2>2, <2>11
  <2>15. /\ SubSeq(e, 1, 5) \in Seq(Byte) /\ Len(SubSeq(e, 1, 5)) = 5
         /\ \A i \in 1..5 : SubSeq(e, 1, 5)[i] = e[i]
    BY <2>11, <2>14, Prefix
  <2>16. h \in Seq(Byte) /\ Len(h) = 5
    BY HeaderBytes
  <2>17. SubSeq(e, 1, 5) = h
    <3>1. \A i \in 1..5 : SubSeq(e, 1, 5)[i] = h[i]
      BY <2>13, <2>15, Zenon
    <3> QED BY <2>15, <2>16, <3>1, SeqEqual, Zenon
  <2> QED BY <2>2, <2>3, <2>4, <2>17 DEF e
<1>2. ASSUME NEW n \in 0..(MAX_FRAME_SIZE + 1),
             encode(h[5], Zeros(n)) # Invalid,
             SubSeq(encode(h[5], Zeros(n)), 1, 5) = h
      PROVE  parse_header(h) # Invalid
  <2>1. n \in Nat
    BY <1>0
  <2> DEFINE f == F(n)
             e == Bytes(f)
  <2>2. f \in AnyFrame /\ e # Invalid /\ SubSeq(e, 1, 5) = h
    BY <1>2, <1>f, <2>1
  <2> HIDE DEF f
  <2>3. e \in Seq(Byte) /\ Len(e) = 5 + Len(f.payload) /\ Len(f.payload) \in Nat
    BY <2>2, Layout DEF HEADER_LEN
  <2> HIDE DEF e
  <2>4. 5 <= Len(e)
    BY <2>3
  <2>5. \A i \in 1..HEADER_LEN : h[i] = e[i]
    BY <2>2, <2>3, <2>4, Prefix DEF HEADER_LEN
  <2>6. parse_header(h) = [lane |-> f.lane, len |-> Len(f.payload)]
    BY <2>2, <2>5, HeaderRead DEF e
  <2> QED BY <2>6, Answers
<1> QED BY <1>1, <1>2

\* What encode_message lays out.
LEMMA MessageLayout ==
  ASSUME PeersParameters, NEW n \in 1..MAX_REQUEST_BYTES
  PROVE  /\ encode_message(Zeros(n)) # Invalid
         /\ encode_message(Zeros(n)) \in Seq(Byte)
         /\ Len(encode_message(Zeros(n))) = 4 + n
         /\ SameLength(encode_message(Zeros(n)), ToLe(n))
<1> DEFINE b == ToLe(n)
           z == Zeros(n)
           e == b \o z
<1>1. n \in Nat /\ n >= 1 /\ n \in Length
  BY DEF PeersParameters, Length
<1>2. b \in Seq(Byte) /\ Len(b) = 4
  BY <1>1, LengthSurvives
<1>3. z \in Seq(Byte) /\ Len(z) = n
  BY <1>1, ZeroBytes
<1>4. encode_message(z) = e
  BY <1>3 DEF encode_message
<1> HIDE DEF b, z
<1>5. /\ e \in Seq(Byte) /\ Len(e) = Len(b) + Len(z)
      /\ \A i \in 1..Len(b) : e[i] = b[i]
  BY <1>2, <1>3, Joined
<1> HIDE DEF e
<1>6. SameLength(e, b)
  BY <1>2, <1>5 DEF SameLength
<1>7. Len(e) = 4 + n
  BY <1>2, <1>3, <1>5
<1>8. e # Invalid
  BY <1>1, <1>5, <1>7, NotInvalid
<1> QED BY <1>4, <1>5, <1>6, <1>7, <1>8 DEF z, b

\* Readers take the lengths of messages that are sent, and no others.
LEMMA MessageHeaders ==
  ASSUME PeersParameters, NEW h \in [1..HEADER_LEN -> Byte]
  PROVE  parse_message_len(h) # Invalid <=>
            \E n \in 0..(MAX_REQUEST_BYTES + 1) :
                /\ encode_message(Zeros(n)) # Invalid
                /\ SubSeq(encode_message(Zeros(n)), 1, 4) = SubSeq(h, 1, 4)
<1>0. MAX_REQUEST_BYTES \in Nat
  BY DEF PeersParameters, Length
<1>1. \A x : [len |-> x] # Invalid
  BY DEF Invalid
<1>2. parse_message_len(h) # Invalid <=> FromLe(h) \in 1..MAX_REQUEST_BYTES
  BY <1>1 DEF parse_message_len
<1>3. h \in Seq(Byte) /\ 4 <= Len(h)
  BY HeaderBytes
<1>4. /\ SubSeq(h, 1, 4) \in Seq(Byte) /\ Len(SubSeq(h, 1, 4)) = 4
      /\ \A i \in 1..4 : SubSeq(h, 1, 4)[i] = h[i]
  BY <1>3, Prefix
<1>5. ASSUME NEW n \in 1..MAX_REQUEST_BYTES
      PROVE  /\ encode_message(Zeros(n)) # Invalid
             /\ SubSeq(encode_message(Zeros(n)), 1, 4) = SubSeq(h, 1, 4)
                  <=> SameLength(ToLe(n), h)
  <2> DEFINE e == encode_message(Zeros(n))
             s == SubSeq(e, 1, 4)
             t == SubSeq(h, 1, 4)
  <2>1. e # Invalid /\ e \in Seq(Byte) /\ Len(e) = 4 + n /\ SameLength(e, ToLe(n))
    BY MessageLayout
  <2> HIDE DEF e
  <2>2. 4 <= Len(e)
    BY <1>0, <2>1
  <2>3. s \in Seq(Byte) /\ Len(s) = 4 /\ \A i \in 1..4 : s[i] = e[i]
    BY <2>1, <2>2, Prefix
  <2> HIDE DEF s, t
  <2>4. t \in Seq(Byte) /\ Len(t) = 4 /\ \A i \in 1..4 : t[i] = h[i]
    BY <1>4 DEF t
  <2>5. s[1] = e[1] /\ s[2] = e[2] /\ s[3] = e[3] /\ s[4] = e[4]
    BY <2>3
  <2>6. t[1] = h[1] /\ t[2] = h[2] /\ t[3] = h[3] /\ t[4] = h[4]
    BY <2>4
  <2>7. s = t => SameLength(ToLe(n), h)
    BY <2>1, <2>5, <2>6 DEF SameLength
  <2>8. ASSUME SameLength(ToLe(n), h) PROVE s = t
    <3>1. \A i \in 1..4 : s[i] = t[i]
      BY <2>1, <2>5, <2>6, <2>8 DEF SameLength
    <3> QED BY <2>3, <2>4, <3>1, SeqEqual
  <2> QED BY <2>1, <2>7, <2>8 DEF e, s, t
<1>6. ASSUME NEW n \in 1..MAX_REQUEST_BYTES
      PROVE  SameLength(ToLe(n), h) <=> FromLe(h) = n
  <2>1. n \in Length
    BY DEF PeersParameters, Length
  <2>2. FromLe(ToLe(n)) = n
    BY <2>1, LengthSurvives
  <2>3. SameLength(ToLe(n), h) => FromLe(h) = n
    BY <2>2 DEF SameLength, FromLe
  <2>4. ASSUME FromLe(h) = n PROVE SameLength(ToLe(n), h)
    <3>1. ToLe(n) = <<h[1], h[2], h[3], h[4]>>
      BY <2>4, HeaderBytes
    <3> QED BY <3>1 DEF SameLength
  <2> QED BY <2>3, <2>4
<1>7. ASSUME NEW n \in 0..(MAX_REQUEST_BYTES + 1), encode_message(Zeros(n)) # Invalid
      PROVE  n \in 1..MAX_REQUEST_BYTES
  <2>1. n \in Nat
    BY <1>0
  <2>2. Len(Zeros(n)) = n
    BY <2>1, ZeroBytes
  <2> QED BY <1>7, <2>2 DEF encode_message
<1>8. \A n \in 1..MAX_REQUEST_BYTES : n \in 0..(MAX_REQUEST_BYTES + 1)
  BY <1>0
<1> QED BY <1>2, <1>5, <1>6, <1>7, <1>8

-----------------------------------------------------------------------------
(* Requests *)

\* The oldest version of a mode is one that daemons have.
LEMMA Minimum ==
  ASSUME NEW mode \in Modes
  PROVE  minimum(mode) \in 7..PROTOCOL_VERSION
BY DEF Modes, minimum, PROTOCOL_VERSION

LEMMA OneHop ==
  ASSUME PeersParameters, NEW r \in Request, NEW policy \in Policy
  PROVE  LET here == handle_connection(PROTOCOL_VERSION, policy, r)
             host == handle_connection(PROTOCOL_VERSION, "RemoteConnection",
                                       open_stream(r, r.token))
         IN  /\ r.target # "none" => here \in {"relayed", "rejected", "VersionMismatch"}
             /\ here = "relayed" =>
                   /\ policy = "Local"
                   /\ host = IF r.token = "admitted" THEN r.mode ELSE "rejected"
<1> DEFINE here == handle_connection(PROTOCOL_VERSION, policy, r)
           q    == open_stream(r, r.token)
           host == handle_connection(PROTOCOL_VERSION, "RemoteConnection", q)
<1>1. /\ r.mode \in Modes /\ r.target \in {"none", "host"}
      /\ r.token \in {"none", "admitted", "other"}
  BY DEF Request
<1>2. r.mode # "relayed"
  BY <1>1 DEF Modes
<1>3. r.target # "none" => here \in {"relayed", "rejected", "VersionMismatch"}
  BY DEF handle_connection, admit
<1>4. here = "relayed" => policy = "Local"
  BY <1>2 DEF handle_connection
<1>5. q.version = PROTOCOL_VERSION /\ q.mode = r.mode /\ q.target = "none" /\ q.token = r.token
  BY DEF open_stream, Request
<1>6. read_request(PROTOCOL_VERSION, q)
  BY <1>1, <1>5, Minimum DEF read_request, PROTOCOL_VERSION
<1> HIDE DEF q
<1>7. admit("RemoteConnection", q) <=> r.token = "admitted"
  BY <1>5 DEF admit
<1>8. host = IF r.token = "admitted" THEN r.mode ELSE "rejected"
  BY <1>5, <1>6, <1>7 DEF handle_connection
<1> QED BY <1>3, <1>4, <1>8 DEF q

LEMMA Diagnosed ==
  ASSUME PeersParameters, NEW r \in Request, NEW policy \in Policy, NEW now \in Daemon
  PROVE  decode_open_reply(Answer(now, policy, r)) = "VersionMismatch" <=>
            ~(r.version \in 7..now /\ minimum(r.mode) <= r.version)
<1> DEFINE done == handle_connection(now, policy, r)
           a    == Answer(now, policy, r)
           err  == IF r.token = "admitted" THEN "Other" ELSE "TokenRejected"
           skew == ~(r.version \in 7..now /\ minimum(r.mode) <= r.version)
<1>a. r.mode \in Modes /\ r.version \in Version
  BY DEF Request
<1>b. now \in Nat
  BY DEF Daemon, PROTOCOL_VERSION
<1>1. r.mode \in Modes /\ r.version \in Nat /\ now \in Nat
  BY <1>a, <1>b DEF PeersParameters
<1>2. minimum(r.mode) \in Nat
  BY <1>1, Minimum DEF PROTOCOL_VERSION
<1>3. read_request(now, r) <=> ~skew
  BY <1>1, <1>2 DEF read_request
<1>4. r.mode # "VersionMismatch"
  BY <1>1 DEF Modes
<1>5. done = "VersionMismatch" <=> skew
  BY <1>3, <1>4 DEF handle_connection
<1>6. now = 5 => skew
  BY <1>1
<1> HIDE DEF done
<1>7. \/ now = 5 /\ a = <<"Err", V5_VERSION_MISMATCH>>
      \/ now # 5 /\ done = "VersionMismatch"
         /\ a = <<"Err", V5_VERSION_MISMATCH, done>>
      \/ now # 5 /\ done # "VersionMismatch"
         /\ \/ a = <<"Err", "why", err>> \/ a = <<"Err", "why", "Other">>
            \/ a = <<"Ok", done>>
  BY DEF Answer, done
<1> HIDE DEF a, skew
<1> SUFFICES decode_open_reply(a) = "VersionMismatch" <=> skew
  BY DEF a, skew
<1>8. CASE now = 5 /\ a = <<"Err", V5_VERSION_MISMATCH>>
  <2>1. a[1] # "Ok" /\ Len(a) = 2 /\ a[2] = V5_VERSION_MISMATCH
    BY <1>8
  <2> QED BY <1>6, <1>8, <2>1 DEF decode_open_reply
<1>9. CASE /\ now # 5 /\ done = "VersionMismatch"
           /\ a = <<"Err", V5_VERSION_MISMATCH, done>>
  <2>1. a[1] # "Ok" /\ Len(a) = 3 /\ a[3] = "VersionMismatch"
    BY <1>9
  <2> QED BY <1>5, <1>9, <2>1 DEF decode_open_reply
<1>10. CASE /\ done # "VersionMismatch"
            /\ a = <<"Err", "why", err>> \/ a = <<"Err", "why", "Other">>
  <2>1. a[1] # "Ok" /\ Len(a) = 3 /\ a[3] # "VersionMismatch"
    BY <1>10
  <2> QED BY <1>5, <1>10, <2>1 DEF decode_open_reply
<1>11. CASE done # "VersionMismatch" /\ a = <<"Ok", done>>
  <2>1. a[1] = "Ok"
    BY <1>11
  <2> QED BY <1>5, <1>11, <2>1 DEF decode_open_reply
<1> QED BY <1>7, <1>8, <1>9, <1>10, <1>11

-----------------------------------------------------------------------------
(* Every case *)

CaseTyped ==
    \/ case.kind \in {"none", "frames"}
    \/ \E h \in [1..HEADER_LEN -> Byte] : case = [kind |-> "header", bytes |-> h]
    \/ \E r \in Request, policy \in Policy, now \in Daemon :
          case = [kind |-> "request", request |-> r, policy |-> policy, now |-> now]

LEMMA Begins ==
  ASSUME PeersInit
  PROVE  CaseTyped /\ LinkInv
<1>1. CaseTyped
  BY DEF PeersInit, CaseTyped
<1>2. sent = <<>> /\ stream = <<>> /\ got = <<>> /\ at = 0 /\ open = TRUE /\ ended = "no"
  BY DEF PeersInit
<1>3. Len(sent) = 0 /\ Len(stream) = 0 /\ Len(got) = 0
  BY <1>2
<1>4. LinkTyped
  BY <1>2 DEF LinkTyped
<1>5. Laid
  BY <1>3 DEF Laid
<1>6. End(sent, 0) = 0
  BY DEF End
<1>7. Extent
  <2>1. \A i \in 0..0 : i = 0
    OBVIOUS
  <2> QED BY <1>3, <1>6, <2>1 DEF Extent
<1>8. Reading
  BY <1>2, <1>3, <1>6 DEF Reading
<1>9. LoopEnd
  BY <1>2 DEF LoopEnd
<1> QED BY <1>1, <1>4, <1>5, <1>7, <1>8, <1>9 DEF LinkInv

LEMMA CaseStep ==
  ASSUME CaseTyped, PeersNext
  PROVE  CaseTyped'
<1>1. CASE Frames
  BY <1>1 DEF Frames, Choose, CaseTyped
<1>2. CASE Header
  <2>1. PICK h \in [1..HEADER_LEN -> Byte] : case' = [kind |-> "header", bytes |-> h]
    BY <1>2 DEF Header, Choose
  <2> QED BY <2>1 DEF CaseTyped
<1>3. CASE Handshake
  <2>1. PICK r \in Request, policy \in Policy, now \in Daemon :
            case' = [kind |-> "request", request |-> r, policy |-> policy, now |-> now]
    BY <1>3 DEF Handshake, Choose
  <2> QED BY <2>1 DEF CaseTyped
<1>4. CASE UNCHANGED case
  BY <1>4 DEF CaseTyped
<1> QED BY <1>1, <1>2, <1>3, <1>4 DEF PeersNext, write_lane, CutOff, pump

LEMMA FramesStep ==
  ASSUME PeersParameters, LinkInv, PeersNext
  PROVE  LinkInv'
<1>1. ASSUME UNCHANGED link PROVE LinkInv'
  BY <1>1 DEF link, LinkInv, LinkTyped, Laid, Extent, Reading, LoopEnd
<1>2. CASE Frames \/ Header \/ Handshake
  BY <1>1, <1>2 DEF Frames, Header, Handshake, Choose
<1>3. ASSUME NEW f \in Frame, write_lane(f) PROVE LinkInv'
  BY <1>3, WriteStep
<1>4. ASSUME NEW n \in 0..Len(stream), CutOff(n) PROVE LinkInv'
  BY <1>4, CutStep
<1>5. CASE pump
  BY <1>5, PumpStep
<1> QED BY <1>2, <1>3, <1>4, <1>5 DEF PeersNext

\* What the reader has, and how its loop ended.
LEMMA CutsAreSurvived ==
  ASSUME LinkInv
  PROVE  FramesSurviveCuts
<1> DEFINE n == Len(got)
           read == IF got = <<>> THEN 0 ELSE sent[n].end
<1>1. /\ n \in Nat /\ Len(sent) \in Nat /\ n <= Len(sent) /\ Len(stream) \in Nat
      /\ at = End(sent, n) /\ at <= Len(stream) /\ at \in Nat
      /\ \A i \in 0..Len(sent) : End(sent, i) \in Nat
      /\ \A i \in 1..n : got[i] = sent[i].frame
  BY LaidAt DEF LinkInv, LinkTyped, Reading
<1>2. got = <<>> <=> n = 0
  BY EmptySeq DEF LinkInv, LinkTyped
<1>3. read = at
  BY <1>1, <1>2 DEF End
<1>4. ASSUME ended # "no"
      PROVE  /\ ~open
             /\ ended = "error" <=> Len(stream) - at >= HEADER_LEN
             /\ n < Len(sent) => Len(stream) < End(sent, n + 1)
  BY <1>4 DEF LinkInv, LoopEnd
<1>5. ASSUME ended # "no", NEW i \in 1..Len(sent)
      PROVE  i <= n <=> sent[i].end <= Len(stream)
  <2>1. i \in 0..Len(sent) /\ n \in 0..Len(sent) /\ End(sent, i) = sent[i].end
    BY <1>1 DEF End
  <2>2. CASE i <= n
    <3>1. End(sent, i) <= End(sent, n)
      BY <2>1, <2>2 DEF LinkInv, Extent
    <3> QED BY <1>1, <2>1, <2>2, <3>1
  <2>3. CASE i > n
    <3>1. n < Len(sent) /\ n + 1 \in 0..Len(sent) /\ n + 1 <= i
      BY <1>1, <2>3
    <3>2. End(sent, n + 1) <= End(sent, i)
      BY <2>1, <3>1 DEF LinkInv, Extent
    <3>3. Len(stream) < End(sent, n + 1)
      BY <1>4, <1>5, <3>1
    <3> QED BY <1>1, <2>1, <2>3, <3>1, <3>2, <3>3
  <2> QED BY <1>1, <2>2, <2>3
<1> HIDE DEF read
<1>6. ended # "no" =>
        /\ ~open
        /\ \A i \in 1..Len(sent) : i <= n <=> sent[i].end <= Len(stream)
        /\ Len(stream) = read => ended = "none"
        /\ Len(stream) - read >= HEADER_LEN => ended = "error"
  <2>1. ended \in {"no", "none", "error"} /\ 0 < HEADER_LEN
    BY DEF LinkInv, LoopEnd, HEADER_LEN
  <2>2. ASSUME ended # "no", Len(stream) = read PROVE ended = "none"
    <3>1. ~(Len(stream) - at >= HEADER_LEN)
      BY <1>1, <1>3, <2>2 DEF HEADER_LEN
    <3> QED BY <1>4, <2>1, <2>2, <3>1
  <2> QED BY <1>3, <1>4, <1>5, <2>2
<1> QED BY <1>1, <1>6 DEF FramesSurviveCuts, read

LEMMA HeadersAgree ==
  ASSUME PeersParameters, CaseTyped
  PROVE  ReadersTakeWhatWritersSend
<1> SUFFICES ASSUME case.kind = "header"
             PROVE  ReadersTakeWhatWritersSend
  BY DEF ReadersTakeWhatWritersSend
<1>1. PICK h \in [1..HEADER_LEN -> Byte] : case = [kind |-> "header", bytes |-> h]
  BY DEF CaseTyped
<1>2. case.bytes = h
  BY <1>1
<1> QED BY <1>2, FrameHeaders, MessageHeaders
           DEF ReadersTakeWhatWritersSend, Zeros

LEMMA RequestsAgree ==
  ASSUME PeersParameters, CaseTyped
  PROVE  RelayIsOneHop /\ SkewIsDiagnosed
<1> SUFFICES ASSUME case.kind = "request"
             PROVE  RelayIsOneHop /\ SkewIsDiagnosed
  BY DEF RelayIsOneHop, SkewIsDiagnosed
<1>1. PICK r \in Request, policy \in Policy, now \in Daemon :
          case = [kind |-> "request", request |-> r, policy |-> policy, now |-> now]
  BY DEF CaseTyped
<1>2. case.request = r /\ case.policy = policy /\ case.now = now
  BY <1>1
<1>3. RelayIsOneHop
  BY <1>2, OneHop DEF RelayIsOneHop
<1>4. SkewIsDiagnosed
  BY <1>2, Diagnosed DEF SkewIsDiagnosed
<1> QED BY <1>3, <1>4

\* Whatever is written and wherever the connection is cut, the loop of
\* mux-attach has the frames that went through whole and no others; readers
\* take the headers writers send and no others; a request is relayed one hop at
\* most and served there as if it had been made there; and a client that meets
\* a daemon of another version is told so (read_lane, parse_header,
\* parse_message_len, admit, decode_open_reply).
THEOREM PeersAlwaysUnderstand == PeersSpec => []PeersUnderstand
<1> DEFINE Inv == CaseTyped /\ LinkInv
<1>0. PeersParameters
  BY PeersAssumption
<1>1. PeersInit => Inv
  BY Begins
<1>2. Inv /\ [PeersNext]_peersVars => Inv'
  <2>1. CASE PeersNext
    BY <1>0, <2>1, CaseStep, FramesStep
  <2>2. ASSUME Inv, UNCHANGED peersVars PROVE Inv'
    BY <2>2
       DEF peersVars, CaseTyped, LinkInv, LinkTyped, Laid, Extent, Reading,
         LoopEnd
  <2> QED BY <2>1, <2>2
<1>3. Inv => PeersUnderstand
  BY <1>0, CutsAreSurvived, HeadersAgree, RequestsAgree DEF PeersUnderstand
<1> HIDE DEF Inv
<1> QED BY <1>1, <1>2, <1>3, PTL DEF PeersSpec

-----------------------------------------------------------------------------
(* What an agent shows: module Agents *)

\* A set of natural numbers has a least element.
LEMMA LeastOf ==
  ASSUME NEW T, T \subseteq Nat, T # {}
  PROVE  \E x \in T : \A y \in T : x <= y
<1> DEFINE R == OpToRel(<, Nat)
<1>1. IsWellFoundedOn(R, Nat)
  BY NatLessThanWellFounded
<1>2. \A x, y \in Nat : x < y => <<x, y>> \in R
  BY DEF OpToRel
<1> HIDE DEF R
<1>3. \E x \in T : \A y \in T : ~ (<<y, x>> \in R)
  BY <1>1, WFMin
<1>4. PICK x \in T : \A y \in T : ~ (<<y, x>> \in R)
  BY <1>3
<1>5. ASSUME NEW y \in T PROVE x <= y
  <2>1. x \in Nat /\ y \in Nat /\ ~(y < x)
    BY <1>2, <1>4
  <2> QED BY <2>1
<1> QED BY <1>5

\* A bounded one has a greatest.
LEMMA GreatestOf ==
  ASSUME NEW T, T \subseteq Nat, T # {}, NEW n \in Nat, \A x \in T : x <= n
  PROVE  \E x \in T : \A y \in T : y <= x
<1> DEFINE U == {k \in Nat : \E x \in T : k = n - x}
<1>1. U \subseteq Nat /\ U # {}
  <2>1. PICK x \in T : TRUE
    OBVIOUS
  <2>2. n - x \in Nat
    BY <2>1
  <2> QED BY <2>1, <2>2
<1>2. PICK k \in U : \A j \in U : k <= j
  BY <1>1, LeastOf
<1>3. PICK x \in T : k = n - x
  OBVIOUS
<1>4. ASSUME NEW y \in T PROVE y <= x
  <2>1. n - y \in Nat /\ n - y \in U /\ x \in Nat /\ y \in Nat
    OBVIOUS
  <2>2. k <= n - y
    BY <1>2, <2>1
  <2> QED BY <1>3, <2>1, <2>2
<1> QED BY <1>4

\* Min and Max choose these.
LEMMA Mins ==
  ASSUME NEW T, T \subseteq Nat, T # {}
  PROVE  Min(T) \in T /\ \A y \in T : Min(T) <= y
BY LeastOf DEF Min

LEMMA Maxs ==
  ASSUME NEW T, T \subseteq Nat, T # {}, NEW n \in Nat, \A x \in T : x <= n
  PROVE  Max(T) \in T /\ \A y \in T : y <= Max(T)
BY GreatestOf DEF Max

\* What a cut of a screen leaves on either side.
LEMMA CutScreen ==
  ASSUME NEW s \in Seq(Line), NEW i \in 1..(Len(s) + 1)
  PROVE  /\ From(s, i) \in Seq(Line)
         /\ Len(From(s, i)) = Len(s) - i + 1
         /\ \A k \in 1..(Len(s) - i + 1) : From(s, i)[k] = s[i + k - 1]
         /\ Before(s, i) \in Seq(Line)
         /\ Len(Before(s, i)) = i - 1
         /\ \A k \in 1..(i - 1) : Before(s, i)[k] = s[k]
<1>1. Len(s) \in Nat /\ \A k \in 1..Len(s) : s[k] \in Line
  OBVIOUS
<1>2. /\ \A k \in i..Len(s) : s[k] \in Line
      /\ \A k \in 1..(i - 1) : s[k] \in Line
      /\ i - 1 \in Int
  BY <1>1
<1>3. /\ SubSeq(s, i, Len(s)) \in Seq(Line)
      /\ Len(SubSeq(s, i, Len(s))) = IF i <= Len(s) THEN Len(s) - i + 1 ELSE 0
      /\ \A k \in 1..(Len(s) - i + 1) : SubSeq(s, i, Len(s))[k] = s[i + k - 1]
  BY <1>1, <1>2, SubSeqProperties
<1>4. /\ SubSeq(s, 1, i - 1) \in Seq(Line)
      /\ Len(SubSeq(s, 1, i - 1)) = IF 1 <= i - 1 THEN (i - 1) - 1 + 1 ELSE 0
      /\ \A k \in 1..((i - 1) - 1 + 1) : SubSeq(s, 1, i - 1)[k] = s[1 + k - 1]
  BY <1>1, <1>2, SubSeqProperties
<1>5. /\ Len(SubSeq(s, 1, i - 1)) = i - 1
      /\ \A k \in 1..(i - 1) : SubSeq(s, 1, i - 1)[k] = s[k]
  BY <1>4
<1>6. Len(SubSeq(s, i, Len(s))) = Len(s) - i + 1
  BY <1>1, <1>3
<1> QED BY <1>3, <1>4, <1>5, <1>6 DEF From, Before

\* The last line of a kind, if there is one.
LEMMA Last ==
  ASSUME NEW s \in Seq(Line), NEW kinds
  PROVE  /\ LastOf(s, kinds) \in 0..Len(s)
         /\ LastOf(s, kinds) # 0 => s[LastOf(s, kinds)] \in kinds
         /\ \A j \in 1..Len(s) : s[j] \in kinds => j <= LastOf(s, kinds)
<1> DEFINE T == Places(s, kinds) \cup {None}
<1>1. /\ T \subseteq Nat
      /\ T # {}
      /\ \A x \in T : x <= Len(s)
      /\ \A x \in T : x # 0 => x \in 1..Len(s) /\ s[x] \in kinds
      /\ \A j \in 1..Len(s) : s[j] \in kinds => j \in T
  BY DEF Places, None
<1>2. Len(s) \in Nat
  OBVIOUS
<1> HIDE DEF T
<1>3. Max(T) \in T /\ \A y \in T : y <= Max(T)
  BY <1>1, <1>2, Maxs
<1>4. LastOf(s, kinds) = Max(T)
  BY DEF LastOf, T
<1> DEFINE m == Max(T)
<1> HIDE DEF m
<1>5. m \in 0..Len(s) /\ (m # 0 => s[m] \in kinds)
  <2>1. m \in T
    BY <1>3 DEF m
  <2> QED BY <1>1, <1>2, <2>1
<1>6. \A j \in 1..Len(s) : s[j] \in kinds => j <= Max(T)
  BY <1>1, <1>3
<1> QED BY <1>4, <1>5, <1>6 DEF m

\* A screen is a line of it and what is on either side.
LEMMA Rejoin ==
  ASSUME NEW s \in Seq(Line), NEW i \in 1..Len(s)
  PROVE  s = Before(s, i) \o <<s[i]>> \o From(s, i + 1)
<1> DEFINE a == Before(s, i)
           c == From(s, i + 1)
           ab == a \o <<s[i]>>
<1>1. /\ a \in Seq(Line) /\ Len(a) = i - 1
      /\ \A k \in 1..(i - 1) : a[k] = s[k]
      /\ c \in Seq(Line) /\ Len(c) = Len(s) - i
      /\ \A k \in 1..(Len(s) - i) : c[k] = s[i + k]
  <2>1. i \in 1..(Len(s) + 1) /\ i + 1 \in 1..(Len(s) + 1) /\ Len(s) \in Nat
    OBVIOUS
  <2>2. /\ a \in Seq(Line) /\ Len(a) = i - 1
        /\ \A k \in 1..(i - 1) : a[k] = s[k]
    BY <2>1, CutScreen
  <2>3. /\ c \in Seq(Line) /\ Len(c) = Len(s) - (i + 1) + 1
        /\ \A k \in 1..(Len(s) - (i + 1) + 1) : c[k] = s[(i + 1) + k - 1]
    BY <2>1, CutScreen
  <2>4. Len(s) - (i + 1) + 1 = Len(s) - i /\ \A k \in Int : (i + 1) + k - 1 = i + k
    BY <2>1
  <2> QED BY <2>2, <2>3, <2>4
<1>2. s[i] \in Line /\ <<s[i]>> \in Seq(Line) /\ Len(<<s[i]>>) = 1 /\ <<s[i]>>[1] = s[i]
  OBVIOUS
<1> HIDE DEF a, c
<1>3. /\ ab \in Seq(Line) /\ Len(ab) = Len(a) + 1
      /\ \A k \in 1..(Len(a) + 1) : ab[k] = IF k <= Len(a) THEN a[k] ELSE <<s[i]>>[k - Len(a)]
  BY <1>1, <1>2, ConcatProperties
<1> HIDE DEF ab
<1>4. Len(ab) = i /\ \A k \in 1..i : ab[k] = s[k]
  <2>1. Len(ab) = i
    BY <1>1, <1>3
  <2>2. ASSUME NEW k \in 1..i PROVE ab[k] = s[k]
    <3>1. CASE k <= i - 1
      BY <3>1, <1>1, <1>3
    <3>2. CASE k = i
      BY <3>2, <1>1, <1>2, <1>3
    <3>3. k \in Int /\ i \in Int /\ k <= i
      OBVIOUS
    <3> QED BY <3>1, <3>2, <3>3
  <2> QED BY <2>1, <2>2
<1>5. /\ ab \o c \in Seq(Line) /\ Len(ab \o c) = Len(ab) + Len(c)
      /\ \A k \in 1..(Len(ab) + Len(c)) :
            (ab \o c)[k] = IF k <= Len(ab) THEN ab[k] ELSE c[k - Len(ab)]
  BY <1>1, <1>3, ConcatProperties
<1>6. Len(ab \o c) = Len(s) /\ \A k \in 1..Len(s) : s[k] = (ab \o c)[k]
  <2>1. Len(ab) + Len(c) = Len(s)
    BY <1>1, <1>4
  <2>2. ASSUME NEW k \in 1..Len(s) PROVE s[k] = (ab \o c)[k]
    <3>1. CASE k <= i
      BY <3>1, <1>4, <1>5, <2>1
    <3>2. CASE ~(k <= i)
      <4>1. k - i \in 1..(Len(s) - i) /\ i + (k - i) = k
        BY <3>2
      <4>2. (ab \o c)[k] = c[k - i]
        BY <3>2, <1>4, <1>5, <2>1
      <4> QED BY <4>1, <4>2, <1>1
    <3>3. k \in Int /\ i \in Int
      OBVIOUS
    <3> QED BY <3>1, <3>2, <3>3
  <2> QED BY <2>1, <2>2, <1>5
<1>7. s = ab \o c
  BY <1>5, <1>6, SeqEqual
<1> QED BY <1>7 DEF ab, a, c

\* Regions can be joined from either side.
LEMMA Regroup ==
  ASSUME NEW a \in Seq(Line), NEW b \in Seq(Line), NEW c \in Seq(Line)
  PROVE  (a \o b) \o c = a \o (b \o c)
BY ConcatAssociative

\* The box's borders are the last two rules of the screen.
LEMMA BoxPlaces ==
  ASSUME NEW s \in Seq(Line), prompt_box_top_border_index(s) # None
  PROVE  \E top, end \in 1..Len(s) :
            /\ top = prompt_box_top_border_index(s)
            /\ end = LastOf(s, {"rule"})
            /\ top < end
            /\ s[top] = "rule" /\ s[end] = "rule"
            /\ \A j \in 1..Len(s) : top < j /\ s[j] = "rule" => j = end
<1> DEFINE end == LastOf(s, {"rule"})
           upper == Before(s, end)
           top == LastOf(upper, {"rule"})
<1>1. /\ end \in 0..Len(s)
      /\ end # 0 => s[end] \in {"rule"}
      /\ \A j \in 1..Len(s) : s[j] \in {"rule"} => j <= end
  BY Last
<1>2. end # 0 /\ prompt_box_top_border_index(s) = top /\ top # 0
  BY DEF prompt_box_top_border_index, None
<1> HIDE DEF end
<1>3. end \in 1..Len(s) /\ end \in 1..(Len(s) + 1) /\ Len(s) \in Nat
  BY <1>1, <1>2
<1>4. /\ upper \in Seq(Line) /\ Len(upper) = end - 1
      /\ \A k \in 1..(end - 1) : upper[k] = s[k]
  BY <1>3, CutScreen
<1> HIDE DEF upper
<1>5. /\ top \in 0..Len(upper)
      /\ top # 0 => upper[top] \in {"rule"}
      /\ \A j \in 1..Len(upper) : upper[j] \in {"rule"} => j <= top
  BY <1>4, Last
<1> HIDE DEF top
<1>6. top \in 1..(end - 1)
  BY <1>2, <1>3, <1>4, <1>5
<1>7. s[top] = "rule" /\ s[end] = "rule"
  BY <1>1, <1>2, <1>4, <1>5, <1>6
<1>8. ASSUME NEW j \in 1..Len(s), top < j, s[j] = "rule"
      PROVE  j = end
  <2>1. j <= end /\ j \in Int /\ end \in Int
    BY <1>1, <1>3, <1>8
  <2>2. ASSUME j # end PROVE FALSE
    <3>1. j \in 1..(end - 1)
      BY <2>1, <2>2
    <3>2. upper[j] = "rule" /\ j \in 1..Len(upper)
      BY <1>4, <1>8, <3>1
    <3>3. j <= top
      BY <1>5, <3>2
    <3> QED BY <1>6, <1>8, <2>1, <3>3
  <2> QED BY <2>2
<1>9. top \in 1..Len(s) /\ top < end
  BY <1>3, <1>6
<1>10. top = prompt_box_top_border_index(s)
  BY <1>2
<1>11. end = LastOf(s, {"rule"})
  BY DEF end
<1> QED BY <1>3, <1>7, <1>8, <1>9, <1>10, <1>11

\* The regions of the prompt's box, for any screen.
LEMMA BoxCuts ==
  ASSUME content \in Seq(Line)
  PROVE  BoxCutsTheScreen
<1> DEFINE s == content
           body == prompt_box_body(s)
           above == above_prompt_box(s)
           below == From(s, Len(above) + Len(body) + 2)
<1>1. CASE prompt_box_top_border_index(s) = None
  BY <1>1 DEF BoxCutsTheScreen, prompt_box_body, above_prompt_box
<1>2. CASE prompt_box_top_border_index(s) # None
  <2>1. PICK top, end \in 1..Len(s) :
            /\ top = prompt_box_top_border_index(s)
            /\ end = LastOf(s, {"rule"})
            /\ top < end
            /\ s[top] = "rule" /\ s[end] = "rule"
            /\ \A j \in 1..Len(s) : top < j /\ s[j] = "rule" => j = end
    BY <1>2, BoxPlaces
  <2> DEFINE under == From(s, top + 1)
             ends == Places(under, {"rule"})
  <2>2. Len(s) \in Nat /\ top \in Nat \ {0} /\ end \in Nat \ {0}
    OBVIOUS
  <2>3. /\ under \in Seq(Line) /\ Len(under) = Len(s) - top
        /\ \A k \in 1..(Len(s) - top) : under[k] = s[top + k]
    <3>1. top + 1 \in 1..(Len(s) + 1)
      BY <2>2
    <3>2. /\ under \in Seq(Line) /\ Len(under) = Len(s) - (top + 1) + 1
          /\ \A k \in 1..(Len(s) - (top + 1) + 1) : under[k] = s[(top + 1) + k - 1]
      BY <3>1, CutScreen
    <3>3. Len(s) - (top + 1) + 1 = Len(s) - top /\ \A k \in Int : (top + 1) + k - 1 = top + k
      BY <2>2
    <3> QED BY <3>2, <3>3
  <2> HIDE DEF under
  <2>4. ends = {end - top}
    <3>1. ASSUME NEW k \in ends PROVE k = end - top
      <4>1. k \in 1..(Len(s) - top) /\ under[k] = "rule"
        BY <2>3 DEF Places
      <4>2. s[top + k] = "rule" /\ top + k \in 1..Len(s) /\ top < top + k
        BY <2>2, <2>3, <4>1
      <4>3. top + k = end
        BY <2>1, <4>2
      <4> QED BY <2>2, <4>1, <4>3
    <3>2. end - top \in ends
      <4>1. end - top \in 1..(Len(s) - top) /\ top + (end - top) = end
        BY <2>1, <2>2
      <4>2. under[end - top] = "rule"
        BY <2>1, <2>3, <4>1
      <4> QED BY <2>3, <4>1, <4>2 DEF Places
    <3> QED BY <3>1, <3>2
  <2> HIDE DEF ends
  <2>5. Min(ends) = end - top
    <3>0. end - top \in Nat
      BY <2>1, <2>2
    <3>1. ends \subseteq Nat /\ ends # {}
      BY <2>4, <3>0
    <3>2. Min(ends) \in ends
      BY <3>1, Mins
    <3> QED BY <2>4, <3>2
  <2>6. body = Before(under, end - top)
    <3>1. ends # {}
      BY <2>4
    <3>2. body = Before(under, Min(ends))
      BY <1>2, <2>1, <3>1 DEF prompt_box_body, under, ends
    <3> QED BY <2>5, <3>2
  <2>7. above = Before(s, top)
    BY <1>2, <2>1 DEF above_prompt_box
  <2> HIDE DEF above, body
  <2>8. /\ body \in Seq(Line) /\ Len(body) = end - top - 1
        /\ \A k \in 1..(end - top - 1) : body[k] = s[top + k]
    <3>1. end - top \in 1..(Len(under) + 1)
      BY <2>1, <2>2, <2>3
    <3>2. /\ Before(under, end - top) \in Seq(Line)
          /\ Len(Before(under, end - top)) = end - top - 1
          /\ \A k \in 1..(end - top - 1) : Before(under, end - top)[k] = under[k]
      BY <2>3, <3>1, CutScreen
    <3>3. \A k \in 1..(end - top - 1) : k \in 1..(Len(s) - top)
      BY <2>1, <2>2
    <3> QED BY <2>3, <2>6, <3>2, <3>3
  <2>9. /\ above \in Seq(Line) /\ Len(above) = top - 1
        /\ \A k \in 1..(top - 1) : above[k] = s[k]
    <3>1. top \in 1..(Len(s) + 1)
      BY <2>2
    <3> QED BY <2>7, <3>1, CutScreen
  <2>10. Len(above) + Len(body) + 2 = end
    BY <2>2, <2>8, <2>9
  <2>11. below = From(s, end)
    BY <2>10
  <2> HIDE DEF below
  <2>12. /\ below \in Seq(Line) /\ Len(below) = Len(s) - end + 1
         /\ \A k \in 1..(Len(s) - end + 1) : below[k] = s[end + k - 1]
    <3>1. end \in 1..(Len(s) + 1)
      BY <2>2
    <3> QED BY <2>11, <3>1, CutScreen
  <2>13. above # s
    BY <2>2, <2>9
  <2>14. s = above \o <<"rule">> \o body \o below
    <3>1. s = above \o <<"rule">> \o under
      <4>1. s = Before(s, top) \o <<s[top]>> \o From(s, top + 1)
        BY Rejoin
      <4> QED BY <2>1, <2>7, <4>1 DEF under
    <3>2. under = body \o below
      <4>1. /\ body \o below \in Seq(Line)
            /\ Len(body \o below) = Len(body) + Len(below)
            /\ \A i \in 1..(Len(body) + Len(below)) : (body \o below)[i] =
                    IF i <= Len(body) THEN body[i] ELSE below[i - Len(body)]
        BY <2>8, <2>12, ConcatProperties
      <4>2. Len(body \o below) = Len(under)
        BY <2>2, <2>3, <2>8, <2>12, <4>1
      <4>3. ASSUME NEW i \in 1..Len(under) PROVE under[i] = (body \o below)[i]
        <5>1. i \in Int /\ Len(body) \in Int /\ i \in 1..(Len(body) + Len(below))
          BY <2>2, <2>3, <2>8, <2>12
        <5>2. under[i] = s[top + i]
          BY <2>3
        <5>3. CASE i <= Len(body)
          <6>1. (body \o below)[i] = body[i] /\ i \in 1..(end - top - 1)
            BY <2>8, <4>1, <5>1, <5>3
          <6> QED BY <2>8, <5>2, <6>1
        <5>4. CASE ~(i <= Len(body))
          <6>1. (body \o below)[i] = below[i - Len(body)]
            BY <4>1, <5>1, <5>4
          <6>2. /\ i - Len(body) \in 1..(Len(s) - end + 1)
                /\ end + (i - Len(body)) - 1 = top + i
            BY <2>2, <2>3, <2>8, <5>1, <5>4
          <6>3. below[i - Len(body)] = s[top + i]
            BY <2>12, <6>2
          <6> QED BY <5>2, <6>1, <6>3
        <5> QED BY <5>3, <5>4
      <4> QED BY <2>3, <4>1, <4>2, <4>3, SeqEqual
    <3>3. above \o <<"rule">> \in Seq(Line)
      <4>1. <<"rule">> \in Seq(Line)
        BY DEF Line
      <4> QED BY <2>9, <4>1, ConcatProperties
    <3> DEFINE upper == above \o <<"rule">>
    <3>4. s = upper \o (body \o below)
      BY <3>1, <3>2
    <3>5. upper \in Seq(Line)
      BY <3>3
    <3> HIDE DEF upper
    <3>6. body \in Seq(Line) /\ below \in Seq(Line)
      BY <2>8, <2>12
    <3>7. (upper \o body) \o below = upper \o (body \o below)
      BY <3>5, <3>6, Regroup
    <3> QED BY <3>4, <3>7 DEF upper
  <2>15. Places(body, {"rule"}) = {}
    <3>1. ASSUME NEW k \in DOMAIN body, body[k] = "rule" PROVE FALSE
      <4>1. k \in 1..(end - top - 1) /\ s[top + k] = "rule"
        BY <2>8, <3>1
      <4>2. k \in Int /\ 1 <= k /\ k <= end - top - 1 /\ end <= Len(s)
        BY <4>1
      <4>3. top + k \in 1..Len(s) /\ top < top + k /\ top + k # end
        BY <2>2, <4>2
      <4> QED BY <2>1, <4>1, <4>3
    <3> QED BY <3>1 DEF Places
  <2>16. Cardinality(Places(below, {"rule"})) = 1
    <3>1. Places(below, {"rule"}) = {1}
      <4>1. ASSUME NEW k \in DOMAIN below, below[k] = "rule" PROVE k = 1
        <5>1. k \in 1..(Len(s) - end + 1) /\ s[end + k - 1] = "rule"
          BY <2>12, <4>1
        <5>2. end + k - 1 \in 1..Len(s) /\ top < end + k - 1
          <6>1. k \in Int /\ 1 <= k /\ k <= Len(s) - end + 1 /\ top < end
            BY <2>1, <5>1
          <6> QED BY <2>2, <6>1
        <5>3. end + k - 1 = end
          BY <2>1, <5>1, <5>2
        <5> QED BY <2>2, <5>1, <5>3
      <4>2. 1 \in 1..(Len(s) - end + 1) /\ end + 1 - 1 = end
        BY <2>1, <2>2
      <4>3. 1 \in DOMAIN below /\ below[1] = "rule"
        BY <2>1, <2>12, <4>2
      <4> QED BY <4>1, <4>3 DEF Places
    <3> QED BY <3>1, FS_Singleton
  <2>17. after_last_horizontal_rule(s) = Tail(below)
    <3>1. after_last_horizontal_rule(s) = From(s, end + 1)
      BY <2>1 DEF after_last_horizontal_rule
    <3>2. Tail(SubSeq(s, end, Len(s))) = SubSeq(s, end + 1, Len(s))
      <4>1. Len(s) \in end..Len(s)
        BY <2>2
      <4> QED BY <4>1, HeadTailOfSubSeq
    <3> QED BY <2>11, <3>1, <3>2 DEF From
  <2> QED BY <2>13, <2>14, <2>15, <2>16, <2>17 DEF BoxCutsTheScreen, below, above, body
<1> QED BY <1>1, <1>2

\* The regions of the current prompt, for any screen.
LEMMA Prompts ==
  ASSUME content \in Seq(Line)
  PROVE  PromptIsCurrent
<1> DEFINE s == content
           cur == current_codex_prompt_index(s)
           i == LastOf(s, {"prompt"})
           b == BlockIndex(s)
           here == before_current_prompt_marker(s)
           rest == after_last_prompt_marker(s)
           block == after_current_prompt_block_marker(s)
<1>1. /\ i \in 0..Len(s)
      /\ i # 0 => s[i] \in {"prompt"}
      /\ \A j \in 1..Len(s) : s[j] \in {"prompt"} => j <= i
  BY Last
<1>2. Len(s) \in Nat /\ i \in Nat /\ i + 1 \in 1..(Len(s) + 1)
  BY <1>1
<1>3. /\ cur = 0 \/ cur = i
      /\ cur # 0 => Places(From(s, i + 1), {"block"}) = {}
  BY DEF current_codex_prompt_index, None
<1>4. rest = From(s, i + 1)
  BY DEF after_last_prompt_marker
<1>5. CASE cur = 0
  <2>1. /\ here = s
        /\ whole_recent_without_current_prompt_marker(s) = s
        /\ b = 0
    BY <1>5 DEF before_current_prompt_marker, whole_recent_without_current_prompt_marker,
                BlockIndex, None
  <2>2. block = Empty /\ current_prompt_block_marker(s) = Empty
    BY <2>1 DEF after_current_prompt_block_marker, current_prompt_block_marker, None
  <2> QED BY <2>1, <2>2 DEF PromptIsCurrent
<1>6. CASE cur # 0
  <2>1. cur = i /\ i \in 1..Len(s) /\ i \in 1..(Len(s) + 1) /\ s[i] = "prompt"
    BY <1>1, <1>2, <1>3, <1>6
  <2>2. here = Before(s, i) /\ whole_recent_without_current_prompt_marker(s) = Empty
    BY <1>6, <2>1 DEF before_current_prompt_marker,
                      whole_recent_without_current_prompt_marker, None
  <2> HIDE DEF cur, i, here, rest
  <2>3. here \in Seq(Line) /\ Len(here) = i - 1
    BY <2>1, <2>2, CutScreen
  <2>4. here # s /\ Empty # s
    <3>1. Len(here) # Len(s)
      BY <1>2, <2>1, <2>3
    <3>2. Len(Empty) # Len(s)
      <4>1. Len(Empty) = 0
        BY DEF Empty
      <4> QED BY <1>2, <2>1, <4>1
    <3> QED BY <3>1, <3>2
  <2>5. s = here \o <<"prompt">> \o rest
    BY <1>4, <2>1, <2>2, Rejoin
  <2>6. /\ rest \in Seq(Line) /\ Len(rest) = Len(s) - (i + 1) + 1
        /\ \A k \in 1..(Len(s) - (i + 1) + 1) : rest[k] = s[(i + 1) + k - 1]
    BY <1>2, <1>4, CutScreen
  <2>7. Places(rest, {"block", "prompt"}) = {}
    <3>1. ASSUME NEW k \in DOMAIN rest, rest[k] = "prompt" PROVE FALSE
      <4>1. k \in 1..(Len(s) - (i + 1) + 1)
        BY <2>6
      <4>2. s[(i + 1) + k - 1] = "prompt"
        BY <2>6, <3>1, <4>1
      <4>3. (i + 1) + k - 1 \in 1..Len(s) /\ ~((i + 1) + k - 1 <= i)
        BY <1>2, <4>1
      <4> QED BY <1>1, <4>2, <4>3
    <3>2. Places(rest, {"block"}) = {}
      BY <1>3, <1>4, <1>6
    <3> QED BY <3>1, <3>2 DEF Places
  <2>8. CASE b = 0
    <3>1. block = Empty /\ current_prompt_block_marker(s) = Empty
      BY <2>8 DEF after_current_prompt_block_marker, current_prompt_block_marker, None
    <3> QED BY <2>2, <2>4, <2>5, <2>7, <3>1 DEF PromptIsCurrent, here, rest
  <2>9. CASE b # 0
    <3>1. b = LastOf(here, {"block"})
      BY <1>6, <2>1, <2>2 DEF BlockIndex, None, cur
    <3>2. b \in 0..Len(here)
      BY <2>3, <3>1, Last
    <3>3. b \in 1..Len(s) /\ b \in 1..(Len(s) + 1) /\ Len(s) \in b..Len(s)
      BY <1>2, <2>1, <2>3, <2>9, <3>2
    <3>4. block = From(s, b) /\ current_prompt_block_marker(s) = <<s[b]>>
      BY <2>9 DEF after_current_prompt_block_marker, current_prompt_block_marker, None
    <3> HIDE DEF b, block
    <3>5. Head(block) = s[b]
      <4>1. Head(SubSeq(s, b, Len(s))) = s[b]
        BY <3>3, HeadTailOfSubSeq
      <4> QED BY <3>4, <4>1 DEF From
    <3>6. block # Empty
      <4>1. Len(block) = Len(s) - b + 1
        BY <3>3, <3>4, CutScreen
      <4>2. Len(block) # 0
        BY <1>2, <3>3, <4>1
      <4>3. Len(Empty) = 0
        BY DEF Empty
      <4> QED BY <4>2, <4>3
    <3> QED BY <2>2, <2>4, <2>5, <2>7, <3>4, <3>5, <3>6
            DEF PromptIsCurrent, here, rest, block
  <2> QED BY <2>8, <2>9
<1> QED BY <1>5, <1>6

\* Sets of places of a screen are finite.
LEMMA Finite ==
  ASSUME NEW m \in Nat, NEW N \in SUBSET (1..m), NEW T \in SUBSET N
  PROVE  IsFiniteSet(T) /\ Cardinality(T) \in Nat
<1>1. IsFiniteSet(1..m)
  BY FS_Interval
<1>2. T \in SUBSET (1..m)
  OBVIOUS
<1>3. IsFiniteSet(T)
  BY <1>1, <1>2, FS_Subset
<1> QED BY <1>3, FS_CardinalityType

\* The places of the first n, and of the last n, of a set.
Least(N, n) == {i \in N : Cardinality({j \in N : j <= i}) <= n}
Greatest(N, n) == {i \in N : Cardinality({j \in N : j >= i}) <= n}

\* Up to the last of the first n there are n, or all there are: of the places
\* beyond, the least would be one of the first n otherwise.
LEMMA CountUp ==
  ASSUME NEW m \in Nat, NEW N \in SUBSET (1..m), NEW n \in Nat
  PROVE  Cardinality({j \in N : \E i \in Least(N, n) : j <= i}) =
            IF n < Cardinality(N) THEN n ELSE Cardinality(N)
<1> DEFINE kept == Least(N, n)
           Up(x) == {j \in N : j <= x}
           P == {j \in N : \E i \in kept : j <= i}
<1>1. N \subseteq Nat /\ N \subseteq Int /\ \A x \in N : x <= m
  OBVIOUS
<1>2. kept \subseteq N /\ \A x \in N : x \in kept <=> Cardinality(Up(x)) <= n
  BY DEF Least
<1> HIDE DEF kept
<1>3. P \in SUBSET N /\ N \in SUBSET N /\ \A x : Up(x) \in SUBSET N
  OBVIOUS
<1>4. /\ IsFiniteSet(P) /\ Cardinality(P) \in Nat
      /\ IsFiniteSet(N) /\ Cardinality(N) \in Nat
      /\ \A x : IsFiniteSet(Up(x)) /\ Cardinality(Up(x)) \in Nat
  BY <1>3, Finite
<1>5. Cardinality(P) <= n
  <2>1. CASE kept = {}
    <3>1. P = {}
      BY <2>1
    <3> QED BY <3>1, FS_EmptySet
  <2>2. CASE kept # {}
    <3>1. kept \subseteq Nat /\ \A x \in kept : x <= m
      BY <1>1, <1>2
    <3>2. PICK x \in kept : \A y \in kept : y <= x
      BY <2>2, <3>1, GreatestOf
    <3>3. P = Up(x)
      <4>1. ASSUME NEW j \in P PROVE j <= x
        <5>1. PICK i \in kept : j <= i
          OBVIOUS
        <5>2. i <= x /\ i \in Int /\ x \in Int /\ j \in Int
          BY <1>1, <1>2, <3>2
        <5> QED BY <5>1, <5>2
      <4> QED BY <4>1, <3>2
    <3>4. x \in N
      BY <1>2
    <3> QED BY <1>2, <3>3, <3>4
  <2> QED BY <2>1, <2>2
<1>6. P = N => Cardinality(P) = Cardinality(N)
  OBVIOUS
<1>7. ASSUME P # N PROVE Cardinality(P) = n /\ n < Cardinality(N)
  <2>1. N \ P # {} /\ N \ P \subseteq Nat
    BY <1>1, <1>3, <1>7
  <2>2. PICK x \in N \ P : \A y \in N \ P : x <= y
    BY <2>1, LeastOf
  <2>3. Up(x) = P \cup {x}
    <3>1. ASSUME NEW j \in Up(x), j # x PROVE j \in P
      <4>1. ~(x <= j)
        BY <1>1, <2>2, <3>1
      <4> QED BY <2>2, <4>1
    <3>2. ASSUME NEW j \in P PROVE j <= x
      <4>1. PICK i \in kept : j <= i
        OBVIOUS
      <4>2. ~(x <= i)
        BY <2>2
      <4>3. i \in Int /\ x \in Int /\ j \in Int
        BY <1>1, <1>2, <2>2
      <4> QED BY <4>1, <4>2, <4>3
    <3>3. x \in Up(x)
      BY <1>1
    <3> QED BY <3>1, <3>2, <3>3
  <2>4. Cardinality(Up(x)) = Cardinality(P) + 1
    <3>1. x \notin P /\ IsFiniteSet(P)
      BY <1>4, <2>2
    <3> HIDE DEF P
    <3>2. Cardinality(P \cup {x}) = Cardinality(P) + 1
      BY <3>1, FS_AddElement
    <3> QED BY <2>3, <3>2
  <2>5. x \notin kept
    BY <1>1, <2>2
  <2>6. ~(Cardinality(Up(x)) <= n)
    BY <1>2, <2>2, <2>5
  <2>7. Cardinality(P) = n
    BY <1>4, <1>5, <2>4, <2>6
  <2>8. Cardinality(P) <= Cardinality(N) /\ Cardinality(N) # Cardinality(P)
    BY <1>3, <1>4, <1>7, FS_Subset
  <2>9. n < Cardinality(N)
    BY <1>4, <2>7, <2>8
  <2> QED BY <2>7, <2>9
<1> HIDE DEF P
<1>8. Cardinality(P) = IF n < Cardinality(N) THEN n ELSE Cardinality(N)
  BY <1>4, <1>5, <1>6, <1>7
<1> QED BY <1>8 DEF P, kept

\* And from the first of the last n on.
LEMMA CountDown ==
  ASSUME NEW m \in Nat, NEW N \in SUBSET (1..m), NEW n \in Nat
  PROVE  Cardinality({j \in N : \E i \in Greatest(N, n) : j >= i}) =
            IF n < Cardinality(N) THEN n ELSE Cardinality(N)
<1> DEFINE kept == Greatest(N, n)
           Down(x) == {j \in N : j >= x}
           P == {j \in N : \E i \in kept : j >= i}
<1>1. N \subseteq Nat /\ N \subseteq Int /\ \A x \in N : x <= m
  OBVIOUS
<1>2. kept \subseteq N /\ \A x \in N : x \in kept <=> Cardinality(Down(x)) <= n
  BY DEF Greatest
<1> HIDE DEF kept
<1>3. P \in SUBSET N /\ N \in SUBSET N /\ \A x : Down(x) \in SUBSET N
  OBVIOUS
<1>4. /\ IsFiniteSet(P) /\ Cardinality(P) \in Nat
      /\ IsFiniteSet(N) /\ Cardinality(N) \in Nat
      /\ \A x : IsFiniteSet(Down(x)) /\ Cardinality(Down(x)) \in Nat
  BY <1>3, Finite
<1>5. Cardinality(P) <= n
  <2>1. CASE kept = {}
    <3>1. P = {}
      BY <2>1
    <3> QED BY <3>1, FS_EmptySet
  <2>2. CASE kept # {}
    <3>1. kept \subseteq Nat
      BY <1>1, <1>2
    <3>2. PICK x \in kept : \A y \in kept : x <= y
      BY <2>2, <3>1, LeastOf
    <3>3. P = Down(x)
      <4>1. ASSUME NEW j \in P PROVE j >= x
        <5>1. PICK i \in kept : j >= i
          OBVIOUS
        <5>2. x <= i /\ i \in Int /\ x \in Int /\ j \in Int
          BY <1>1, <1>2, <3>2
        <5> QED BY <5>1, <5>2
      <4> QED BY <4>1, <3>2
    <3>4. x \in N
      BY <1>2
    <3> QED BY <1>2, <3>3, <3>4
  <2> QED BY <2>1, <2>2
<1>6. P = N => Cardinality(P) = Cardinality(N)
  OBVIOUS
<1>7. ASSUME P # N PROVE Cardinality(P) = n /\ n < Cardinality(N)
  <2>1. N \ P # {} /\ N \ P \subseteq Nat /\ \A x \in N \ P : x <= m
    BY <1>1, <1>3, <1>7
  <2>2. PICK x \in N \ P : \A y \in N \ P : y <= x
    BY <2>1, GreatestOf
  <2>3. Down(x) = P \cup {x}
    <3>1. ASSUME NEW j \in Down(x), j # x PROVE j \in P
      <4>1. ~(j <= x)
        BY <1>1, <2>2, <3>1
      <4> QED BY <2>2, <4>1
    <3>2. ASSUME NEW j \in P PROVE j >= x
      <4>1. PICK i \in kept : j >= i
        OBVIOUS
      <4>2. ~(x >= i)
        BY <2>2
      <4>3. i \in Int /\ x \in Int /\ j \in Int
        BY <1>1, <1>2, <2>2
      <4> QED BY <4>1, <4>2, <4>3
    <3>3. x \in Down(x)
      BY <1>1
    <3> QED BY <3>1, <3>2, <3>3
  <2>4. Cardinality(Down(x)) = Cardinality(P) + 1
    <3>1. x \notin P /\ IsFiniteSet(P)
      BY <1>4, <2>2
    <3> HIDE DEF P
    <3>2. Cardinality(P \cup {x}) = Cardinality(P) + 1
      BY <3>1, FS_AddElement
    <3> QED BY <2>3, <3>2
  <2>5. x \notin kept
    BY <1>1, <2>2
  <2>6. ~(Cardinality(Down(x)) <= n)
    BY <1>2, <2>2, <2>5
  <2>7. Cardinality(P) = n
    BY <1>4, <1>5, <2>4, <2>6
  <2>8. Cardinality(P) <= Cardinality(N) /\ Cardinality(N) # Cardinality(P)
    BY <1>3, <1>4, <1>7, FS_Subset
  <2>9. n < Cardinality(N)
    BY <1>4, <2>7, <2>8
  <2> QED BY <2>7, <2>9
<1> HIDE DEF P
<1>8. Cardinality(P) = IF n < Cardinality(N) THEN n ELSE Cardinality(N)
  BY <1>4, <1>5, <1>6, <1>7
<1> QED BY <1>8 DEF P, kept

\* The lines that are not blank of the upper part of a screen.
LEMMA TopPlaces ==
  ASSUME NEW s \in Seq(Line), NEW i \in 1..Len(s)
  PROVE  NonEmpty(Before(s, i + 1)) = {j \in NonEmpty(s) : j <= i}
<1> DEFINE b == Before(s, i + 1)
<1>1. /\ b \in Seq(Line) /\ Len(b) = (i + 1) - 1
      /\ \A k \in 1..((i + 1) - 1) : b[k] = s[k]
  <2>1. i + 1 \in 1..(Len(s) + 1)
    OBVIOUS
  <2> QED BY <2>1, CutScreen
<1> HIDE DEF b
<1>2. (i + 1) - 1 = i /\ i \in Nat /\ i <= Len(s) /\ Len(s) \in Nat
  OBVIOUS
<1>3. DOMAIN b = 1..i /\ DOMAIN s = 1..Len(s) /\ \A k \in 1..i : b[k] = s[k]
  BY <1>1, <1>2
<1>4. \A k : k \in 1..i <=> k \in 1..Len(s) /\ k <= i
  BY <1>2
<1>5. NonEmpty(b) = {j \in NonEmpty(s) : j <= i}
  BY <1>3, <1>4 DEF NonEmpty, Places
<1> QED BY <1>5 DEF b

\* Those of the lower part, which have other places there.
LEMMA BottomPlaces ==
  ASSUME NEW s \in Seq(Line), NEW i \in 1..Len(s)
  PROVE  Cardinality(NonEmpty(From(s, i))) = Cardinality({j \in NonEmpty(s) : j >= i})
<1> DEFINE b == From(s, i)
           S == {j \in NonEmpty(s) : j >= i}
           T == NonEmpty(b)
           f == [j \in S |-> j - i + 1]
<1>1. /\ b \in Seq(Line) /\ Len(b) = Len(s) - i + 1
      /\ \A k \in 1..(Len(s) - i + 1) : b[k] = s[i + k - 1]
  <2>1. i \in 1..(Len(s) + 1)
    OBVIOUS
  <2> QED BY <2>1, CutScreen
<1>2. i \in Nat \ {0} /\ Len(s) \in Nat /\ i <= Len(s)
  OBVIOUS
<1> HIDE DEF b
<1>3. DOMAIN b = 1..(Len(s) - i + 1) /\ DOMAIN s = 1..Len(s)
  BY <1>1
<1>4. ASSUME NEW j \in S PROVE j - i + 1 \in T
  <2>1. j \in 1..Len(s) /\ j >= i /\ s[j] \in Line \ {"blank"}
    BY <1>3 DEF NonEmpty, Places
  <2>2. j - i + 1 \in 1..(Len(s) - i + 1) /\ i + (j - i + 1) - 1 = j
    BY <1>2, <2>1
  <2>3. b[j - i + 1] = s[j]
    BY <1>1, <2>2
  <2> QED BY <1>3, <2>1, <2>2, <2>3 DEF NonEmpty, Places
<1>5. ASSUME NEW k \in T PROVE \E j \in S : k = j - i + 1
  <2>1. k \in 1..(Len(s) - i + 1) /\ b[k] \in Line \ {"blank"}
    BY <1>3 DEF NonEmpty, Places
  <2>2. s[i + k - 1] = b[k]
    BY <1>1, <2>1
  <2>3. i + k - 1 \in 1..Len(s) /\ i + k - 1 >= i /\ k = (i + k - 1) - i + 1
    BY <1>2, <2>1
  <2>4. i + k - 1 \in S
    BY <1>3, <2>1, <2>2, <2>3 DEF NonEmpty, Places
  <2> QED BY <2>3, <2>4
<1>6. S \subseteq Nat /\ S \in SUBSET NonEmpty(s) /\ NonEmpty(s) \in SUBSET (1..Len(s))
  BY <1>3 DEF NonEmpty, Places
<1>7. IsFiniteSet(S)
  BY <1>2, <1>6, Finite
<1> HIDE DEF S, T
<1>8. f \in [S -> T]
  BY <1>4
<1>9. \A x, y \in S : f[x] = f[y] => x = y
  <2>1. ASSUME NEW x \in S, NEW y \in S, f[x] = f[y] PROVE x = y
    <3>1. x \in Int /\ y \in Int
      BY <1>6
    <3>2. x - i + 1 = y - i + 1
      BY <2>1
    <3> QED BY <1>2, <3>1, <3>2
  <2> QED BY <2>1
<1>10. \A k \in T : \E j \in S : f[j] = k
  BY <1>5
<1> HIDE DEF f
<1>11. f \in Bijection(S, T)
  BY <1>8, <1>9, <1>10 DEF Bijection, Injection, Surjection, IsInjective
<1>12. ExistsBijection(S, T)
  BY <1>11 DEF ExistsBijection
<1>13. Cardinality(T) = Cardinality(S)
  BY <1>7, <1>12, FS_Bijection
<1> QED BY <1>13 DEF S, T, b

\* The top and bottom lines, for any screen and any number of them.
LEMMA Blanks ==
  ASSUME content \in Seq(Line), Count \subseteq Nat
  PROVE  BlanksDoNotCount
<1> DEFINE s == content
           N == NonEmpty(s)
<1>1. Len(s) \in Nat /\ N \in SUBSET (1..Len(s))
  BY DEF NonEmpty, Places
<1>2. N \in SUBSET Nat /\ \A x \in N : x <= Len(s)
  BY <1>1
<1>3. /\ Before(s, 1) = Empty /\ From(s, Len(s) + 1) = Empty
      /\ Len(Empty) = 0 /\ Cardinality(NonEmpty(Empty)) = 0
  <2>1. SubSeq(s, 1, 1 - 1) = <<>> /\ SubSeq(s, Len(s) + 1, Len(s)) = <<>>
    BY <1>1, SubSeqEmpty
  <2>2. NonEmpty(<<>>) = {}
    BY DEF NonEmpty, Places
  <2> QED BY <2>1, <2>2, FS_EmptySet DEF Empty, Before, From
<1>4. SUFFICES ASSUME NEW n \in Count
      PROVE  LET want   == IF n < Cardinality(N) THEN n ELSE Cardinality(N)
                 top    == top_non_empty_lines(s, n)
                 bottom == bottom_non_empty_lines(s, n)
             IN  /\ Cardinality(NonEmpty(top)) = want
                 /\ Cardinality(NonEmpty(bottom)) = want
                 /\ top = Before(s, Len(top) + 1)
                 /\ bottom = From(s, Len(s) - Len(bottom) + 1)
  BY DEF BlanksDoNotCount
<1> DEFINE want == IF n < Cardinality(N) THEN n ELSE Cardinality(N)
           top == top_non_empty_lines(s, n)
           bottom == bottom_non_empty_lines(s, n)
<1>5. n \in Nat
  OBVIOUS
<1>6. /\ Cardinality({j \in N : \E i \in Least(N, n) : j <= i}) = want
      /\ Cardinality({j \in N : \E i \in Greatest(N, n) : j >= i}) = want
  BY <1>1, <1>5, CountUp, CountDown
<1>7. /\ top = IF Least(N, n) = {} THEN Empty ELSE Before(s, Max(Least(N, n)) + 1)
      /\ bottom = IF Greatest(N, n) = {} THEN Empty ELSE From(s, Min(Greatest(N, n)))
  BY DEF top_non_empty_lines, bottom_non_empty_lines, Least, Greatest
<1>8. Least(N, n) \subseteq N /\ Greatest(N, n) \subseteq N
  BY DEF Least, Greatest
<1> HIDE DEF top, bottom, want, N
<1>9. Cardinality(NonEmpty(top)) = want /\ top = Before(s, Len(top) + 1)
  <2> DEFINE kept == Least(N, n)
  <2> HIDE DEF kept
  <2>1. CASE kept = {}
    <3>1. top = Empty
      BY <1>7, <2>1 DEF kept
    <3>2. {j \in N : \E i \in Least(N, n) : j <= i} = {}
      BY <2>1 DEF kept
    <3>3. want = 0
      BY <1>6, <3>2, FS_EmptySet
    <3>4. Len(top) + 1 = 1
      BY <1>3, <3>1
    <3> QED BY <1>3, <3>1, <3>3, <3>4
  <2>2. CASE kept # {}
    <3> DEFINE m == Max(kept)
    <3> HIDE DEF m
    <3>1. m \in kept /\ \A y \in kept : y <= m
      <4>1. kept \subseteq Nat /\ \A y \in kept : y <= Len(s)
        BY <1>2, <1>8 DEF kept
      <4> QED BY <1>1, <2>2, <4>1, Maxs DEF m
    <3>2. m \in 1..Len(s)
      BY <1>1, <1>8, <3>1 DEF kept
    <3>3. top = Before(s, m + 1)
      BY <1>7, <2>2 DEF kept, m
    <3>4. NonEmpty(top) = {j \in N : j <= m}
      BY <3>2, <3>3, TopPlaces DEF N
    <3>5. {j \in N : \E i \in kept : j <= i} = {j \in N : j <= m}
      <4>1. ASSUME NEW j \in N, NEW i \in kept, j <= i PROVE j <= m
        <5>1. i <= m /\ i \in Int /\ j \in Int /\ m \in Int
          BY <1>2, <1>8, <3>1, <3>2 DEF kept
        <5> QED BY <4>1, <5>1
      <4> QED BY <3>1, <4>1
    <3>6. Cardinality(NonEmpty(top)) = want
      BY <1>6, <3>4, <3>5 DEF kept
    <3>7. Len(top) = m
      <4>1. m + 1 \in 1..(Len(s) + 1)
        BY <1>1, <3>2
      <4>2. Len(top) = (m + 1) - 1
        BY <3>3, <4>1, CutScreen
      <4> QED BY <3>2, <4>2
    <3> QED BY <3>3, <3>6, <3>7
  <2> QED BY <2>1, <2>2
<1>10. Cardinality(NonEmpty(bottom)) = want /\ bottom = From(s, Len(s) - Len(bottom) + 1)
  <2> DEFINE kept == Greatest(N, n)
  <2> HIDE DEF kept
  <2>1. CASE kept = {}
    <3>1. bottom = Empty
      BY <1>7, <2>1 DEF kept
    <3>2. {j \in N : \E i \in Greatest(N, n) : j >= i} = {}
      BY <2>1 DEF kept
    <3>3. want = 0
      BY <1>6, <3>2, FS_EmptySet
    <3>4. Len(s) - Len(bottom) + 1 = Len(s) + 1
      BY <1>1, <1>3, <3>1
    <3> QED BY <1>3, <3>1, <3>3, <3>4
  <2>2. CASE kept # {}
    <3> DEFINE m == Min(kept)
    <3> HIDE DEF m
    <3>1. m \in kept /\ \A y \in kept : m <= y
      <4>1. kept \subseteq Nat
        BY <1>2, <1>8 DEF kept
      <4> QED BY <2>2, <4>1, Mins DEF m
    <3>2. m \in 1..Len(s)
      BY <1>1, <1>8, <3>1 DEF kept
    <3>3. bottom = From(s, m)
      BY <1>7, <2>2 DEF kept, m
    <3>4. Cardinality(NonEmpty(bottom)) = Cardinality({j \in N : j >= m})
      BY <3>2, <3>3, BottomPlaces DEF N
    <3>5. {j \in N : \E i \in kept : j >= i} = {j \in N : j >= m}
      <4>1. ASSUME NEW j \in N, NEW i \in kept, j >= i PROVE j >= m
        <5>1. m <= i /\ i \in Int /\ j \in Int /\ m \in Int
          BY <1>2, <1>8, <3>1, <3>2 DEF kept
        <5> QED BY <4>1, <5>1
      <4> QED BY <3>1, <4>1
    <3>6. Cardinality(NonEmpty(bottom)) = want
      BY <1>6, <3>4, <3>5 DEF kept
    <3>7. Len(s) - Len(bottom) + 1 = m
      <4>1. m \in 1..(Len(s) + 1)
        BY <1>1, <3>2
      <4>2. Len(bottom) = Len(s) - m + 1
        BY <3>3, <4>1, CutScreen
      <4> QED BY <1>1, <3>2, <4>2
    <3> QED BY <3>3, <3>6, <3>7
  <2> QED BY <2>1, <2>2
<1> QED BY <1>9, <1>10 DEF top, bottom, want

\* A call of compile_gate to come.
Call == [parent : Nat, list : Lists, depth : Nat]

\* Only the task that was begun has any state.
Tasks ==
    /\ task # "gates" => gates = <<>> /\ calls = <<>> /\ compiled = "no"
    /\ compiled \in {"yes", "matching"} => calls = <<>>
    /\ compiled # "matching" => matching = {}

\* Every list of a gate that is not empty has a gate compiled or to compile.
Served(i, list) ==
    gates[i].shape.nested[list] > 0 =>
        \/ Nested(i, list) # {}
        \/ \E k \in DOMAIN calls : calls[k].parent = i /\ calls[k].list = list

\* The types of what compile_gate and the matching keep.
GatesTyped ==
    /\ gates \in Seq([call : Call, shape : Shape])
    /\ calls \in Seq(Call)
    /\ matching \subseteq DOMAIN gates

\* Every gate has what compile_gate demands of it.
AllSound ==
    \A i \in DOMAIN gates :
        /\ Sound(gates[i].shape, gates[i].call.list = "not_gate")
        /\ \A list \in Lists : Served(i, list)

\* The first gate is the rule's own.
Root ==
    /\ gates = <<>> /\ calls # <<>> => Head(calls).list = "all"
    /\ gates # <<>> => gates[1].call.list = "all"

\* On a text with nothing that was asked for, only gates that are negated match.
OnlyNegated ==
    compiled = "matching" /\ text \cap Asked = {} =>
        \A i \in matching : gates[i].call.list = "not_gate"

\* The matching is at one of the gates, or over.
Lefts == compiled = "matching" => left \in 0..Len(gates)

\* What the loop of evaluate keeps.
BestSoFar ==
    LET hits == {i \in DOMAIN rules : rules[i].matches}
    IN  /\ rules \in Seq(Rule)
        /\ best \in 0..Len(rules)
        /\ best = 0 => hits = {}
        /\ best # 0 => /\ best \in hits
                       /\ \A j \in hits : /\ rules[j].priority <= rules[best].priority
                                          /\ j < best => rules[j].priority < rules[best].priority

\* The inductive invariant.
AgentsInv ==
    /\ content \in Seq(Line)
    /\ Tasks /\ GatesTyped /\ AllSound /\ Root /\ OnlyNegated
    /\ Lefts /\ BestSoFar

\* Nothing is begun at first.
LEMMA GateInit == AgentsInit => AgentsInv
<1> SUFFICES ASSUME AgentsInit PROVE AgentsInv
  OBVIOUS
<1>1. gates = <<>> /\ calls = <<>> /\ compiled = "no" /\ matching = {} /\ content = <<>>
      /\ rules = <<>> /\ best = 0
  BY DEF AgentsInit, None, Empty
<1>2. Tasks /\ GatesTyped /\ Root /\ OnlyNegated /\ Lefts /\ content \in Seq(Line)
  BY <1>1 DEF Tasks, GatesTyped, Root, OnlyNegated, Lefts
<1>3. AllSound
  BY <1>1 DEF AllSound
<1>4. BestSoFar
  BY <1>1 DEF BestSoFar
<1> QED BY <1>2, <1>3, <1>4 DEF AgentsInv

\* Of each list of a gate that is not empty there is a call.
Serving(g, n, made) ==
    \A list \in Lists : g.nested[list] > 0 =>
        \E k \in DOMAIN made : made[k].parent = n /\ made[k].list = list

\* A nonempty list has a call among those its gate makes.
LEMMA CallsMade ==
  ASSUME NEW g \in Shape, NEW n \in Nat, NEW d \in Nat
  PROVE  Calls(g, n, d) \in Seq(Call) /\ Serving(g, n, Calls(g, n, d))
<1> DEFINE alls == g.nested["all"]
           anys == alls + g.nested["any"]
           m == anys + g.nested["not_gate"]
           cs == Calls(g, n, d)
           Kind(k) == IF k <= alls THEN "all" ELSE IF k <= anys THEN "any" ELSE "not_gate"
<1>1. /\ alls \in Nat /\ g.nested["any"] \in Nat /\ g.nested["not_gate"] \in Nat
  <2>1. g.nested \in [Lists -> 0..MaxNested] /\ MaxNested \in Nat
    BY AgentsAssumption DEF Shape
  <2>2. "all" \in Lists /\ "any" \in Lists /\ "not_gate" \in Lists
    BY DEF Lists
  <2> QED BY <2>1, <2>2
<1>2. m \in Nat /\ anys \in Nat
  BY <1>1
<1>3. cs = [k \in 1..m |-> [parent |-> n, depth |-> d, list |-> Kind(k)]]
  BY DEF Calls
<1>4. \A k : Kind(k) \in Lists
  BY DEF Lists
<1> HIDE DEF m, cs
<1>5. cs \in Seq(Call)
  <2>1. \A k \in 1..m : [parent |-> n, depth |-> d, list |-> Kind(k)] \in Call
    BY <1>4 DEF Call
  <2> HIDE DEF Kind
  <2>2. [k \in 1..m |-> [parent |-> n, depth |-> d, list |-> Kind(k)]] \in [1..m -> Call]
    BY <2>1
  <2> QED BY <1>2, <1>3, <2>2, SeqDef
<1>6. \A k \in 1..m : k \in DOMAIN cs /\ cs[k].parent = n /\ cs[k].list = Kind(k)
  BY <1>3
<1>7. ASSUME alls > 0 PROVE 1 \in 1..m /\ Kind(1) = "all"
  BY <1>1, <1>2, <1>7 DEF m
<1>8. ASSUME g.nested["any"] > 0 PROVE alls + 1 \in 1..m /\ Kind(alls + 1) = "any"
  BY <1>1, <1>2, <1>8 DEF m
<1>9. ASSUME g.nested["not_gate"] > 0 PROVE anys + 1 \in 1..m /\ Kind(anys + 1) = "not_gate"
  BY <1>1, <1>2, <1>9 DEF m
<1>10. ASSUME NEW list \in Lists, g.nested[list] > 0
       PROVE  \E k \in DOMAIN cs : cs[k].parent = n /\ cs[k].list = list
  <2>1. CASE list = "all"
    BY <1>6, <1>7, <1>10, <2>1
  <2>2. CASE list = "any"
    BY <1>6, <1>8, <1>10, <2>2
  <2>3. CASE list = "not_gate"
    BY <1>6, <1>9, <1>10, <2>3
  <2> QED BY <2>1, <2>2, <2>3 DEF Lists
<1>11. Serving(g, n, cs)
  BY <1>10 DEF Serving
<1> QED BY <1>5, <1>11 DEF cs

\* A gate that is compiled: the call it answers becomes a nested gate of its
\* parent, and its own lists are served by the calls it makes.
LEMMA CompileStep ==
  ASSUME AgentsInv, NEW g \in Shape, compile_gate(g)
  PROVE  AgentsInv'
<1> DEFINE GateRec == [call : Call, shape : Shape]
           call == Head(calls)
           fresh == [call |-> call, shape |-> g]
<1>9. PICK n, d : n = Len(gates) + 1 /\ d = call.depth + 1
  OBVIOUS
<1> DEFINE more == Calls(g, n, d)
<1>1. /\ UNCHANGED <<task, content, text, left, matching, rules, best, previous>>
      /\ compiled = "no" /\ calls # <<>>
  BY DEF compile_gate, ruleVars
<1>2. /\ gates \in Seq(GateRec) /\ calls \in Seq(Call) /\ content \in Seq(Line)
      /\ Tasks /\ AllSound /\ Root /\ BestSoFar
  BY DEF AgentsInv, GatesTyped
<1>3. matching = {} /\ task = "gates"
  BY <1>1, <1>2 DEF Tasks
<1>4. call \in Call /\ Tail(calls) \in Seq(Call) /\ Len(Tail(calls)) = Len(calls) - 1
      /\ \A k \in 1..Len(Tail(calls)) : Tail(calls)[k] = calls[k + 1]
  BY <1>1, <1>2, HeadTailProperties
<1>5. call = calls[1]
  OBVIOUS
<1>6. BestSoFar' /\ content' \in Seq(Line)
  BY <1>1, <1>2 DEF BestSoFar
<1>7. CASE compiled' = "failed" /\ UNCHANGED <<gates, calls, total_matchers>>
  <2>1. Tasks' /\ GatesTyped' /\ Root' /\ OnlyNegated' /\ Lefts'
    BY <1>1, <1>2, <1>3, <1>7 DEF Tasks, GatesTyped, Root, OnlyNegated, Lefts
  <2>2. AllSound'
    BY <1>2, <1>7 DEF AllSound, Served, Nested
  <2> QED BY <1>6, <2>1, <2>2 DEF AgentsInv
<1>8. CASE /\ Sound(g, call.list = "not_gate")
           /\ gates' = Append(gates, fresh)
           /\ calls' = more \o Tail(calls)
           /\ compiled' = IF calls' = <<>> THEN "yes" ELSE "no"
  <2>1. n \in Nat /\ Len(gates) \in Nat /\ d \in Nat /\ n = Len(gates) + 1
    BY <1>9, <1>2, <1>4 DEF Call
  <2>2. /\ more \in Seq(Call)
        /\ \A list \in Lists : g.nested[list] > 0 =>
              \E k \in DOMAIN more : more[k].parent = n /\ more[k].list = list
    <3>1. n \in Nat /\ d \in Nat
      BY <2>1
    <3>2. more \in Seq(Call) /\ Serving(g, n, more)
      BY <3>1, CallsMade
    <3> QED BY <3>2 DEF Serving
  <2> HIDE DEF more
  <2>3. fresh \in GateRec /\ fresh.call = call /\ fresh.shape = g
    BY <1>4
  <2> HIDE DEF fresh
  <2>4. /\ gates' \in Seq(GateRec) /\ Len(gates') = n
        /\ \A i \in 1..Len(gates) : gates'[i] = gates[i]
        /\ gates'[n] = fresh
    BY <1>2, <1>8, <2>1, <2>3, AppendProperties
  <2> DEFINE t == Tail(calls)
  <2> HIDE DEF t
  <2>5. /\ calls' \in Seq(Call) /\ Len(calls') = Len(more) + Len(t)
        /\ \A k \in 1..(Len(more) + Len(t)) :
              calls'[k] = IF k <= Len(more) THEN more[k] ELSE t[k - Len(more)]
    <3>1. t \in Seq(Call)
      BY <1>4 DEF t
    <3>2. calls' = more \o t
      BY <1>8 DEF t
    <3> QED BY <2>2, <3>1, <3>2, ConcatProperties
  <2>6. /\ DOMAIN gates' = 1..n /\ DOMAIN gates = 1..Len(gates)
        /\ DOMAIN calls' = 1..(Len(more) + Len(t))
        /\ DOMAIN calls = 1..Len(calls) /\ DOMAIN more = 1..Len(more)
        /\ Len(more) \in Nat /\ Len(calls) \in Nat /\ Len(t) = Len(calls) - 1
        /\ Len(t) \in Nat
    <3>1. t \in Seq(Call) /\ Len(t) = Len(calls) - 1
      BY <1>4 DEF t
    <3> QED BY <1>2, <2>2, <2>4, <2>5, <3>1
  <2>7. \A i \in DOMAIN gates, list \in Lists : Nested(i, list) \subseteq Nested(i, list)'
    <3>1. ASSUME NEW i \in DOMAIN gates, NEW list \in Lists, NEW j \in Nested(i, list)
          PROVE  j \in Nested(i, list)'
      <4>1. j \in 1..Len(gates) /\ gates[j].call.parent = i /\ gates[j].call.list = list
        BY <2>6 DEF Nested
      <4>2. j \in DOMAIN gates' /\ gates'[j] = gates[j]
        BY <2>1, <2>4, <2>6, <4>1
      <4> QED BY <4>1, <4>2 DEF Nested
    <3> QED BY <3>1
  <2>8. ASSUME NEW i \in DOMAIN gates, NEW list \in Lists, Served(i, list)
        PROVE  Served(i, list)'
    <3>1. gates'[i] = gates[i]
      BY <2>4, <2>6
    <3>2. SUFFICES ASSUME gates[i].shape.nested[list] > 0
          PROVE  \/ Nested(i, list)' # {}
                 \/ \E k \in DOMAIN calls' : calls'[k].parent = i /\ calls'[k].list = list
      BY <3>1 DEF Served
    <3>3. CASE Nested(i, list) # {}
      BY <2>7, <3>3
    <3>4. CASE \E k \in DOMAIN calls : calls[k].parent = i /\ calls[k].list = list
      <4>1. PICK k \in DOMAIN calls : calls[k].parent = i /\ calls[k].list = list
        BY <3>4
      <4>2. CASE k = 1
        <5>1. call.parent = i /\ call.list = list
          BY <1>5, <4>1, <4>2
        <5>2. n \in DOMAIN gates' /\ gates'[n].call = call
          BY <2>1, <2>3, <2>4, <2>6
        <5>3. n \in Nested(i, list)'
          BY <5>1, <5>2 DEF Nested
        <5> QED BY <5>3
      <4>3. CASE k # 1
        <5>1. k - 1 \in 1..Len(t) /\ (k - 1) + 1 = k
          BY <2>6, <4>3
        <5>2. t[k - 1] = calls[k]
          BY <1>4, <5>1 DEF t
        <5>3. PICK p : p = Len(more) + (k - 1)
          OBVIOUS
        <5>4. /\ p \in 1..(Len(more) + Len(t))
              /\ ~(p <= Len(more))
              /\ p - Len(more) = k - 1
          BY <2>6, <5>1, <5>3
        <5>5. calls'[p] = calls[k]
          BY <2>5, <5>2, <5>4
        <5> QED BY <2>6, <4>1, <5>4, <5>5
      <4> QED BY <4>2, <4>3
    <3> QED BY <2>8, <3>2, <3>3, <3>4 DEF Served
  <2>9. ASSUME NEW list \in Lists PROVE Served(n, list)'
    <3>1. gates'[n].shape = g
      BY <2>3, <2>4
    <3>2. ASSUME g.nested[list] > 0
          PROVE  \E k \in DOMAIN calls' : calls'[k].parent = n /\ calls'[k].list = list
      <4>1. PICK k \in DOMAIN more : more[k].parent = n /\ more[k].list = list
        BY <2>2, <3>2
      <4>2. k \in 1..(Len(more) + Len(t)) /\ k <= Len(more)
        BY <2>6
      <4> QED BY <2>5, <2>6, <4>1, <4>2
    <3> QED BY <3>1, <3>2 DEF Served
  <2>10. AllSound'
    <3>1. ASSUME NEW i \in DOMAIN gates'
          PROVE  /\ Sound(gates'[i].shape, gates'[i].call.list = "not_gate")
                 /\ \A list \in Lists : Served(i, list)'
      <4>1. CASE i = n
        BY <1>8, <2>3, <2>4, <2>9, <4>1
      <4>2. CASE i # n
        <5>1. i \in DOMAIN gates /\ gates'[i] = gates[i]
          BY <2>1, <2>4, <2>6, <4>2
        <5>2. /\ Sound(gates[i].shape, gates[i].call.list = "not_gate")
              /\ \A list \in Lists : Served(i, list)
          BY <1>2, <5>1 DEF AllSound
        <5> QED BY <2>8, <5>1, <5>2
      <4> QED BY <4>1, <4>2
    <3>2. \A i \in DOMAIN gates' :
            /\ Sound(gates'[i].shape, gates'[i].call.list = "not_gate")
            /\ \A list \in Lists : Served(i, list)'
      BY <3>1
    <3> QED BY <3>2 DEF AllSound, Sound, gate_has_positive_matcher
  <2>11. Root'
    <3>1. gates' # <<>>
      BY <2>1, <2>4
    <3>2. gates'[1].call.list = "all"
      <4>1. CASE gates = <<>>
        <5>1. n = 1 /\ call.list = "all"
          BY <1>1, <1>2, <2>1, <4>1 DEF Root
        <5> QED BY <2>3, <2>4, <5>1
      <4>2. CASE gates # <<>>
        <5>1. 1 \in 1..Len(gates) /\ gates[1].call.list = "all"
          BY <1>2, <4>2 DEF Root
        <5> QED BY <2>4, <5>1
      <4> QED BY <4>1, <4>2
    <3> QED BY <3>1, <3>2 DEF Root
  <2>12. Tasks' /\ GatesTyped' /\ OnlyNegated' /\ Lefts'
    <3>1. matching' = {} /\ task' = "gates" /\ compiled' \in {"yes", "no"}
          /\ (compiled' = "yes" => calls' = <<>>)
      BY <1>1, <1>3, <1>8
    <3> QED BY <2>4, <2>5, <3>1 DEF Tasks, GatesTyped, OnlyNegated, Lefts
  <2> QED BY <1>6, <2>10, <2>11, <2>12 DEF AgentsInv
<1> QED BY <1>9, <1>7, <1>8 DEF compile_gate

\* A gate that is matched: on a text with nothing it asks for, one with a
\* positive matcher fails, by that matcher or by the nested gates of its list, which all failed.
LEMMA MatchStep ==
  ASSUME AgentsInv, compiled_gate_matches
  PROVE  AgentsInv'
<1>1. /\ UNCHANGED <<task, content, gates, calls, compiled, text, rules, best, previous>>
      /\ compiled = "matching" /\ left > 0 /\ left' = left - 1
      /\ matching' = IF Matches(left) THEN matching \cup {left} ELSE matching
  BY DEF compiled_gate_matches, ruleVars
<1>2. /\ content \in Seq(Line) /\ Tasks /\ GatesTyped /\ AllSound /\ Root /\ BestSoFar
      /\ OnlyNegated /\ Lefts
  BY DEF AgentsInv
<1>3. content' \in Seq(Line) /\ Tasks' /\ Root' /\ BestSoFar'
  BY <1>1, <1>2 DEF Tasks, Root, BestSoFar
<1>4. AllSound'
  BY <1>1, <1>2 DEF AllSound, Served, Nested
<1>5. calls = <<>> /\ left \in DOMAIN gates
  BY <1>1, <1>2 DEF Tasks, Lefts
<1>6. GatesTyped' /\ Lefts'
  BY <1>1, <1>2, <1>5 DEF GatesTyped, Lefts
<1>7. ASSUME text \cap Asked = {}, gates[left].call.list # "not_gate"
      PROVE  ~Matches(left)
  <2> DEFINE g == gates[left].shape
  <2>1. \A list \in Lists : g.nested[list] > 0 => Nested(left, list) # {}
    BY <1>2, <1>5 DEF AllSound, Served
  <2>2. g.contains # {} \/ g.nested["all"] > 0 \/ g.nested["any"] > 0
    BY <1>2, <1>5, <1>7 DEF AllSound, Sound, gate_has_positive_matcher
  <2>3. \A list \in Lists : list # "not_gate" => Nested(left, list) \cap matching = {}
    BY <1>1, <1>2, <1>7 DEF OnlyNegated, Nested
  <2>4. "all" \in Lists /\ "any" \in Lists /\ "all" # "not_gate" /\ "any" # "not_gate"
    BY DEF Lists
  <2>5. CASE g.contains # {}
    <3>1. g.contains \subseteq Asked
      BY <1>5, <1>7 DEF Asked
    <3> QED BY <1>7, <2>5, <3>1 DEF Matches
  <2>6. CASE g.nested["all"] > 0
    BY <2>1, <2>3, <2>4, <2>6 DEF Matches
  <2>7. CASE g.nested["any"] > 0
    <3>1. Nested(left, "any") \cap matching = {}
      BY <2>3, <2>4
    <3>2. g.nested["any"] # 0
      BY <2>7
    <3> QED BY <3>1, <3>2 DEF Matches
  <2> QED BY <2>2, <2>5, <2>6, <2>7
<1>8. OnlyNegated'
  <2>1. Asked' = Asked
    BY <1>1 DEF Asked
  <2>2. SUFFICES ASSUME text \cap Asked = {}, NEW i \in matching'
        PROVE  gates[i].call.list = "not_gate"
    BY <1>1, <2>1 DEF OnlyNegated
  <2>3. CASE i \in matching
    BY <1>1, <1>2, <2>2, <2>3 DEF OnlyNegated
  <2>4. CASE i \notin matching
    <3>1. i = left /\ Matches(left)
      BY <1>1, <2>2, <2>4
    <3> QED BY <1>7, <2>2, <3>1
  <2> QED BY <2>3, <2>4
<1> QED BY <1>3, <1>4, <1>6, <1>8 DEF AgentsInv

\* A turn of the loop of evaluate.
LEMMA RuleStep ==
  ASSUME AgentsInv, NEW r \in Rule, evaluate(r)
  PROVE  AgentsInv'
<1> DEFINE n == Len(rules)
           hits == {i \in DOMAIN rules : rules[i].matches}
<1>1. /\ UNCHANGED <<task, content, gates, calls, compiled, text, left, matching, previous>>
      /\ rules' = Append(rules, r)
      /\ best' = IF Better(r) /\ r.matches THEN n + 1 ELSE best
  BY DEF evaluate, gateVars
<1>2. /\ content \in Seq(Line) /\ Tasks /\ GatesTyped /\ AllSound /\ Root /\ OnlyNegated /\ Lefts
      /\ rules \in Seq(Rule) /\ best \in 0..n
      /\ best = 0 => hits = {}
      /\ best # 0 => /\ best \in hits
                     /\ \A j \in hits : /\ rules[j].priority <= rules[best].priority
                                        /\ j < best => rules[j].priority < rules[best].priority
  BY DEF AgentsInv, BestSoFar
<1>3. content' \in Seq(Line) /\ Tasks' /\ GatesTyped' /\ Root' /\ OnlyNegated' /\ Lefts'
  <2>1. Asked' = Asked
    BY <1>1 DEF Asked
  <2> QED BY <1>1, <1>2, <2>1 DEF Tasks, GatesTyped, Root, OnlyNegated, Lefts
<1>4. AllSound'
  BY <1>1, <1>2 DEF AllSound, Served, Nested
<1>5. n \in Nat /\ DOMAIN rules = 1..n
  BY <1>2
<1>6. /\ rules' \in Seq(Rule) /\ Len(rules') = n + 1 /\ DOMAIN rules' = 1..(n + 1)
      /\ \A i \in 1..n : rules'[i] = rules[i]
      /\ rules'[n + 1] = r
  BY <1>1, <1>2, AppendProperties
<1>7. /\ r.priority \in Int
      /\ \A i \in 1..n : rules[i].priority \in Int
  <2>1. Priority \subseteq Int
    BY AgentsAssumption
  <2>2. \A i \in 1..n : rules[i] \in Rule
    BY <1>2, <1>5
  <2> QED BY <2>1, <2>2 DEF Rule
<1> DEFINE new == {i \in DOMAIN rules' : rules'[i].matches}
<1>8. new = IF r.matches THEN hits \cup {n + 1} ELSE hits
  <2>1. \A i : i \in 1..(n + 1) <=> i \in 1..n \/ i = n + 1
    BY <1>5
  <2> HIDE DEF n
  <2>2. \A i \in 1..n : i \in new <=> i \in hits
    BY <1>5, <1>6, <2>1
  <2>3. n + 1 \in new <=> r.matches
    BY <1>6, <2>1
  <2>4. new \subseteq 1..(n + 1) /\ hits \subseteq 1..n
    BY <1>5, <1>6
  <2> QED BY <2>1, <2>2, <2>3, <2>4
<1>9. hits \subseteq 1..n /\ best \in Int
  BY <1>2, <1>5
<1> HIDE DEF n, hits, new
<1>10. /\ best' \in 0..(n + 1)
       /\ best' = 0 => new = {}
       /\ best' # 0 => /\ best' \in new
                       /\ \A j \in new : /\ rules'[j].priority <= rules'[best'].priority
                                         /\ j < best' => rules'[j].priority < rules'[best'].priority
  <2>1. CASE Better(r) /\ r.matches
    <3>1. best' = n + 1 /\ new = hits \cup {n + 1} /\ n + 1 # 0
      BY <1>1, <1>5, <1>8, <2>1
    <3>2. ASSUME NEW j \in hits PROVE rules'[j].priority < r.priority
      <4>1. best # 0 /\ best \in hits /\ rules[j].priority <= rules[best].priority
        BY <1>2
      <4>2. r.priority > rules[best].priority
        BY <2>1, <4>1 DEF Better, None
      <4>3. rules'[j] = rules[j] /\ j \in 1..n /\ best \in 1..n
        BY <1>6, <1>9, <4>1
      <4>4. rules[j].priority \in Int /\ rules[best].priority \in Int /\ r.priority \in Int
        BY <1>7, <4>3
      <4> QED BY <4>1, <4>2, <4>3, <4>4
    <3>3. \A j \in hits : rules'[j].priority \in Int
      BY <1>6, <1>7, <1>9
    <3>4. rules'[best'].priority = r.priority
      BY <1>6, <3>1
    <3>5. \A j \in hits : rules'[j].priority <= r.priority
      BY <1>7, <3>2, <3>3
    <3>6. r.priority <= r.priority /\ ~(n + 1 < n + 1)
      BY <1>5, <1>7
    <3>7. \A j \in new : j \in hits \/ (j = n + 1 /\ rules'[j].priority = r.priority)
      BY <1>6, <3>1
    <3>8. ASSUME NEW j \in new
          PROVE  /\ rules'[j].priority <= r.priority
                 /\ j < n + 1 => rules'[j].priority < r.priority
      BY <3>2, <3>5, <3>6, <3>7
    <3> QED BY <1>5, <3>1, <3>4, <3>8
  <2>2. CASE ~(Better(r) /\ r.matches)
    <3>1. best' = best
      BY <1>1, <2>2
    <3>2. CASE best = 0
      <4>1. ~r.matches
        BY <2>2, <3>2 DEF Better, None
      <4> QED BY <1>2, <1>5, <1>8, <3>1, <3>2, <4>1
    <3>3. CASE best # 0
      <4>1. /\ best \in hits /\ best \in 1..n /\ rules'[best] = rules[best]
            /\ rules[best].priority \in Int
        BY <1>2, <1>6, <1>7, <1>9, <3>3
      <4>2. best \in new /\ best \in 0..(n + 1)
        BY <1>5, <1>8, <4>1
      <4>3. ASSUME NEW j \in new
            PROVE  /\ rules'[j].priority <= rules[best].priority
                   /\ j < best => rules'[j].priority < rules[best].priority
        <5>1. CASE j \in hits
          <6>1. rules'[j] = rules[j]
            BY <1>6, <1>9, <5>1
          <6> QED BY <1>2, <3>3, <5>1, <6>1
        <5>2. CASE j \notin hits
          <6>1. j = n + 1 /\ r.matches /\ rules'[j] = r
            BY <1>6, <1>8, <5>2
          <6>2. ~(r.priority > rules[best].priority)
            BY <2>2, <6>1 DEF Better
          <6>3. r.priority <= rules[best].priority /\ ~(j < best)
            BY <1>5, <1>7, <4>1, <6>1, <6>2
          <6> QED BY <6>1, <6>3
        <5> QED BY <5>1, <5>2
      <4> QED BY <3>1, <3>3, <4>1, <4>2, <4>3
    <3> QED BY <3>2, <3>3
  <2> QED BY <2>1, <2>2
<1>11. BestSoFar'
  BY <1>6, <1>10 DEF BestSoFar, new
<1> QED BY <1>3, <1>4, <1>11 DEF AgentsInv

\* The best rule is the first of those of the highest priority.
LEMMA FirstBest ==
  ASSUME BestSoFar
  PROVE  FirstOfTheBest
<1> DEFINE hits == {i \in DOMAIN rules : rules[i].matches}
           bests == {i \in hits : \A j \in hits : rules[j].priority <= rules[i].priority}
<1>1. /\ rules \in Seq(Rule) /\ best \in 0..Len(rules)
      /\ best = 0 => hits = {}
      /\ best # 0 => /\ best \in hits
                     /\ \A j \in hits : /\ rules[j].priority <= rules[best].priority
                                        /\ j < best => rules[j].priority < rules[best].priority
  BY DEF BestSoFar
<1>2. CASE best = 0
  BY <1>1, <1>2 DEF FirstOfTheBest, Detection, None
<1>3. CASE best # 0
  <2>1. best \in hits /\ best \in bests
    BY <1>1, <1>3
  <2>2. hits \subseteq Nat /\ bests \subseteq hits /\ \A i \in hits : rules[i].priority \in Int
    <3>1. Priority \subseteq Int
      BY AgentsAssumption
    <3>2. \A i \in DOMAIN rules : rules[i] \in Rule /\ i \in Nat
      BY <1>1
    <3>3. \A i \in DOMAIN rules : rules[i].priority \in Int
      BY <3>1, <3>2 DEF Rule
    <3> QED BY <3>2, <3>3
  <2>3. \A i, j \in hits : i \in bests => rules[j].priority <= rules[i].priority
    OBVIOUS
  <2> HIDE DEF hits, bests
  <2>4. Min(bests) \in bests /\ \A y \in bests : Min(bests) <= y
    <3>1. bests \subseteq Nat /\ bests # {}
      BY <2>1, <2>2
    <3> QED BY <3>1, Mins
  <2> DEFINE m == Min(bests)
  <2> HIDE DEF m
  <2>5. m \in bests /\ m <= best /\ m \in hits /\ m \in Nat /\ best \in Nat
    BY <2>1, <2>2, <2>4 DEF m
  <2>6. rules[best].priority <= rules[m].priority
    BY <2>1, <2>3, <2>5
  <2>7. ~(m < best)
    <3>1. ASSUME m < best PROVE FALSE
      <4>1. rules[m].priority < rules[best].priority
        BY <1>1, <1>3, <2>5, <3>1
      <4>2. rules[m].priority \in Int /\ rules[best].priority \in Int
        BY <2>1, <2>2, <2>5
      <4> QED BY <2>6, <4>1, <4>2
    <3> QED BY <3>1
  <2>8. Min(bests) = best
    BY <2>5, <2>7 DEF m
  <2>9. hits # {}
    BY <2>1
  <2> QED BY <1>3, <2>8, <2>9 DEF FirstOfTheBest, Detection, None, hits, bests
<1> QED BY <1>2, <1>3

\* Every step keeps the invariant.
LEMMA AgentsStep == AgentsInv /\ [AgentsNext]_agentsVars => AgentsInv'
<1> SUFFICES ASSUME AgentsInv, [AgentsNext]_agentsVars PROVE AgentsInv'
  OBVIOUS
<1>1. /\ content \in Seq(Line) /\ Tasks /\ GatesTyped /\ AllSound /\ Root /\ OnlyNegated
      /\ Lefts /\ BestSoFar
  BY DEF AgentsInv
<1>2. ASSUME NEW c \in Content, Capture(c) PROVE AgentsInv'
  <2>1. /\ task = "none" /\ task' = "screen" /\ content' = c
        /\ UNCHANGED <<gates, calls, compiled, text, left, matching, rules, best, previous>>
    BY <1>2 DEF Capture, gateVars, ruleVars
  <2>2. content' \in Seq(Line)
    BY <2>1, AgentsAssumption
  <2>3. Tasks' /\ GatesTyped' /\ Root' /\ OnlyNegated' /\ Lefts' /\ BestSoFar'
    BY <1>1, <2>1 DEF Tasks, GatesTyped, Root, OnlyNegated, Lefts, BestSoFar
  <2>4. AllSound'
    BY <1>1, <2>1 DEF AllSound, Served, Nested
  <2> QED BY <2>2, <2>3, <2>4 DEF AgentsInv
<1>3. ASSUME Load PROVE AgentsInv'
  <2> DEFINE root == [parent |-> 0, list |-> "all", depth |-> 0]
  <2>1. /\ task = "none" /\ task' = "gates" /\ calls' = <<root>>
        /\ UNCHANGED <<content, gates, compiled, text, left, matching, rules, best, previous>>
    BY <1>3 DEF Load, ruleVars
  <2>2. gates = <<>> /\ compiled = "no"
    BY <1>1, <2>1 DEF Tasks
  <2>3. root \in Call /\ root.list = "all"
    BY DEF Call, Lists
  <2> HIDE DEF root
  <2>4. calls' \in Seq(Call) /\ Head(calls') = root
    BY <2>1, <2>3
  <2>5. Tasks' /\ GatesTyped' /\ Root' /\ OnlyNegated' /\ Lefts' /\ BestSoFar'
        /\ content' \in Seq(Line)
    BY <1>1, <2>1, <2>2, <2>3, <2>4
       DEF Tasks, GatesTyped, Root, OnlyNegated, Lefts, BestSoFar
  <2>6. AllSound'
    BY <2>1, <2>2 DEF AllSound
  <2> QED BY <2>5, <2>6 DEF AgentsInv
<1>4. ASSUME NEW g \in Shape, compile_gate(g) PROVE AgentsInv'
  BY <1>4, CompileStep
<1>5. ASSUME NEW t \in SUBSET Needle, compiled_rule_matches(t) PROVE AgentsInv'
  <2>1. /\ compiled = "yes" /\ compiled' = "matching" /\ left' = Len(gates)
        /\ UNCHANGED <<task, content, gates, calls, matching, rules, best, previous>>
    BY <1>5 DEF compiled_rule_matches, ruleVars
  <2>2. matching = {} /\ calls = <<>> /\ task = "gates" /\ Len(gates) \in Nat
    BY <1>1, <2>1 DEF Tasks, GatesTyped
  <2>3. Tasks' /\ GatesTyped' /\ Root' /\ OnlyNegated' /\ Lefts' /\ BestSoFar'
        /\ content' \in Seq(Line)
    BY <1>1, <2>1, <2>2 DEF Tasks, GatesTyped, Root, OnlyNegated, Lefts, BestSoFar
  <2>4. AllSound'
    BY <1>1, <2>1 DEF AllSound, Served, Nested
  <2> QED BY <2>3, <2>4 DEF AgentsInv
<1>6. ASSUME compiled_gate_matches PROVE AgentsInv'
  BY <1>6, MatchStep
<1>7. ASSUME NEW s \in State, Detect(s) PROVE AgentsInv'
  <2>1. /\ task = "none" /\ task' = "rules"
        /\ UNCHANGED <<content, gates, calls, compiled, text, left, matching, rules, best>>
    BY <1>7 DEF Detect, gateVars
  <2>2. Tasks' /\ GatesTyped' /\ Root' /\ OnlyNegated' /\ Lefts' /\ BestSoFar'
        /\ content' \in Seq(Line)
    BY <1>1, <2>1 DEF Tasks, GatesTyped, Root, OnlyNegated, Lefts, BestSoFar
  <2>3. AllSound'
    BY <1>1, <2>1 DEF AllSound, Served, Nested
  <2> QED BY <2>2, <2>3 DEF AgentsInv
<1>8. ASSUME NEW r \in Rule, evaluate(r) PROVE AgentsInv'
  BY <1>8, RuleStep
<1>9. CASE UNCHANGED agentsVars
  <2>1. Tasks' /\ GatesTyped' /\ Root' /\ Lefts' /\ BestSoFar'
        /\ content' \in Seq(Line)
    BY <1>1, <1>9 DEF agentsVars, Tasks, GatesTyped, Root, Lefts, BestSoFar
  <2>3. OnlyNegated'
    <3>1. Asked' = Asked /\ UNCHANGED <<compiled, text, matching, gates>>
      BY <1>9 DEF agentsVars, Asked
    <3> QED BY <1>1, <3>1 DEF OnlyNegated
  <2>2. AllSound'
    BY <1>1, <1>9 DEF agentsVars, AllSound, Served, Nested
  <2> QED BY <2>1, <2>2, <2>3 DEF AgentsInv
<1> QED BY <1>2, <1>3, <1>4, <1>5, <1>6, <1>7, <1>8, <1>9 DEF AgentsNext

\* The invariant is enough.
LEMMA AgentsExact == AgentsInv => DetectionIsExact
<1> SUFFICES ASSUME AgentsInv PROVE DetectionIsExact
  OBVIOUS
<1>1. content \in Seq(Line) /\ GatesTyped /\ Root /\ OnlyNegated /\ BestSoFar
  BY DEF AgentsInv
<1>2. BoxCutsTheScreen /\ PromptIsCurrent /\ FirstOfTheBest
  BY <1>1, BoxCuts, Prompts, FirstBest
<1>3. BlanksDoNotCount
  BY <1>1, AgentsAssumption, Blanks
<1>4. NoVacuousRule
  <2>1. SUFFICES ASSUME compiled = "matching", text \cap Asked = {}, 1 \in matching
        PROVE  FALSE
    BY DEF NoVacuousRule
  <2>2. gates[1].call.list = "not_gate"
    BY <1>1, <2>1 DEF OnlyNegated
  <2>3. gates # <<>>
    BY <1>1, <2>1 DEF GatesTyped
  <2> QED BY <1>1, <2>2, <2>3 DEF Root
<1> QED BY <1>2, <1>3, <1>4 DEF DetectionIsExact

(* For any screens, needles and priorities and any limits of a manifest, an *)
(* agent's state is read off the current prompt and box of its screen and   *)
(* decided by the first of the best rules, each of which matches for what   *)
(* it asks for.                                                             *)
THEOREM DetectionStaysExact == AgentsSpec => []DetectionIsExact
<1>1. AgentsInit => AgentsInv
  BY GateInit
<1>2. AgentsInv /\ [AgentsNext]_agentsVars => AgentsInv'
  BY AgentsStep
<1>3. AgentsInv => DetectionIsExact
  BY AgentsExact
<1> QED BY <1>1, <1>2, <1>3, PTL DEF AgentsSpec
=============================================================================
