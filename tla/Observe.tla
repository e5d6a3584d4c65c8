------------------------------- MODULE Observe -------------------------------
(***************************************************************************)
(* How the state of the terminals reaches those who only look: the agent   *)
(* detector that runs once output settles, the event each pty emits when   *)
(* what it shows changes (crates/muxd/src/manager.rs), `watch` streams of  *)
(* every pty's events (server.rs) and `observe` streams of one pty's       *)
(* snapshots (control.rs).                                                 *)
(*                                                                         *)
(* A screen is a number that output increases.  The detector's reading of  *)
(* a screen is that number, and 0 is no agent, so an agent that differs    *)
(* from its screen is a stale one.  A name is used once, as the app's are. *)
(* An evaluation is over within AGENT_SETTLE: a pty has one at a time,     *)
(* while the next may already be scheduled.  One is scheduled for an       *)
(* adopted terminal at once.                                               *)
(***************************************************************************)
EXTENDS Naturals, Sequences

CONSTANTS
    Session,   \* the terminals
    Watcher,   \* connections that may call watch
    Observer,  \* and observe; a connection is for one call at a time
    Watched,   \* the terminal they observe
    Backlog,   \* EVENT_BACKLOG
    MaxScreen, \* bound on each terminal's output
    Other,     \* the terminals beyond Session, which only fill the ring
    Nothing    \* the event of a terminal nobody was told of

Screen == 0..MaxScreen

PtyEvent == [name : Session \cup {Other}, agent : Screen, exited : BOOLEAN]

PtySnapshot == [screen : Screen, agent : Screen, exited : BOOLEAN]

ObserveParameters ==
    /\ Watched \in Session
    /\ Other \notin Session
    /\ Backlog \in Nat \ {0}
    /\ MaxScreen \in Nat \ {0}
    /\ Nothing \notin PtyEvent

ASSUME ObserveAssumption == ObserveParameters

VARIABLES
    listed,   \* the names in the manager's table
    screen,   \* the text of each terminal
    agent,    \* PtySession.agent
    exited,   \* PtySession.exited
    pending,  \* PtySession.agent_pending: a settle task is asleep
    eval,     \* where each terminal's evaluation is
    reading,  \* what it read
    reaper,   \* where each terminal's reap is
    killer,   \* where its kill is
    last_event,  \* PtySession.last_event
    wpc,      \* where each watcher is
    queue,    \* the events of the broadcast ring it has yet to receive
    gap,      \* the ring has overwritten some it had yet to receive
    out,      \* the events it is writing
    view,     \* the last event it was sent of each terminal
    lagged,   \* it missed some event
    opc,      \* where each observer is
    unseen,   \* its watch channel has a change it has not seen
    snap      \* the snapshot it took last

ptyVars   == <<listed, screen, agent, exited>>
evalVars  == <<pending, eval, reading>>
endVars   == <<reaper, killer>>
eventVars == <<last_event, queue, gap>>
watchVars == <<wpc, out, view, lagged>>
lookVars  == <<opc, snap>>
observeVars == <<listed, screen, agent, exited, pending, eval, reading, reaper,
                 killer, last_event, queue, gap, wpc, out, view, lagged, opc,
                 unseen, snap>>

Blank == [screen |-> 0, agent |-> 0, exited |-> FALSE]

ObserveTypeOK ==
    /\ listed \subseteq Session
    /\ screen \in [Session -> Screen]
    /\ agent \in [Session -> Screen]
    /\ exited \in [Session -> BOOLEAN]
    /\ pending \in [Session -> BOOLEAN]
    /\ eval \in [Session -> {"no", "begun", "read", "wrote"}]
    /\ reading \in [Session -> Screen]
    /\ reaper \in [Session -> {"no", "exited", "cleared", "removed", "done"}]
    /\ killer \in [Session -> {"no", "unlisted", "exited", "cleared", "done"}]
    /\ last_event \in [Session -> PtyEvent \cup {Nothing}]
    /\ wpc \in [Watcher -> {"off", "snapshot", "write", "receive"}]
    /\ queue \in [Watcher -> Seq(PtyEvent)]
    /\ \A w \in Watcher : Len(queue[w]) <= Backlog
    /\ gap \in [Watcher -> BOOLEAN]
    /\ out \in [Watcher -> SUBSET PtyEvent]
    /\ view \in [Watcher -> [Session -> PtyEvent \cup {Nothing}]]
    /\ lagged \in [Watcher -> BOOLEAN]
    /\ opc \in [Observer -> {"off", "update", "look", "send", "asleep"}]
    /\ unseen \in [Observer -> BOOLEAN]
    /\ snap \in [Observer -> PtySnapshot]

ObserveInit ==
    /\ listed = Session
    /\ screen = [s \in Session |-> 0]
    /\ agent = [s \in Session |-> 0]
    /\ exited = [s \in Session |-> FALSE]
    /\ pending \in [Session -> BOOLEAN]
    /\ eval = [s \in Session |-> "no"]
    /\ reading = [s \in Session |-> 0]
    /\ reaper = [s \in Session |-> "no"]
    /\ killer = [s \in Session |-> "no"]
    /\ last_event = [s \in Session |-> Nothing]
    /\ wpc = [w \in Watcher |-> "off"]
    /\ queue = [w \in Watcher |-> <<>>]
    /\ gap = [w \in Watcher |-> FALSE]
    /\ out = [w \in Watcher |-> {}]
    /\ view = [w \in Watcher |-> [s \in Session |-> Nothing]]
    /\ lagged = [w \in Watcher |-> FALSE]
    /\ opc = [o \in Observer |-> "off"]
    /\ unseen = [o \in Observer |-> FALSE]
    /\ snap = [o \in Observer |-> Blank]

-----------------------------------------------------------------------------
(* The session's own notifications *)

\* PtySession::event, of the state the step leads to.
Event(s, a, x) == [name |-> s, agent |-> a, exited |-> x]

\* notify_observers: a watch channel keeps the fact of a change, not each.
Notify(s) == unseen' = [o \in Observer |-> unseen[o] \/ s = Watched]

\* Mutant of Push: an unbounded channel.
PushUnbounded(e) ==
    /\ queue' = [w \in Watcher |->
                    IF wpc[w] # "off" THEN Append(queue[w], e) ELSE queue[w]]
    /\ UNCHANGED gap

\* The ring overwrites its oldest event with a new one; a receiver sees what
\* was sent since it subscribed.
Push(e) ==
    LET on == {w \in Watcher : wpc[w] # "off"}
        full == {w \in on : Len(queue[w]) = Backlog}
    IN  /\ queue' = [w \in Watcher |->
                       IF w \in full THEN Append(Tail(queue[w]), e)
                       ELSE IF w \in on THEN Append(queue[w], e)
                       ELSE queue[w]]
        /\ gap' = [w \in Watcher |-> gap[w] \/ w \in full]

\* Manager::emit, which says nothing twice.
Emit(s, e) ==
    IF last_event[s] = e THEN UNCHANGED <<eventVars, unseen>>
    ELSE /\ last_event' = [last_event EXCEPT ![s] = e]
         /\ Notify(s)
         /\ Push(e)

-----------------------------------------------------------------------------
(* What happens to a terminal *)

\* The read loop feeds the screen and schedules an evaluation, unless one is
\* scheduled already.
Output(s) ==
    /\ reaper[s] = "no"
    /\ screen[s] < MaxScreen
    /\ screen' = [screen EXCEPT ![s] = @ + 1]
    /\ Notify(s)
    /\ pending' = [pending EXCEPT ![s] = TRUE]
    /\ UNCHANGED <<listed, agent, exited, eval, reading, endVars,
                   eventVars, watchVars, lookVars>>

\* schedule_agent's task wakes: output from now on schedules the next one.
Settle(s) ==
    /\ pending[s]
    /\ eval[s] = "no"
    /\ pending' = [pending EXCEPT ![s] = FALSE]
    /\ eval' = [eval EXCEPT ![s] = "begun"]
    /\ UNCHANGED <<ptyVars, reading, endVars, eventVars, watchVars, lookVars,
                   unseen>>

\* A terminal that has exited is left to its reaper; refresh_agent reads.
Read(s) ==
    /\ eval[s] = "begun"
    /\ eval' = [eval EXCEPT ![s] = IF exited[s] THEN "no" ELSE "read"]
    /\ reading' = [reading EXCEPT ![s] = IF exited[s] THEN 0 ELSE screen[s]]
    /\ UNCHANGED <<ptyVars, pending, endVars, eventVars, watchVars, lookVars,
                   unseen>>

\* refresh_agent stores what it read.
Store(s) ==
    /\ eval[s] = "read"
    /\ eval' = [eval EXCEPT ![s] = "wrote"]
    /\ agent' = [agent EXCEPT ![s] = reading[s]]
    /\ reading' = [reading EXCEPT ![s] = 0]
    /\ UNCHANGED <<listed, screen, exited, pending, endVars, eventVars,
                   watchVars, lookVars, unseen>>

\* Mutant of EvalEmit: the flag is cleared only now.
EvalEmitClears(s) ==
    /\ eval[s] = "wrote"
    /\ eval' = [eval EXCEPT ![s] = "no"]
    /\ pending' = [pending EXCEPT ![s] = FALSE]
    /\ Emit(s, Event(s, agent[s], exited[s]))
    /\ UNCHANGED <<ptyVars, reading, endVars, watchVars, lookVars>>

\* Mutant of EvalEmit: the event is made before emit has last_event, and says
\* that the terminal runs.
EvalEmitStale(s) ==
    /\ eval[s] = "wrote"
    /\ eval' = [eval EXCEPT ![s] = "no"]
    /\ Emit(s, Event(s, agent[s], FALSE))
    /\ UNCHANGED <<ptyVars, pending, reading, endVars, watchVars, lookVars>>

EvalEmit(s) ==
    /\ eval[s] = "wrote"
    /\ eval' = [eval EXCEPT ![s] = "no"]
    /\ Emit(s, Event(s, agent[s], exited[s]))
    /\ UNCHANGED <<ptyVars, pending, reading, endVars, watchVars, lookVars>>

\* Manager::kill takes the name away first.
Kill(s) ==
    /\ s \in listed
    /\ killer[s] = "no"
    /\ killer' = [killer EXCEPT ![s] = "unlisted"]
    /\ listed' = listed \ {s}
    /\ UNCHANGED <<screen, agent, exited, evalVars, reaper, eventVars,
                   watchVars, lookVars, unseen>>

\* kill_session raises the flag, forgets the agent and tells both.  An
\* evaluation may store its agent, and the reaper end, between any two.
KillExited(s) ==
    /\ killer[s] = "unlisted"
    /\ killer' = [killer EXCEPT ![s] = "exited"]
    /\ exited' = [exited EXCEPT ![s] = TRUE]
    /\ UNCHANGED <<listed, screen, agent, evalVars, reaper, eventVars,
                   watchVars, lookVars, unseen>>

KillClear(s) ==
    /\ killer[s] = "exited"
    /\ killer' = [killer EXCEPT ![s] = "cleared"]
    /\ agent' = [agent EXCEPT ![s] = 0]
    /\ UNCHANGED <<listed, screen, exited, evalVars, reaper, eventVars,
                   watchVars, lookVars, unseen>>

KillEmit(s) ==
    /\ killer[s] = "cleared"
    /\ killer' = [killer EXCEPT ![s] = "done"]
    /\ Emit(s, Event(s, agent[s], exited[s]))
    /\ UNCHANGED <<ptyVars, evalVars, reaper, watchVars, lookVars>>

\* The pty ends and the child is reaped.
ReapExited(s) ==
    /\ reaper[s] = "no"
    /\ reaper' = [reaper EXCEPT ![s] = "exited"]
    /\ exited' = [exited EXCEPT ![s] = TRUE]
    /\ UNCHANGED <<listed, screen, agent, evalVars, killer, eventVars,
                   watchVars, lookVars, unseen>>

ReapClear(s) ==
    /\ reaper[s] = "exited"
    /\ reaper' = [reaper EXCEPT ![s] = "cleared"]
    /\ agent' = [agent EXCEPT ![s] = 0]
    /\ Notify(s)
    /\ UNCHANGED <<listed, screen, exited, evalVars, killer, eventVars,
                   watchVars, lookVars>>

ReapRemove(s) ==
    /\ reaper[s] = "cleared"
    /\ reaper' = [reaper EXCEPT ![s] = "removed"]
    /\ listed' = listed \ {s}
    /\ UNCHANGED <<screen, agent, exited, evalVars, killer, eventVars,
                   watchVars, lookVars, unseen>>

ReapEmit(s) ==
    /\ reaper[s] = "removed"
    /\ reaper' = [reaper EXCEPT ![s] = "done"]
    /\ Emit(s, Event(s, agent[s], exited[s]))
    /\ UNCHANGED <<ptyVars, evalVars, killer, watchVars, lookVars>>

\* Some other terminal emits.
Elsewhere ==
    /\ Push(Event(Other, 0, FALSE))
    /\ UNCHANGED <<ptyVars, evalVars, endVars, last_event, watchVars, lookVars,
                   unseen>>

-----------------------------------------------------------------------------
(* watch *)

\* Manager::watch subscribes before it looks at the table.
Subscribe(w) ==
    /\ wpc[w] = "off"
    /\ w \in Observer => opc[w] = "off"
    /\ wpc' = [wpc EXCEPT ![w] = "snapshot"]
    /\ UNCHANGED <<ptyVars, evalVars, endVars, eventVars, out, view, lagged,
                   lookVars, unseen>>

Snapshot(w) ==
    /\ wpc[w] = "snapshot"
    /\ wpc' = [wpc EXCEPT ![w] = "write"]
    /\ out' = [out EXCEPT ![w] =
                 {Event(s, agent[s], exited[s]) : s \in listed}]
    /\ UNCHANGED <<ptyVars, evalVars, endVars, eventVars, view, lagged,
                   lookVars, unseen>>

\* The lines are written and flushed; the ring moves on meanwhile.
Write(w) ==
    /\ wpc[w] = "write"
    /\ wpc' = [wpc EXCEPT ![w] = "receive"]
    /\ view' = [view EXCEPT ![w] = [s \in Session |->
                  IF \E e \in out[w] : e.name = s
                  THEN CHOOSE e \in out[w] : e.name = s
                  ELSE view[w][s]]]
    /\ out' = [out EXCEPT ![w] = {}]
    /\ UNCHANGED <<ptyVars, evalVars, endVars, eventVars, lagged, lookVars,
                   unseen>>

Receive(w) ==
    /\ wpc[w] = "receive"
    /\ ~gap[w]
    /\ queue[w] # <<>>
    /\ wpc' = [wpc EXCEPT ![w] = "write"]
    /\ out' = [out EXCEPT ![w] = {Head(queue[w])}]
    /\ queue' = [queue EXCEPT ![w] = Tail(@)]
    /\ UNCHANGED <<ptyVars, evalVars, endVars, last_event, gap, view, lagged,
                   lookVars, unseen>>

\* Mutant of Lagged: the gap is skipped.
LaggedSkips(w) ==
    /\ wpc[w] = "receive"
    /\ gap[w]
    /\ gap' = [gap EXCEPT ![w] = FALSE]
    /\ lagged' = [lagged EXCEPT ![w] = TRUE]
    /\ UNCHANGED <<ptyVars, evalVars, endVars, last_event, queue, wpc, out, view,
                   lookVars, unseen>>

\* RecvError::Lagged: the receiver goes on from the oldest retained event,
\* after a new look at the table.
Lagged(w) ==
    /\ wpc[w] = "receive"
    /\ gap[w]
    /\ wpc' = [wpc EXCEPT ![w] = "snapshot"]
    /\ gap' = [gap EXCEPT ![w] = FALSE]
    /\ lagged' = [lagged EXCEPT ![w] = TRUE]
    /\ UNCHANGED <<ptyVars, evalVars, endVars, last_event, queue, out, view,
                   lookVars, unseen>>

\* The caller hangs up.
Unwatch(w) ==
    /\ wpc[w] \in {"write", "receive"}
    /\ wpc' = [wpc EXCEPT ![w] = "off"]
    /\ queue' = [queue EXCEPT ![w] = <<>>]
    /\ gap' = [gap EXCEPT ![w] = FALSE]
    /\ out' = [out EXCEPT ![w] = {}]
    /\ view' = [view EXCEPT ![w] = [s \in Session |-> Nothing]]
    /\ lagged' = [lagged EXCEPT ![w] = FALSE]
    /\ UNCHANGED <<ptyVars, evalVars, endVars, last_event, lookVars, unseen>>

-----------------------------------------------------------------------------
(* observe *)

OGoto(o, to) == opc' = [opc EXCEPT ![o] = to]

Open(o) ==
    /\ opc[o] = "off"
    /\ o \in Watcher => wpc[o] = "off"
    /\ Watched \in listed
    /\ OGoto(o, "update")
    /\ unseen' = [unseen EXCEPT ![o] = FALSE]
    /\ UNCHANGED <<ptyVars, evalVars, endVars, eventVars, watchVars, snap>>

\* borrow_and_update, before the snapshot.
Update(o) ==
    /\ opc[o] = "update"
    /\ OGoto(o, "look")
    /\ unseen' = [unseen EXCEPT ![o] = FALSE]
    /\ UNCHANGED <<ptyVars, evalVars, endVars, eventVars, watchVars, snap>>

Look(o) ==
    /\ opc[o] = "look"
    /\ OGoto(o, "send")
    /\ snap' = [snap EXCEPT ![o] =
                  [screen |-> screen[Watched], agent |-> agent[Watched],
                   exited |-> exited[Watched]]]
    /\ UNCHANGED <<ptyVars, evalVars, endVars, eventVars, watchVars, unseen>>

\* Mutant of Send: what changed since the snapshot is taken as sent.
SendAndUpdate(o) ==
    /\ opc[o] = "send"
    /\ OGoto(o, IF snap[o].exited THEN "off" ELSE "asleep")
    /\ snap' = [snap EXCEPT ![o] = IF @.exited THEN Blank ELSE @]
    /\ unseen' = [unseen EXCEPT ![o] = FALSE]
    /\ UNCHANGED <<ptyVars, evalVars, endVars, eventVars, watchVars>>

\* A snapshot that shows the exit is the last.
Send(o) ==
    /\ opc[o] = "send"
    /\ OGoto(o, IF snap[o].exited THEN "off" ELSE "asleep")
    /\ snap' = [snap EXCEPT ![o] = IF @.exited THEN Blank ELSE @]
    /\ UNCHANGED <<ptyVars, evalVars, endVars, eventVars, watchVars, unseen>>

\* A change, and the rest of the 100 ms since the last snapshot.
Wake(o) ==
    /\ opc[o] = "asleep"
    /\ unseen[o]
    /\ OGoto(o, "update")
    /\ UNCHANGED <<ptyVars, evalVars, endVars, eventVars, watchVars, snap,
                   unseen>>

\* The write stalls for two seconds, or the caller hangs up.
Leave(o) ==
    /\ opc[o] \in {"send", "asleep"}
    /\ OGoto(o, "off")
    /\ snap' = [snap EXCEPT ![o] = Blank]
    /\ UNCHANGED <<ptyVars, evalVars, endVars, eventVars, watchVars, unseen>>

-----------------------------------------------------------------------------

EvalStep(s)  == Settle(s) \/ Read(s) \/ Store(s) \/ EvalEmit(s)
KillStep(s)  == KillExited(s) \/ KillClear(s) \/ KillEmit(s)
EndStep(s)   == ReapClear(s) \/ ReapRemove(s) \/ ReapEmit(s)
WatchStep(w) == Snapshot(w) \/ Write(w) \/ Receive(w) \/ Lagged(w)
LookStep(o)  == Update(o) \/ Look(o) \/ Send(o) \/ Wake(o)

ObserveNext ==
    \/ Elsewhere
    \/ \E s \in Session :
          \/ Output(s) \/ EvalStep(s) \/ EndStep(s)
          \/ Kill(s) \/ KillStep(s) \/ ReapExited(s)
    \/ \E w \in Watcher : Subscribe(w) \/ WatchStep(w) \/ Unwatch(w)
    \/ \E o \in Observer : Open(o) \/ LookStep(o) \/ Leave(o)

ObserveSpec == ObserveInit /\ [][ObserveNext]_observeVars

\* The daemon's tasks that can run do; callers that stay connected read.
ObserveFairness ==
    /\ \A s \in Session :
          /\ WF_observeVars(EvalStep(s))
          /\ WF_observeVars(EndStep(s))
          /\ WF_observeVars(KillStep(s))
    /\ \A w \in Watcher : WF_observeVars(WatchStep(w))
    /\ \A o \in Observer : WF_observeVars(LookStep(o))

FairObserveSpec == ObserveSpec /\ ObserveFairness

-----------------------------------------------------------------------------
(* Properties *)

\* What an event of the terminal would say now.
Current(s) == Event(s, agent[s], exited[s])

\* Events of the terminal that the watcher has yet to receive.
Coming(w, s) == {i \in 1..Len(queue[w]) : queue[w][i].name = s}

\* The end is the last that is said of a terminal, once it is over, and no
\* earlier than the terminal has exited; the ring keeps each terminal's events
\* in the order of its states, the newest last.
EndsAreLast ==
    \A s \in Session :
        /\ reaper[s] = "done" \/ killer[s] = "done" =>
              last_event[s] # Nothing /\ last_event[s].exited
        /\ last_event[s] # Nothing /\ last_event[s].exited => exited[s]
        /\ \A w \in Watcher : \A i \in Coming(w, s) :
              \/ queue[w][i] = last_event[s]
              \/ \E j \in Coming(w, s) : i < j
        /\ \A w \in Watcher : \A i, j \in Coming(w, s) :
              i < j /\ queue[w][i].exited => queue[w][j].exited

\* A watcher with nothing left to receive was last sent the state of each
\* terminal that runs, but for an agent whose event is about to be emitted;
\* and, unless it fell behind, nothing older than the end of any that ended.
DrainedWatcherKnows ==
    \A w \in Watcher, s \in Session :
        wpc[w] = "receive" /\ ~gap[w] /\ queue[w] = <<>> =>
            /\ s \in listed /\ reaper[s] = "no" /\ eval[s] # "wrote" =>
                  view[w][s] = Current(s)
            /\ last_event[s] # Nothing /\ last_event[s].exited /\ ~lagged[w] =>
                  view[w][s] = Nothing \/ view[w][s].exited

\* An observer that sleeps with no change to see has sent what is on the
\* screen, but for an agent or an exit that is about to be notified.
SleepingObserverKnows ==
    \A o \in Observer : opc[o] = "asleep" /\ ~unseen[o] =>
        \/ reaper[Watched] = "exited" \/ killer[Watched] \in {"exited", "cleared"}
        \/ /\ snap[o].screen = screen[Watched]
           /\ ~snap[o].exited /\ ~exited[Watched]
           /\ \/ snap[o].agent = agent[Watched]
              \/ eval[Watched] = "wrote" /\ last_event[Watched] # Current(Watched)

\* Nobody waits with a stale picture: who has nothing more coming knows all
\* there is to know.
Informed ==
    ObserveTypeOK /\ EndsAreLast /\ DrainedWatcherKnows /\ SleepingObserverKnows

\* Output that lands during an evaluation is not forgotten: once a terminal is
\* quiet its agent is the detector's reading of what is on the screen.
AgentIsCurrent ==
    \A s \in Session : <>[](exited[s] \/ agent[s] = screen[s])

\* A watcher converges to the table.  Whatever it missed, and although events
\* older than a snapshot are sent after it, the last it hears of a terminal
\* that stays is the terminal's state; one that never fell behind also hears
\* of every end.
WatcherCatchesUp ==
    \A w \in Watcher, s \in Session :
        []<>(\/ wpc[w] = "off"
             \/ /\ s \in listed
                /\ view[w][s] = Event(s, agent[s], exited[s])
             \/ /\ s \notin listed
                /\ \/ lagged[w]
                   \/ view[w][s] = Nothing
                   \/ view[w][s].exited)

\* Observers coalesce changes, but the last one, and the exit, always reach
\* them, unless they leave.
ObserverCatchesUp ==
    \A o \in Observer :
        []<>(\/ opc[o] = "off"
             \/ /\ opc[o] = "asleep"
                /\ snap[o] = [screen |-> screen[Watched],
                              agent |-> agent[Watched],
                              exited |-> exited[Watched]])

\* Every caller that stays is told the last state, over either channel.
CallersCatchUp == WatcherCatchesUp /\ ObserverCatchesUp
=============================================================================
