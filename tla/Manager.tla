------------------------------- MODULE Manager -------------------------------
(***************************************************************************)
(* The pty table of muxd (crates/muxd/src/manager.rs): which shells exist, *)
(* by which name they can be reached, and how each one ends.  A shell ends *)
(* by exiting (read_loop sees EOF and reap removes it), by a kill request, *)
(* or by the expiry of the lease an explicit close arms.  The three may    *)
(* overlap with each other and with a new shell opened under the old name. *)
(*                                                                         *)
(* The `ptys` mutex makes lookup-and-change one step; everything the code  *)
(* does after dropping that guard (kill_session, the waits and the removal *)
(* in reap, the timers) is a step of its own.                              *)
(* What a client attached to a pty sees is module Attach.                  *)
(***************************************************************************)
EXTENDS Naturals, FiniteSets

CONSTANTS
    Name,       \* pty names (pane ids)
    Session,    \* PtySession allocations; one is one `generation`
    MAX_PTYS,   \* capacity of the table
    Retention,  \* ticks an explicitly closed terminal is kept
    MaxTime,    \* bound on the clock
    None

ASSUME ManagerAssumption ==
    /\ MAX_PTYS \in Nat \ {0}
    /\ Retention \in Nat
    /\ MaxTime \in Nat
    /\ None \notin Session
    /\ None \notin Name
    /\ None \notin 0..MaxTime
    /\ IsFiniteSet(Name)

VARIABLES
    serving,    \* the control socket is bound; before it only a handoff is taken
    now,        \* unix_millis()
    ptys,       \* Manager.ptys: name -> session
    name,       \* PtySession.name; None for a session not yet allocated
    adopted,    \* PtySession.adopted
    alive,      \* the child process exists
    exited,     \* PtySession.exited
    deadline,   \* PtySession.close_deadline
    loop,       \* where the session's read_loop/reap task is
    killer,     \* where a kill_session of the session is and who started it,
                \* or "hungup" after an open that failed behind its fork
    timers,     \* sleeping schedule_close tasks: <<generation, deadline>>
    announced   \* sessions whose exit event was broadcast

task  == <<loop, killer>>
vars  == <<serving, now, ptys, name, adopted, alive, exited, deadline,
           loop, killer, timers, announced>>

Time == 0..MaxTime

LoopState   == {"none", "reading", "waiting", "telling", "done"}
KillerState == {"none", "kill", "expiry", "release", "done", "hungup"}

TypeOK ==
    /\ serving \in BOOLEAN
    /\ now \in Time
    /\ ptys \in [Name -> Session \cup {None}]
    /\ name \in [Session -> Name \cup {None}]
    /\ adopted \in [Session -> BOOLEAN]
    /\ alive \in [Session -> BOOLEAN]
    /\ exited \in [Session -> BOOLEAN]
    /\ deadline \in [Session -> Time \cup {None}]
    /\ loop \in [Session -> LoopState]
    /\ killer \in [Session -> KillerState]
    /\ timers \subseteq Session \X Time
    /\ announced \subseteq Session

Init ==
    /\ serving = FALSE
    /\ now = 0
    /\ ptys = [n \in Name |-> None]
    /\ name = [s \in Session |-> None]
    /\ adopted = [s \in Session |-> FALSE]
    /\ alive = [s \in Session |-> FALSE]
    /\ exited = [s \in Session |-> FALSE]
    /\ deadline = [s \in Session |-> None]
    /\ loop = [s \in Session |-> "none"]
    /\ killer = [s \in Session |-> "none"]
    /\ timers = {}
    /\ announced = {}

-----------------------------------------------------------------------------
(* The table *)

\* The names in the table; its size is what MAX_PTYS bounds.
Used == {n \in Name : ptys[n] # None}

\* A session still in the table: what a lookup by its name returns.
Listed(s) == name[s] # None /\ ptys[name[s]] = s

Fresh(s) == name[s] = None

\* Mutant of Room: the limit is compared with > instead of >=.
RoomForOneMore == Cardinality(Used) <= MAX_PTYS

\* The capacity check of open(), before the fork.
Room == Cardinality(Used) < MAX_PTYS

(***************************************************************************)
(* open() for a name that is not in the table: one guard spans the lookup, *)
(* the capacity check, the spawn and the insert.  A name that is there, a  *)
(* full table or a spawn that fails before its fork change nothing here.   *)
(***************************************************************************)
Open(n, s) ==
    /\ serving
    /\ ptys[n] = None
    /\ Room
    /\ Fresh(s)
    /\ ptys' = [ptys EXCEPT ![n] = s]
    /\ name' = [name EXCEPT ![s] = n]
    /\ alive' = [alive EXCEPT ![s] = TRUE]
    /\ loop' = [loop EXCEPT ![s] = "reading"]
    /\ UNCHANGED <<serving, now, adopted, exited, deadline, killer, timers,
                   announced>>

(***************************************************************************)
(* open() fails behind the fork: set_nonblocking, AsyncFd::register or     *)
(* Terminal::new returns an error, the master is dropped and the child is  *)
(* hung up.  It never gets into the table and no task of the daemon ends   *)
(* it: it dies of the hangup (ChildExit) or ignores it.                    *)
(***************************************************************************)
OpenHangsUp(n, s) ==
    /\ serving
    /\ ptys[n] = None
    /\ Room
    /\ Fresh(s)
    /\ name' = [name EXCEPT ![s] = n]
    /\ alive' = [alive EXCEPT ![s] = TRUE]
    /\ killer' = [killer EXCEPT ![s] = "hungup"]
    /\ UNCHANGED <<serving, now, ptys, adopted, exited, deadline, loop, timers,
                   announced>>

\* Mutant of ArmedBy: the adopted lease is recorded but no timer is started.
ArmedByNothing(lease) == {}

\* Mutant of ArmedBy: every adopted terminal gets a timer, leased or not.
ArmedForAll(lease) == {<<s, lease[s]>> : s \in DOMAIN lease}

\* The timers adopt_many starts, one for each lease it installs.
ArmedBy(lease) ==
    {<<s, lease[s]>> : s \in {r \in DOMAIN lease : lease[r] # None}}

\* The session of a batch that takes name n.
SessionNamed(as, n) == CHOOSE s \in DOMAIN as : as[s] = n

(***************************************************************************)
(* adopt_many(): the predecessor's terminals, all of them or none.  `as`   *)
(* names the new sessions and `lease` is the deadline each payload entry   *)
(* carries; `up` are those whose child has not died since the payload was  *)
(* built.  A repeated name, a taken name or a full table refuses the whole *)
(* batch.  adopt_from_predecessor runs it at most once, before the control *)
(* socket is bound.                                                        *)
(***************************************************************************)
AdoptMany(as, lease, up) ==
    LET batch == DOMAIN as
        names == {as[s] : s \in batch}
    IN  /\ ~serving
        /\ \A s \in Session : Fresh(s)
        /\ \A r, s \in batch : as[r] = as[s] => r = s
        /\ \A n \in names : ptys[n] = None
        /\ Cardinality(Used) + Cardinality(names) <= MAX_PTYS
        /\ ptys' = [n \in Name |-> IF n \in names
                                     THEN SessionNamed(as, n)
                                     ELSE ptys[n]]
        /\ name' = [s \in Session |-> IF s \in batch THEN as[s] ELSE name[s]]
        /\ adopted' = [s \in Session |-> s \in batch \/ adopted[s]]
        /\ alive' = [s \in Session |-> s \in up \/ alive[s]]
        /\ deadline' = [s \in Session |-> IF s \in batch THEN lease[s]
                                                         ELSE deadline[s]]
        /\ loop' = [s \in Session |-> IF s \in batch THEN "reading"
                                                     ELSE loop[s]]
        /\ timers' = timers \cup ArmedBy(lease)
        /\ UNCHANGED <<serving, now, exited, killer, announced>>

\* main() past the handoff: the control socket is bound and requests arrive.
Serve ==
    /\ ~serving
    /\ serving' = TRUE
    /\ UNCHANGED <<now, ptys, name, adopted, alive, exited, deadline, task,
                   timers, announced>>

-----------------------------------------------------------------------------
(* Kill, close, reopen and expiry *)

\* The part of kill() under the guard: the name is free before the shell dies.
Kill(n) ==
    /\ serving
    /\ ptys[n] # None
    /\ ptys' = [ptys EXCEPT ![n] = None]
    /\ killer' = [killer EXCEPT ![ptys[n]] = "kill"]
    /\ UNCHANGED <<serving, now, name, adopted, alive, exited, deadline, loop,
                   timers, announced>>

\* kill_session(): terminate_session() SIGKILLs every group of the session.
KillTerminate(s) ==
    /\ killer[s] \in {"kill", "expiry"}
    /\ alive' = [alive EXCEPT ![s] = FALSE]
    /\ killer' = [killer EXCEPT ![s] = "release"]
    /\ UNCHANGED <<serving, now, ptys, name, adopted, exited, deadline, loop,
                   timers, announced>>

\* kill_session() goes on: the client slot, `exited` and the exit event.
KillRelease(s) ==
    /\ killer[s] = "release"
    /\ exited' = [exited EXCEPT ![s] = TRUE]
    /\ killer' = [killer EXCEPT ![s] = "done"]
    /\ announced' = announced \cup {s}
    /\ UNCHANGED <<serving, now, ptys, name, adopted, alive, deadline, loop,
                   timers>>

\* Mutant of CloseExpiry: a repeated close starts the retention again.
RenewedExpiry(s) == now + Retention

\* The deadline a close answers with: an armed one stands (get_or_insert_with).
CloseExpiry(s) == IF deadline[s] = None THEN now + Retention ELSE deadline[s]

\* close_for(): arm or keep the lease, and start one more timer for it.
Close(n) ==
    LET s == ptys[n] IN
    /\ serving
    /\ s # None
    /\ CloseExpiry(s) <= MaxTime
    /\ deadline' = [deadline EXCEPT ![s] = CloseExpiry(s)]
    /\ timers' = timers \cup {<<s, CloseExpiry(s)>>}
    /\ UNCHANGED <<serving, now, ptys, name, adopted, alive, exited, task,
                   announced>>

\* reopen(): cancels the lease unless it has elapsed.
Reopen(n) ==
    LET s == ptys[n] IN
    /\ serving
    /\ s # None
    /\ deadline[s] # None => deadline[s] > now
    /\ deadline' = [deadline EXCEPT ![s] = None]
    /\ UNCHANGED <<serving, now, ptys, name, adopted, alive, exited, task,
                   timers, announced>>

\* Mutant of StillDue: the timer only checks that its session is still there.
ListedIsDue(s, d) == Listed(s)

\* What a woken timer checks under the guard before it removes anything.
StillDue(s, d) == Listed(s) /\ deadline[s] = d

\* A schedule_close task wakes up: it removes the session it was armed for, or
\* finds its name free, taken by another generation, or under another lease.
FireTimer(s, d) ==
    /\ <<s, d>> \in timers
    /\ d <= now
    /\ timers' = timers \ {<<s, d>>}
    /\ IF StillDue(s, d)
         THEN /\ ptys' = [ptys EXCEPT ![name[s]] = None]
              /\ killer' = [killer EXCEPT ![ptys[name[s]]] = "expiry"]
         ELSE UNCHANGED <<ptys, killer>>
    /\ UNCHANGED <<serving, now, name, adopted, alive, exited, deadline, loop,
                   announced>>

Tick ==
    /\ now < MaxTime
    /\ now' = now + 1
    /\ UNCHANGED <<serving, ptys, name, adopted, alive, exited, deadline, task,
                   timers, announced>>

-----------------------------------------------------------------------------
(* The shell's own end *)

\* The child exits by itself.
ChildExit(s) ==
    /\ alive[s]
    /\ alive' = [alive EXCEPT ![s] = FALSE]
    /\ UNCHANGED <<serving, now, ptys, name, adopted, exited, deadline, task,
                   timers, announced>>

\* read_loop leaves its loop: EOF or EIO, because the slave side was closed.
\* The child may well be alive: it can close its terminal and go on.
Eof(s) ==
    /\ loop[s] = "reading"
    /\ loop' = [loop EXCEPT ![s] = "waiting"]
    /\ UNCHANGED <<serving, now, ptys, name, adopted, alive, exited, deadline,
                   killer, timers, announced>>

\* Mutant of WaitChild: the grace period ends without terminate_session.
WaitChildNoKill(s) ==
    /\ loop[s] = "waiting"
    /\ ~adopted[s]
    /\ exited' = [exited EXCEPT ![s] = TRUE]
    /\ loop' = [loop EXCEPT ![s] = "telling"]
    /\ UNCHANGED <<serving, now, ptys, name, adopted, alive, deadline, killer,
                   timers, announced>>

\* reap() after wait_child(): our own child is collected, after a SIGKILL when
\* it outlives the grace period.
WaitChild(s) ==
    /\ loop[s] = "waiting"
    /\ ~adopted[s]
    /\ alive' = [alive EXCEPT ![s] = FALSE]
    /\ exited' = [exited EXCEPT ![s] = TRUE]
    /\ loop' = [loop EXCEPT ![s] = "telling"]
    /\ UNCHANGED <<serving, now, ptys, name, adopted, deadline, killer, timers,
                   announced>>

\* reap() after wait_adopted(): the pid is gone, or the grace period is over.
WaitAdopted(s) ==
    /\ loop[s] = "waiting"
    /\ adopted[s]
    /\ exited' = [exited EXCEPT ![s] = TRUE]
    /\ loop' = [loop EXCEPT ![s] = "telling"]
    /\ UNCHANGED <<serving, now, ptys, name, adopted, alive, deadline, killer,
                   timers, announced>>

\* Mutant of RemoveIfSame: the entry is removed by name.
RemoveByName(s) == [ptys EXCEPT ![name[s]] = None]

\* remove_if_same(): the entry goes only if it is this very allocation.
RemoveIfSame(s) == [n \in Name |-> IF ptys[n] = s THEN None ELSE ptys[n]]

\* Mutant of ReapRemove: the Exit send has no timeout and never returns.
ReapStuck(s) == FALSE

\* The end of reap(): the Exit message was taken or its send timed out, the
\* name is freed if it is still this session's, and the exit is broadcast.
ReapRemove(s) ==
    /\ loop[s] = "telling"
    /\ ptys' = RemoveIfSame(s)
    /\ loop' = [loop EXCEPT ![s] = "done"]
    /\ announced' = announced \cup {s}
    /\ UNCHANGED <<serving, now, name, adopted, alive, exited, deadline, killer,
                   timers>>

-----------------------------------------------------------------------------
Requests == \E n \in Name :
    \/ \E s \in Session : Open(n, s) \/ OpenHangsUp(n, s)
    \/ Kill(n)
    \/ Close(n)
    \/ Reopen(n)

Handoff == \E batch \in SUBSET Session : \E as \in [batch -> Name] :
    \E lease \in [batch -> Time \cup {None}], up \in SUBSET batch :
        AdoptMany(as, lease, up)

Tasks == \E s \in Session :
    \/ KillTerminate(s)
    \/ KillRelease(s)
    \/ WaitChild(s)
    \/ WaitAdopted(s)
    \/ ReapRemove(s)
    \/ \E d \in Time : FireTimer(s, d)

Shells == \E s \in Session : ChildExit(s) \/ Eof(s)

Next == Requests \/ Handoff \/ Serve \/ Tasks \/ Shells \/ Tick

Spec == Init /\ [][Next]_vars

(***************************************************************************)
(* Tokio keeps polling spawned tasks, their sleeps and bounded sends end,  *)
(* and the clock advances.  Nothing is assumed of requests or of shells.   *)
(***************************************************************************)
Fairness ==
    /\ WF_vars(Tick)
    /\ \A s \in Session :
         /\ WF_vars(KillTerminate(s))
         /\ WF_vars(KillRelease(s))
         /\ WF_vars(WaitChild(s))
         /\ WF_vars(WaitAdopted(s))
         /\ WF_vars(ReapRemove(s))
         /\ \A d \in Time : WF_vars(FireTimer(s, d))

FairSpec == Spec /\ Fairness

-----------------------------------------------------------------------------
(* Properties *)

\* A session nothing has ended yet: not taken by a kill or an expiry, and its
\* reap has not removed it.
Current(s) == ~Fresh(s) /\ killer[s] = "none" /\ loop[s] # "done"

\* The table holds exactly the current sessions, each under its own name: a
\* late reap or timer of an old shell never unlists the shell that replaced it
\* (remove_if_same, schedule_close), and no racing pair of opens leaves a shell
\* behind that `kill` cannot reach (insert_locked).
TableExact ==
    /\ \A s \in Session : Current(s) => Listed(s)
    /\ \A n \in Name : ptys[n] # None => name[ptys[n]] = n /\ Current(ptys[n])

\* The shell of an open that succeeded is reachable by name or about to be
\* SIGKILLed: whatever order exit, reap, kill, close and expiry come in, none
\* leaks (insert_locked).  An open that failed behind its fork is not covered:
\* what it leaves was hung up and may ignore that.
NoShellLeaked ==
    \A s \in Session : alive[s] /\ ~adopted[s] /\ killer[s] # "hungup" =>
        Listed(s) \/ killer[s] \in {"kill", "expiry"}

\* The table never outgrows MAX_PTYS, by opens or by a handoff.
WithinLimit == Cardinality(Used) <= MAX_PTYS

\* An expiry takes a terminal only while its lease is armed and over: no timer
\* of a cancelled, renewed or replaced lease kills anything (schedule_close).
ExpiryIsDue ==
    \A s \in Session : killer[s] = "expiry" =>
        deadline[s] # None /\ deadline[s] <= now

\* A listed terminal with a lease always has the timer that ends it, also when
\* the lease was inherited in a handoff (close_for, adopt_many).
LeaseHasTimer ==
    \A s \in Session : Listed(s) /\ deadline[s] # None =>
        <<s, deadline[s]>> \in timers

\* A close retried, by anyone and at any time, never moves an armed deadline:
\* it stands until a reopen cancels it (docs/closed-tabs.md).
LeaseNeverMoves ==
    [][\A s \in Session : deadline[s] # None =>
          deadline'[s] \in {deadline[s], None}]_vars

\* A closed terminal is reopened or leaves the table, also when its lease was
\* inherited in a handoff (close_for, adopt_many).
ClosedLeaves ==
    \A s \in Session : deadline[s] # None ~> deadline[s] = None \/ ~Listed(s)

\* A closed terminal of this daemon is reopened or its shell dies.
ClosedEnds ==
    \A s \in Session : deadline[s] # None /\ ~adopted[s] ~>
        deadline[s] = None \/ ~alive[s]

\* The same of every closed terminal: expiry terminates it, whoever spawned its
\* shell (docs/closed-tabs.md:86-87).  What the code does violates it: an
\* inherited shell that closes its terminal is unlisted by reap without a kill,
\* and the expiry of its lease finds nothing.
ExpiryTerminates ==
    \A s \in Session : deadline[s] # None ~> deadline[s] = None \/ ~alive[s]

\* An exit frees the name and is broadcast, whatever the attached client does.
ExitSettles ==
    \A s \in Session : exited[s] ~> ~Listed(s) /\ s \in announced

\* Whatever overlaps, terminals that should end do: closed ones when their
\* lease runs out, exited ones from the table, with an event.
TerminalsEnd == ClosedLeaves /\ ClosedEnds /\ ExitSettles
=============================================================================
