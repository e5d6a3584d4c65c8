---------------------------- MODULE ManagerProofs ----------------------------
(***************************************************************************)
(* The safety properties of module Manager for any names, any number of    *)
(* sessions, any limit, retention and clock bound.                         *)
(***************************************************************************)
EXTENDS Manager, FiniteSetTheorems, TLAPS

\* What the phases of a session's tasks say about its process: an unallocated
\* session has none and no lease, and a session of ours whose wait is over, or that
\* terminate_session has been through, has lost its own.
Phases ==
    \A s \in Session :
        /\ Fresh(s) => /\ loop[s] = "none" /\ killer[s] = "none"
                       /\ ~alive[s] /\ deadline[s] = None
        /\ ~adopted[s] /\ loop[s] \in {"telling", "done"} => ~alive[s]
        /\ killer[s] \in {"release", "done"} => ~alive[s]

\* The inductive invariant: the table, the phases and the leases together.
IndInv == TypeOK /\ TableExact /\ Phases /\ ExpiryIsDue /\ LeaseHasTimer

\* In an accepted batch every name has one session, found by its name.
LEMMA BatchNames ==
  ASSUME NEW batch, NEW as \in [batch -> Name],
         NEW n \in {as[s] : s \in batch}
  PROVE  SessionNamed(as, n) \in batch /\ as[SessionNamed(as, n)] = n
BY DEF SessionNamed

\* The variables hold what their declarations promise, after every step.
LEMMA TypeStep == TypeOK /\ [Next]_vars => TypeOK'
<1> SUFFICES ASSUME TypeOK, [Next]_vars PROVE TypeOK'
  OBVIOUS
<1> USE ManagerAssumption
<1>1. ASSUME NEW n \in Name, NEW s \in Session, Open(n, s) PROVE TypeOK'
  BY <1>1 DEF Open, TypeOK, LoopState
<1>2. ASSUME NEW n \in Name, Kill(n) PROVE TypeOK'
  BY <1>2 DEF Kill, TypeOK, KillerState
<1>3. ASSUME NEW n \in Name, Close(n) PROVE TypeOK'
  BY <1>3 DEF Close, CloseExpiry, TypeOK, task, Time
<1>4. ASSUME NEW n \in Name, Reopen(n) PROVE TypeOK'
  BY <1>4 DEF Reopen, TypeOK, task
<1>5. ASSUME NEW batch \in SUBSET Session, NEW as \in [batch -> Name],
             NEW lease \in [batch -> Time \cup {None}],
             NEW up \in SUBSET batch, AdoptMany(as, lease, up)
      PROVE  TypeOK'
  <2>1. ptys' \in [Name -> Session \cup {None}]
    <3> DEFINE names == {as[s] : s \in batch}
    <3>1. \A n \in names : SessionNamed(as, n) \in Session
      BY BatchNames
    <3>2. ptys' = [n \in Name |-> IF n \in names THEN SessionNamed(as, n)
                                                  ELSE ptys[n]]
      BY <1>5 DEF AdoptMany
    <3> HIDE DEF names
    <3> QED BY <3>1, <3>2 DEF TypeOK
  <2>2. timers' \subseteq Session \X Time
    BY <1>5 DEF AdoptMany, ArmedBy, TypeOK
  <2> QED BY <1>5, <2>1, <2>2 DEF AdoptMany, TypeOK, LoopState
<1>6. CASE Serve
  BY <1>6 DEF Serve, TypeOK, task
<1>7. ASSUME NEW s \in Session, KillTerminate(s) PROVE TypeOK'
  BY <1>7 DEF KillTerminate, TypeOK, KillerState
<1>8. ASSUME NEW s \in Session, KillRelease(s) PROVE TypeOK'
  BY <1>8 DEF KillRelease, TypeOK, KillerState
<1>9. ASSUME NEW s \in Session, WaitChild(s) PROVE TypeOK'
  BY <1>9 DEF WaitChild, TypeOK, LoopState
<1>10. ASSUME NEW s \in Session, WaitAdopted(s) PROVE TypeOK'
  BY <1>10 DEF WaitAdopted, TypeOK, LoopState
<1>11. ASSUME NEW s \in Session, ReapRemove(s) PROVE TypeOK'
  BY <1>11 DEF ReapRemove, RemoveIfSame, TypeOK, LoopState
<1>12. ASSUME NEW s \in Session, NEW d \in Time, FireTimer(s, d) PROVE TypeOK'
  BY <1>12 DEF FireTimer, StillDue, Listed, TypeOK, KillerState
<1>13. ASSUME NEW s \in Session, ChildExit(s) PROVE TypeOK'
  BY <1>13 DEF ChildExit, TypeOK, task
<1>14. ASSUME NEW s \in Session, Eof(s) PROVE TypeOK'
  BY <1>14 DEF Eof, TypeOK, LoopState
<1>15. CASE Tick
  BY <1>15 DEF Tick, TypeOK, Time, task
<1>16. CASE UNCHANGED vars
  BY <1>16 DEF vars, TypeOK
<1>17. ASSUME NEW n \in Name, NEW s \in Session, OpenHangsUp(n, s)
       PROVE  TypeOK'
  BY <1>17 DEF OpenHangsUp, TypeOK, KillerState
<1> QED
  BY <1>1, <1>2, <1>3, <1>4, <1>5, <1>6, <1>7, <1>8, <1>9, <1>10, <1>11,
     <1>12, <1>13, <1>14, <1>15, <1>16, <1>17
  DEF Next, Requests, Handoff, Tasks, Shells

\* An empty table has the declared types.
LEMMA TypeInit == Init => TypeOK
<1>1. 0 \in Time
  BY ManagerAssumption DEF Time
<1> QED
  BY <1>1 DEF Init, TypeOK, LoopState, KillerState

\* Every variable of the manager keeps its type.
THEOREM TypeCorrect == Spec => []TypeOK
BY TypeInit, TypeStep, PTL DEF Spec

-----------------------------------------------------------------------------

\* The inductive invariant holds of an empty table.
LEMMA IndInit == Init => IndInv
BY TypeInit, ManagerAssumption
DEF Init, IndInv, TableExact, Phases, ExpiryIsDue, LeaseHasTimer, Fresh,
    Current, Listed

\* One step of the inductive argument per action.
LEMMA IndStep == IndInv /\ [Next]_vars => IndInv'
<1> SUFFICES ASSUME IndInv, [Next]_vars PROVE IndInv'
  OBVIOUS
<1> DEFINE Rest == TableExact /\ Phases /\ ExpiryIsDue /\ LeaseHasTimer
<1> USE ManagerAssumption DEF IndInv
<1>0. TypeOK'
  BY TypeStep
<1>1. ASSUME NEW n \in Name, NEW s \in Session, Open(n, s) PROVE Rest'
  <2>1. TableExact'
    BY <1>1 DEF Open, TypeOK, TableExact, Phases, Current, Listed, Fresh
  <2>2. Phases'
    BY <1>1 DEF Open, TypeOK, Phases, Listed, Fresh
  <2>3. ExpiryIsDue'
    BY <1>1 DEF Open, TypeOK, ExpiryIsDue, TableExact, Current, Listed
  <2>4. LeaseHasTimer'
    BY <1>1
    DEF Open, TypeOK, LeaseHasTimer, TableExact, Phases, Current, Listed, Fresh
  <2> QED BY <2>1, <2>2, <2>3, <2>4
<1>2. ASSUME NEW n \in Name, Kill(n) PROVE Rest'
  <2>1. TableExact'
    BY <1>2 DEF Kill, TableExact, Current, TypeOK, Phases, Listed, Fresh
  <2>2. Phases'
    BY <1>2 DEF Kill, TableExact, Current, TypeOK, Phases, Listed, Fresh
  <2>3. ExpiryIsDue'
    BY <1>2 DEF Kill, TableExact, Current, TypeOK, ExpiryIsDue, Listed
  <2>4. LeaseHasTimer'
    BY <1>2
    DEF Kill, TableExact, Current, TypeOK, LeaseHasTimer, Phases, Listed, Fresh
  <2> QED BY <2>1, <2>2, <2>3, <2>4
<1>3. ASSUME NEW n \in Name, Close(n) PROVE Rest'
  <2>1. TableExact'
    BY <1>3
    DEF Close, CloseExpiry, task, TableExact, Current, TypeOK, Phases, Listed,
        Fresh
  <2>2. Phases'
    BY <1>3
    DEF Close, CloseExpiry, task, TableExact, Current, TypeOK, Phases, Listed,
        Fresh
  <2>3. ExpiryIsDue'
    BY <1>3
    DEF Close, CloseExpiry, task, TableExact, Current, TypeOK, ExpiryIsDue,
        Listed
  <2>4. LeaseHasTimer'
    BY <1>3
    DEF Close, CloseExpiry, task, TableExact, Current, TypeOK, LeaseHasTimer,
        Phases, Listed, Fresh
  <2> QED BY <2>1, <2>2, <2>3, <2>4
<1>4. ASSUME NEW n \in Name, Reopen(n) PROVE Rest'
  <2>1. TableExact'
    BY <1>4 DEF Reopen, task, TypeOK, TableExact, Phases, Current, Listed, Fresh
  <2>2. Phases'
    BY <1>4 DEF Reopen, task, TypeOK, Phases, Listed, Fresh
  <2>3. ExpiryIsDue'
    BY <1>4 DEF Reopen, task, TypeOK, ExpiryIsDue, TableExact, Current, Listed
  <2>4. LeaseHasTimer'
    BY <1>4
    DEF Reopen, task, TypeOK, LeaseHasTimer, TableExact, Phases, Current,
        Listed, Fresh
  <2> QED BY <2>1, <2>2, <2>3, <2>4
<1>5. ASSUME NEW batch \in SUBSET Session, NEW as \in [batch -> Name],
             NEW lease \in [batch -> Time \cup {None}],
             NEW up \in SUBSET batch, AdoptMany(as, lease, up)
      PROVE  Rest'
  <2> DEFINE names == {as[s] : s \in batch}
  <2>1. \A n \in names : SessionNamed(as, n) \in batch
                        /\ as[SessionNamed(as, n)] = n
    BY BatchNames
  <2>2. \A s \in batch : as[s] \in names
    OBVIOUS
  <2>3. /\ \A s \in Session : Fresh(s)
        /\ \A r, s \in batch : as[r] = as[s] => r = s
        /\ ptys' = [n \in Name |-> IF n \in names THEN SessionNamed(as, n)
                                                  ELSE ptys[n]]
        /\ name' = [s \in Session |-> IF s \in batch THEN as[s] ELSE name[s]]
        /\ adopted' = [s \in Session |-> s \in batch \/ adopted[s]]
        /\ alive' = [s \in Session |-> s \in up \/ alive[s]]
        /\ deadline' = [s \in Session |-> IF s \in batch THEN lease[s]
                                                         ELSE deadline[s]]
        /\ loop' = [s \in Session |-> IF s \in batch THEN "reading" ELSE loop[s]]
        /\ timers' = timers \cup ArmedBy(lease)
        /\ UNCHANGED <<serving, now, exited, killer, announced>>
    BY <1>5 DEF AdoptMany
  <2>4. \A s \in batch : lease[s] # None => <<s, lease[s]>> \in ArmedBy(lease)
    BY DEF ArmedBy
  <2>9. \A s \in Session :
          /\ name'[s] = IF s \in batch THEN as[s] ELSE None
          /\ adopted'[s] <=> s \in batch \/ adopted[s]
          /\ alive'[s] <=> s \in up \/ alive[s]
          /\ loop'[s] = IF s \in batch THEN "reading" ELSE loop[s]
          /\ killer'[s] = "none"
    BY <2>3 DEF TypeOK, Phases, Fresh
  <2>10. \A s \in batch : as[s] # None
    OBVIOUS
  <2> HIDE DEF names
  <2>5. TableExact'
    <3>1. \A s \in batch : SessionNamed(as, as[s]) = s
      BY <2>1, <2>2, <2>3
    <3>2. \A n \in Name : ptys[n] = None
      BY <2>3 DEF TypeOK, TableExact, Current
    <3>3. \A n \in Name : ptys'[n] = IF n \in names THEN SessionNamed(as, n)
                                                      ELSE None
      BY <2>3, <3>2
    <3>4. ASSUME NEW s \in Session, Current(s)' PROVE Listed(s)'
      <4>1. s \in batch
        BY <2>9, <3>4 DEF Current, Fresh
      <4>2. as[s] \in names /\ as[s] \in Name
        BY <2>2, <4>1
      <4>3. ptys'[as[s]] = s
        BY <3>1, <3>3, <4>1, <4>2
      <4>4. name'[s] = as[s]
        BY <2>9, <4>1
      <4> QED BY <2>10, <4>1, <4>3, <4>4 DEF Listed
    <3>5. ASSUME NEW n \in Name, ptys'[n] # None
          PROVE  name'[ptys'[n]] = n /\ Current(ptys[n])'
      <4>1. n \in names /\ ptys'[n] \in batch /\ as[ptys'[n]] = n
        BY <2>1, <3>3, <3>5
      <4> QED BY <2>9, <2>10, <4>1 DEF Current, Fresh
    <3> QED BY <3>4, <3>5 DEF TableExact
  <2>6. Phases'
    BY <2>3, <2>9, <2>10 DEF TypeOK, Phases, Fresh
  <2>7. ExpiryIsDue'
    BY <2>3 DEF TypeOK, ExpiryIsDue, Phases, Fresh
  <2>8. LeaseHasTimer'
    BY <2>1, <2>2, <2>3, <2>4
    DEF TypeOK, LeaseHasTimer, TableExact, Listed, Fresh
  <2> QED BY <2>5, <2>6, <2>7, <2>8
<1>6. CASE Serve
  <2>1. TableExact'
    BY <1>6 DEF Serve, task, TypeOK, TableExact, Phases, Current, Listed, Fresh
  <2>2. Phases'
    BY <1>6 DEF Serve, task, TypeOK, Phases, Listed, Fresh
  <2>3. ExpiryIsDue'
    BY <1>6 DEF Serve, task, TypeOK, ExpiryIsDue, TableExact, Current, Listed
  <2>4. LeaseHasTimer'
    BY <1>6
    DEF Serve, task, TypeOK, LeaseHasTimer, TableExact, Phases, Current,
        Listed, Fresh
  <2> QED BY <2>1, <2>2, <2>3, <2>4, <1>0
<1>7. ASSUME NEW s \in Session, KillTerminate(s) PROVE Rest'
  <2>1. TableExact'
    BY <1>7
    DEF KillTerminate, TypeOK, TableExact, Phases, Current, Listed, Fresh
  <2>2. Phases'
    BY <1>7 DEF KillTerminate, TypeOK, Phases, Listed, Fresh
  <2>3. ExpiryIsDue'
    BY <1>7 DEF KillTerminate, TypeOK, ExpiryIsDue, TableExact, Current, Listed
  <2>4. LeaseHasTimer'
    BY <1>7
    DEF KillTerminate, TypeOK, LeaseHasTimer, TableExact, Phases, Current,
        Listed, Fresh
  <2> QED BY <2>1, <2>2, <2>3, <2>4
<1>8. ASSUME NEW s \in Session, KillRelease(s) PROVE Rest'
  <2>1. TableExact'
    BY <1>8 DEF KillRelease, TypeOK, TableExact, Phases, Current, Listed, Fresh
  <2>2. Phases'
    BY <1>8 DEF KillRelease, TypeOK, Phases, Listed, Fresh
  <2>3. ExpiryIsDue'
    BY <1>8 DEF KillRelease, TypeOK, ExpiryIsDue, TableExact, Current, Listed
  <2>4. LeaseHasTimer'
    BY <1>8
    DEF KillRelease, TypeOK, LeaseHasTimer, TableExact, Phases, Current,
        Listed, Fresh
  <2> QED BY <2>1, <2>2, <2>3, <2>4
<1>9. ASSUME NEW s \in Session, WaitChild(s) PROVE Rest'
  <2>1. TableExact'
    BY <1>9 DEF WaitChild, TypeOK, TableExact, Phases, Current, Listed, Fresh
  <2>2. Phases'
    BY <1>9 DEF WaitChild, TypeOK, Phases, Listed, Fresh
  <2>3. ExpiryIsDue'
    BY <1>9 DEF WaitChild, TypeOK, ExpiryIsDue, TableExact, Current, Listed
  <2>4. LeaseHasTimer'
    BY <1>9
    DEF WaitChild, TypeOK, LeaseHasTimer, TableExact, Phases, Current, Listed,
        Fresh
  <2> QED BY <2>1, <2>2, <2>3, <2>4
<1>10. ASSUME NEW s \in Session, WaitAdopted(s) PROVE Rest'
  <2>1. TableExact'
    BY <1>10 DEF WaitAdopted, TypeOK, TableExact, Phases, Current, Listed, Fresh
  <2>2. Phases'
    BY <1>10 DEF WaitAdopted, TypeOK, Phases, Listed, Fresh
  <2>3. ExpiryIsDue'
    BY <1>10 DEF WaitAdopted, TypeOK, ExpiryIsDue, TableExact, Current, Listed
  <2>4. LeaseHasTimer'
    BY <1>10
    DEF WaitAdopted, TypeOK, LeaseHasTimer, TableExact, Phases, Current,
        Listed, Fresh
  <2> QED BY <2>1, <2>2, <2>3, <2>4
<1>11. ASSUME NEW s \in Session, ReapRemove(s) PROVE Rest'
  <2>1. TableExact'
    BY <1>11
    DEF ReapRemove, RemoveIfSame, TypeOK, TableExact, Phases, Current, Listed,
        Fresh
  <2>2. Phases'
    BY <1>11 DEF ReapRemove, RemoveIfSame, TypeOK, Phases, Listed, Fresh
  <2>3. ExpiryIsDue'
    BY <1>11
    DEF ReapRemove, RemoveIfSame, TypeOK, ExpiryIsDue, TableExact, Current,
        Listed
  <2>4. LeaseHasTimer'
    BY <1>11
    DEF ReapRemove, RemoveIfSame, TypeOK, LeaseHasTimer, TableExact, Phases,
        Current, Listed, Fresh
  <2> QED BY <2>1, <2>2, <2>3, <2>4
<1>12. ASSUME NEW s \in Session, NEW d \in Time, FireTimer(s, d) PROVE Rest'
  <2>1. TableExact'
    BY <1>12
    DEF FireTimer, StillDue, Time, TypeOK, TableExact, Phases, Current, Listed,
        Fresh
  <2>2. Phases'
    BY <1>12 DEF FireTimer, StillDue, Time, TypeOK, Phases, Listed, Fresh
  <2>3. ExpiryIsDue'
    BY <1>12
    DEF FireTimer, StillDue, Time, TypeOK, ExpiryIsDue, TableExact, Current,
        Listed
  <2>4. LeaseHasTimer'
    BY <1>12
    DEF FireTimer, StillDue, Time, TypeOK, LeaseHasTimer, TableExact, Phases,
        Current, Listed, Fresh
  <2> QED BY <2>1, <2>2, <2>3, <2>4
<1>13. ASSUME NEW s \in Session, ChildExit(s) PROVE Rest'
  <2>1. TableExact'
    BY <1>13
    DEF ChildExit, task, TypeOK, TableExact, Phases, Current, Listed, Fresh
  <2>2. Phases'
    BY <1>13 DEF ChildExit, task, TypeOK, Phases, Listed, Fresh
  <2>3. ExpiryIsDue'
    BY <1>13
    DEF ChildExit, task, TypeOK, ExpiryIsDue, TableExact, Current, Listed
  <2>4. LeaseHasTimer'
    BY <1>13
    DEF ChildExit, task, TypeOK, LeaseHasTimer, TableExact, Phases, Current,
        Listed, Fresh
  <2> QED BY <2>1, <2>2, <2>3, <2>4
<1>14. ASSUME NEW s \in Session, Eof(s) PROVE Rest'
  <2>1. TableExact'
    BY <1>14 DEF Eof, TypeOK, TableExact, Phases, Current, Listed, Fresh
  <2>2. Phases'
    BY <1>14 DEF Eof, TypeOK, Phases, Listed, Fresh
  <2>3. ExpiryIsDue'
    BY <1>14 DEF Eof, TypeOK, ExpiryIsDue, TableExact, Current, Listed
  <2>4. LeaseHasTimer'
    BY <1>14
    DEF Eof, TypeOK, LeaseHasTimer, TableExact, Phases, Current, Listed, Fresh
  <2> QED BY <2>1, <2>2, <2>3, <2>4
<1>15. CASE Tick
  <2>1. TableExact'
    BY <1>15
    DEF Tick, Time, task, TypeOK, TableExact, Phases, Current, Listed, Fresh
  <2>2. Phases'
    BY <1>15 DEF Tick, Time, task, TypeOK, Phases, Listed, Fresh
  <2>3. ExpiryIsDue'
    BY <1>15
    DEF Tick, Time, task, TypeOK, ExpiryIsDue, TableExact, Current, Listed
  <2>4. LeaseHasTimer'
    BY <1>15
    DEF Tick, Time, task, TypeOK, LeaseHasTimer, TableExact, Phases, Current,
        Listed, Fresh
  <2> QED BY <2>1, <2>2, <2>3, <2>4, <1>0
<1>16. CASE UNCHANGED vars
  <2>1. TableExact'
    BY <1>16 DEF vars, TypeOK, TableExact, Phases, Current, Listed, Fresh
  <2>2. Phases'
    BY <1>16 DEF vars, TypeOK, Phases, Listed, Fresh
  <2>3. ExpiryIsDue'
    BY <1>16 DEF vars, TypeOK, ExpiryIsDue, TableExact, Current, Listed
  <2>4. LeaseHasTimer'
    BY <1>16
    DEF vars, TypeOK, LeaseHasTimer, TableExact, Phases, Current, Listed, Fresh
  <2> QED BY <2>1, <2>2, <2>3, <2>4, <1>0
<1>17. ASSUME NEW n \in Name, NEW s \in Session, OpenHangsUp(n, s)
       PROVE  Rest'
  <2>1. TableExact'
    BY <1>17 DEF OpenHangsUp, TypeOK, TableExact, Phases, Current, Listed, Fresh
  <2>2. Phases'
    BY <1>17 DEF OpenHangsUp, TypeOK, Phases, Listed, Fresh
  <2>3. ExpiryIsDue'
    BY <1>17 DEF OpenHangsUp, TypeOK, ExpiryIsDue, TableExact, Current, Listed
  <2>4. LeaseHasTimer'
    BY <1>17
    DEF OpenHangsUp, TypeOK, LeaseHasTimer, TableExact, Phases, Current, Listed,
        Fresh
  <2> QED BY <2>1, <2>2, <2>3, <2>4
<1> QED
  BY <1>0, <1>1, <1>2, <1>3, <1>4, <1>5, <1>6, <1>7, <1>8, <1>9, <1>10, <1>11,
     <1>12, <1>13, <1>14, <1>15, <1>16, <1>17
  DEF Next, Requests, Handoff, Tasks, Shells

\* The inductive invariant holds in every reachable state.
THEOREM Inductive == Spec => []IndInv
BY IndInit, IndStep, PTL DEF Spec

\* The table holds exactly the sessions nothing has ended: late reaps and
\* timers of an old shell never unlist its replacement.
THEOREM TableStaysExact == Spec => []TableExact
BY Inductive, PTL DEF IndInv

\* No shell of an open that succeeded is ever left running out of reach of kill.
THEOREM ShellsStayReachable == Spec => []NoShellLeaked
<1>1. IndInv => NoShellLeaked
  <2> SUFFICES ASSUME IndInv, NEW s \in Session, alive[s], ~adopted[s],
                      killer[s] # "hungup"
               PROVE  Listed(s) \/ killer[s] \in {"kill", "expiry"}
    BY DEF NoShellLeaked
  <2>1. ~Fresh(s) /\ loop[s] # "done" /\ killer[s] \notin {"release", "done"}
    BY DEF IndInv, Phases
  <2>2. CASE killer[s] = "none"
    BY <2>1, <2>2 DEF IndInv, TableExact, Current
  <2>3. CASE killer[s] # "none"
    BY <2>1, <2>3 DEF IndInv, TypeOK, KillerState
  <2> QED BY <2>2, <2>3
<1> QED BY <1>1, Inductive, PTL

\* Only a lease that is armed and over ends a terminal, and every armed lease
\* of a listed terminal has its timer.
THEOREM LeasesAreHonoured == Spec => [](ExpiryIsDue /\ LeaseHasTimer)
BY Inductive, PTL DEF IndInv

\* An armed deadline never moves: it stands until a reopen cancels it.
THEOREM LeaseStands == Spec => LeaseNeverMoves
<1> DEFINE Stands == \A s \in Session : deadline[s] # None =>
                        deadline'[s] \in {deadline[s], None}
<1>1. IndInv /\ [Next]_vars => [Stands]_vars
  <2> SUFFICES ASSUME IndInv, Next PROVE Stands
    OBVIOUS
  <2> USE DEF IndInv, TypeOK
  <2>1. ASSUME NEW n \in Name, Close(n) PROVE Stands
    BY <2>1 DEF Close, CloseExpiry
  <2>2. ASSUME NEW n \in Name, Reopen(n) PROVE Stands
    BY <2>2 DEF Reopen
  <2>3. ASSUME NEW batch \in SUBSET Session, NEW as \in [batch -> Name],
               NEW lease \in [batch -> Time \cup {None}],
               NEW up \in SUBSET batch, AdoptMany(as, lease, up)
        PROVE  Stands
    BY <2>3 DEF AdoptMany, Phases
  <2>4. ASSUME UNCHANGED deadline PROVE Stands
    BY <2>4
  <2>5. ASSUME NEW n \in Name, \/ Kill(n)
                               \/ \E s \in Session : \/ Open(n, s)
                                                     \/ OpenHangsUp(n, s)
        PROVE  UNCHANGED deadline
    BY <2>5 DEF Kill, Open, OpenHangsUp
  <2>6. ASSUME Serve \/ Tasks \/ Shells \/ Tick PROVE UNCHANGED deadline
    BY <2>6 DEF Serve, Tasks, Shells, Tick, KillTerminate, KillRelease,
                WaitChild, WaitAdopted, ReapRemove, FireTimer, ChildExit, Eof
  <2> QED
    BY <2>1, <2>2, <2>3, <2>4, <2>5, <2>6 DEF Next, Requests, Handoff
<1> QED BY <1>1, Inductive, PTL DEF Spec, LeaseNeverMoves

\* The table never holds more than MAX_PTYS terminals.
THEOREM LimitHolds == Spec => []WithinLimit
<1> USE ManagerAssumption
<1>1. IsFiniteSet(Used) /\ Cardinality(Used) \in Nat
  BY FS_Subset, FS_CardinalityType DEF Used
<1>2. IsFiniteSet(Used') /\ Cardinality(Used') \in Nat
  BY FS_Subset, FS_CardinalityType DEF Used
<1>3. Init => WithinLimit
  <2>1. Init => Used = {}
    BY DEF Init, Used
  <2> QED BY <2>1, FS_EmptySet DEF WithinLimit
<1>4. TypeOK /\ WithinLimit /\ [Next]_vars => WithinLimit'
  <2> SUFFICES ASSUME TypeOK, WithinLimit, [Next]_vars PROVE WithinLimit'
    OBVIOUS
  <2> USE DEF WithinLimit
  <2>1. ASSUME Used' \subseteq Used PROVE WithinLimit'
    BY <1>1, <1>2, <2>1, FS_Subset
  <2>2. ASSUME NEW n \in Name, NEW s \in Session, Open(n, s) PROVE WithinLimit'
    <3>1. Used' = Used \cup {n} /\ n \notin Used
      BY <2>2 DEF Open, Used, TypeOK
    <3>2. Cardinality(Used') = Cardinality(Used) + 1
      BY <1>1, <3>1, FS_AddElement
    <3>3. Cardinality(Used) < MAX_PTYS
      BY <2>2 DEF Open, Room
    <3> QED BY <1>1, <3>2, <3>3
  <2>3. ASSUME NEW batch \in SUBSET Session, NEW as \in [batch -> Name],
               NEW lease \in [batch -> Time \cup {None}],
               NEW up \in SUBSET batch, AdoptMany(as, lease, up)
        PROVE  WithinLimit'
    <3> DEFINE names == {as[s] : s \in batch}
    <3>1. names \subseteq Name
      OBVIOUS
    <3>2. IsFiniteSet(names) /\ Cardinality(names) \in Nat
      BY <3>1, FS_Subset, FS_CardinalityType
    <3>3. Used' \subseteq Used \cup names
      BY <2>3 DEF AdoptMany, Used
    <3>4. Cardinality(Used) + Cardinality(names) <= MAX_PTYS
      BY <2>3 DEF AdoptMany
    <3> HIDE DEF names
    <3>5. /\ IsFiniteSet(Used \cup names)
          /\ Cardinality(Used \cup names) \in Nat
          /\ Cardinality(Used \cup names) <= Cardinality(Used) + Cardinality(names)
      <4>1. /\ IsFiniteSet(Used \cup names)
            /\ Cardinality(Used \cup names) = Cardinality(Used)
                 + Cardinality(names) - Cardinality(Used \cap names)
        BY <1>1, <3>2, FS_Union
      <4>2. IsFiniteSet(Used \cap names) /\ Cardinality(Used \cap names) \in Nat
        BY <1>1, <3>2, FS_Intersection, FS_CardinalityType
      <4>3. Cardinality(Used \cup names) \in Nat
        BY <4>1, FS_CardinalityType
      <4> QED BY <1>1, <3>2, <4>1, <4>2, <4>3
    <3> QED BY <1>2, <3>2, <1>1, <3>3, <3>4, <3>5, FS_Subset
  <2>4. ASSUME NEW n \in Name, Kill(n) \/ Close(n) \/ Reopen(n)
        PROVE  Used' \subseteq Used
    BY <2>4 DEF Kill, Close, Reopen, Used, TypeOK
  <2>5. ASSUME Serve \/ Shells \/ Tick \/ UNCHANGED vars
        PROVE  Used' \subseteq Used
    BY <2>5 DEF Serve, Shells, Tick, ChildExit, Eof, vars, Used
  <2>6. ASSUME NEW s \in Session, ReapRemove(s) PROVE Used' \subseteq Used
    BY <2>6 DEF ReapRemove, RemoveIfSame, Used
  <2>7. ASSUME NEW s \in Session, NEW d \in Time, FireTimer(s, d)
        PROVE  Used' \subseteq Used
    BY <2>7 DEF FireTimer, StillDue, Listed, Used, TypeOK
  <2>8. ASSUME NEW s \in Session, \/ KillTerminate(s) \/ KillRelease(s)
                                  \/ WaitChild(s) \/ WaitAdopted(s)
        PROVE  Used' \subseteq Used
    BY <2>8 DEF KillTerminate, KillRelease, WaitChild, WaitAdopted, Used
  <2>9. ASSUME NEW n \in Name, NEW s \in Session, OpenHangsUp(n, s)
        PROVE  Used' \subseteq Used
    BY <2>9 DEF OpenHangsUp, Used
  <2> QED
    BY <2>1, <2>2, <2>3, <2>4, <2>5, <2>6, <2>7, <2>8, <2>9
    DEF Next, Requests, Handoff, Tasks
<1> QED BY <1>3, <1>4, TypeCorrect, PTL DEF Spec
=============================================================================
