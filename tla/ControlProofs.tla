---------------------------- MODULE ControlProofs ----------------------------
(***************************************************************************)
(* The safety properties of module Control for any controllers, typists    *)
(* and process groups, any size of an input and any bounds.                *)
(***************************************************************************)
EXTENDS Control, TLAPS

\* The revision lags behind the viewport while it is fed, and is ahead by one
\* once the reap has counted the exit.
RevisionCounts ==
    /\ revision + (IF terminal = Feeding THEN 1 ELSE 0) =
          screen + (IF reaper \in {"changed", "removed"} THEN 1 ELSE 0)
    /\ screen < MaxRevision
    /\ exited <=> reaper # "no"

\* A snapshot of this terminal was taken under the terminal lock, so its
\* revision names its text, unless it was taken after the exit was counted.
SnapshotsFit ==
    \A c \in Controller : snap[c].generation = "this" =>
        \/ snap[c].text = snap[c].revision
        \/ reaper \in {"changed", "removed"}

\* Who holds input_lock, and what has been let through under it.
LockHeld ==
    /\ \A w \in Writer : pc[w] \in {"check", "write"} <=> inputLock = w
    /\ \A t \in Typist : pc[t] \in {"idle", "write"}
    /\ \A w \in Writer : pc[w] = "write" =>
          mine[w] = inputRev /\ inputRev # 0

\* A controller whose input is under way has no answer yet, and before the
\* check nothing is let through.
Unanswered ==
    \A c \in Controller :
        /\ pc[c] \in {"wait", "check", "write"} => reply[c] = "none"
        /\ pc[c] \in {"wait", "check"} => mine[c] = 0

\* Each checked input carries the markers that were current when it was let
\* through, the input revision among them.
BasisIsUsedUp ==
    \A a \in Attempt : basis[a] # None =>
        /\ a <= inputRev
        /\ a = basis[a].input + 1
        /\ basis[a].generation = "this"

\* The inductive invariant.
IndInv ==
    /\ TypeOK
    /\ RevisionCounts
    /\ SnapshotsFit
    /\ LockHeld
    /\ Unanswered
    /\ BasisIsUsedUp
    /\ lastByte <= inputRev
    /\ AppliedToSeen
    /\ ReplyTruthful

\* An inspection of this terminal, or of a former one, has the type of one.
LEMMA SnapshotTypes ==
  /\ 0 \in Screen /\ 0 \in 0..MaxInputs
  /\ \A r, s \in Screen :
        [First EXCEPT !.revision = r, !.text = s] \in Snapshot
  /\ \A g \in Group :
        Leftover(g) \in Snapshot /\ Leftover(g).generation = "old"
<1>1. 0 \in Screen /\ 0 \in 0..MaxInputs
  BY ControlAssumption DEF Screen
<1>2. ASSUME NEW r \in Screen, NEW s \in Screen
      PROVE  [First EXCEPT !.revision = r, !.text = s] \in Snapshot
  BY <1>1 DEF First, Snapshot, Generation
<1>3. ASSUME NEW g \in Group
      PROVE  Leftover(g) \in Snapshot /\ Leftover(g).generation = "old"
  BY <1>1 DEF Leftover, First, Snapshot, Generation
<1> QED BY <1>1, <1>2, <1>3

\* The variables hold what their declarations promise, after every step.
LEMMA TypeStep == IndInv /\ [Next]_vars => TypeOK'
<1> SUFFICES ASSUME IndInv, [Next]_vars PROVE TypeOK'
  OBVIOUS
<1> USE ControlAssumption DEF IndInv
<1>1. CASE Feed
  BY <1>1 DEF Feed, inputVars, TypeOK, Screen
<1>2. CASE Fed
  BY <1>2 DEF Fed, Changed, inputVars, TypeOK, Screen, RevisionCounts
<1>3. CASE Foreground
  BY <1>3 DEF Foreground, inputVars, TypeOK
<1>4. CASE Exited
  BY <1>4 DEF Exited, inputVars, TypeOK
<1>5. CASE ReapChanged
  <2>1. revision + 1 \in Screen
    BY <1>5 DEF ReapChanged, TypeOK, Screen, RevisionCounts
  <2> QED BY <1>5, <2>1 DEF ReapChanged, Changed, inputVars, TypeOK
<1>6. CASE ReapRemove
  BY <1>6 DEF ReapRemove, inputVars, TypeOK
<1>7. ASSUME NEW c \in Controller, InspectText(c)
      PROVE  TypeOK'
  <2>1. [First EXCEPT !.revision = revision, !.text = screen] \in Snapshot
    BY SnapshotTypes DEF TypeOK
  <2>2. pc' \in [Writer -> {"idle", "snap", "wait", "check", "write"}]
    BY <1>7 DEF InspectText, SnapshotText, Goto, TypeOK
  <2>3. snap' \in [Controller -> Snapshot]
    BY <1>7, <2>1 DEF InspectText, SnapshotText, TypeOK
  <2> QED
    BY <1>7, <2>2, <2>3
    DEF InspectText, SnapshotText, sessionVars, inputVars, TypeOK
<1>8. ASSUME NEW c \in Controller, InspectRest(c)
      PROVE  TypeOK'
  <2>1. [snap[c] EXCEPT !.input = inputRev, !.fg = fg] \in Snapshot
    BY ZenonT(60) DEF Snapshot, TypeOK
  <2>2. pc' \in [Writer -> {"idle", "snap", "wait", "check", "write"}]
    BY <1>8 DEF InspectRest, SnapshotRest, Goto, TypeOK
  <2>3. snap' \in [Controller -> Snapshot]
    BY <1>8, <2>1 DEF InspectRest, SnapshotRest, TypeOK
  <2> QED
    BY <1>8, <2>2, <2>3
    DEF InspectRest, SnapshotRest, sessionVars, inputVars, TypeOK
<1>9. ASSUME NEW c \in Controller, Submit(c)
      PROVE  TypeOK'
  BY <1>9 DEF Submit, Goto, sessionVars, TypeOK, Writer
<1>10. ASSUME NEW c \in Controller, SubmitInvalid(c)
      PROVE  TypeOK'
  BY <1>10 DEF SubmitInvalid, sessionVars, TypeOK, Writer
<1>11. ASSUME NEW c \in Controller, CheckLocked(c)
      PROVE  TypeOK'
  BY <1>11 DEF CheckLocked, Goto, sessionVars, TypeOK, Writer
<1>12. ASSUME NEW c \in Controller, CheckAccepts(c)
      PROVE  TypeOK'
  <2> DEFINE b == [generation |-> snap[c].generation, input |-> snap[c].input,
                   text |-> snap[c].text, screen |-> screen,
                   feeding |-> terminal = Feeding]
  <2>1. b \in Basis
    BY DEF Basis, Snapshot, TypeOK
  <2>2. inputRev + 1 \in Attempt /\ inputRev + 1 \in 0..MaxInputs
    BY <1>12 DEF CheckAccepts, Advance, Attempt, TypeOK
  <2>3. basis' = [basis EXCEPT ![inputRev + 1] = b]
    BY <1>12 DEF CheckAccepts
  <2> HIDE DEF b
  <2>4. basis' \in [Attempt -> Basis \cup {None}]
    BY <2>1, <2>2, <2>3 DEF TypeOK
  <2> QED
    BY <1>12, <2>2, <2>4
    DEF CheckAccepts, Advance, Goto, sessionVars, TypeOK, Writer
<1>13. ASSUME NEW c \in Controller, CheckRefuses(c)
      PROVE  TypeOK'
  BY <1>13 DEF CheckRefuses, Goto, sessionVars, TypeOK, Writer
<1>14. ASSUME NEW t \in Typist, Type(t)
      PROVE  TypeOK'
  BY <1>14 DEF Type, Advance, Goto, sessionVars, TypeOK, Writer
<1>15. ASSUME NEW w \in Writer, NEW n \in 1..Size, WriteSome(w, n)
      PROVE  TypeOK'
  <2>1. mine[w] \in Attempt
    BY <1>15 DEF WriteSome, LockHeld, TypeOK, Attempt
  <2>2. sent[mine[w]] + n \in 0..Size
    BY <1>15, <2>1 DEF WriteSome, TypeOK
  <2> QED BY <1>15, <2>1, <2>2 DEF WriteSome, sessionVars, TypeOK
<1>16. ASSUME NEW w \in Writer, WriteDone(w)
      PROVE  TypeOK'
  BY <1>16 DEF WriteDone, Release, Answer, Goto, sessionVars, TypeOK
<1>17. ASSUME NEW w \in Writer, GiveUp(w)
      PROVE  TypeOK'
  BY <1>17 DEF GiveUp, Release, Answer, Goto, sessionVars, TypeOK
<1>18. CASE UNCHANGED vars
  BY <1>18 DEF vars, TypeOK
<1> QED
  BY <1>1, <1>2, <1>3, <1>4, <1>5, <1>6, <1>7, <1>8, <1>9, <1>10, <1>11,
      <1>12, <1>13, <1>14, <1>15, <1>16, <1>17, <1>18 DEF Next

\* The revision goes on naming the viewport.
LEMMA RevisionStep == IndInv /\ [Next]_vars => RevisionCounts'
<1> SUFFICES ASSUME IndInv, [Next]_vars PROVE RevisionCounts'
  OBVIOUS
<1> USE ControlAssumption DEF IndInv
<1>1. CASE Feed
  BY <1>1 DEF Feed, inputVars, TypeOK, Screen, RevisionCounts
<1>2. CASE Fed
  BY <1>2 DEF Fed, Changed, inputVars, TypeOK, Screen, RevisionCounts
<1>3. CASE Foreground
  BY <1>3 DEF Foreground, inputVars, TypeOK, Screen, RevisionCounts
<1>4. CASE Exited
  BY <1>4 DEF Exited, inputVars, TypeOK, Screen, RevisionCounts
<1>5. CASE ReapChanged
  BY <1>5 DEF ReapChanged, Changed, inputVars, TypeOK, Screen, RevisionCounts
<1>6. CASE ReapRemove
  BY <1>6 DEF ReapRemove, inputVars, TypeOK, Screen, RevisionCounts
<1>7. ASSUME NEW c \in Controller, InspectText(c)
      PROVE  RevisionCounts'
  BY <1>7 DEF InspectText, SnapshotText, Goto, Listed, First, sessionVars,
      inputVars, TypeOK, Screen, RevisionCounts
<1>8. ASSUME NEW c \in Controller, InspectRest(c)
      PROVE  RevisionCounts'
  BY <1>8 DEF InspectRest, SnapshotRest, Goto, sessionVars, inputVars,
      TypeOK, Screen, RevisionCounts
<1>9. ASSUME NEW c \in Controller, Submit(c)
      PROVE  RevisionCounts'
  BY <1>9 DEF Submit, Goto, sessionVars, TypeOK, Screen, RevisionCounts
<1>10. ASSUME NEW c \in Controller, SubmitInvalid(c)
      PROVE  RevisionCounts'
  BY <1>10 DEF SubmitInvalid, sessionVars, TypeOK, Screen, RevisionCounts
<1>11. ASSUME NEW c \in Controller, CheckLocked(c)
      PROVE  RevisionCounts'
  BY <1>11 DEF CheckLocked, Goto, sessionVars, TypeOK, Screen, RevisionCounts
<1>12. ASSUME NEW c \in Controller, CheckAccepts(c)
      PROVE  RevisionCounts'
  BY <1>12 DEF CheckAccepts, Unchanged, Advance, Goto, sessionVars, TypeOK,
      Screen, RevisionCounts
<1>13. ASSUME NEW c \in Controller, CheckRefuses(c)
      PROVE  RevisionCounts'
  BY <1>13 DEF CheckRefuses, Goto, sessionVars, TypeOK, Screen,
      RevisionCounts
<1>14. ASSUME NEW t \in Typist, Type(t)
      PROVE  RevisionCounts'
  BY <1>14 DEF Type, Advance, Goto, sessionVars, TypeOK, Screen,
      RevisionCounts
<1>15. ASSUME NEW w \in Writer, NEW n \in 1..Size, WriteSome(w, n)
      PROVE  RevisionCounts'
  BY <1>15 DEF WriteSome, sessionVars, TypeOK, Screen, RevisionCounts
<1>16. ASSUME NEW w \in Writer, WriteDone(w)
      PROVE  RevisionCounts'
  BY <1>16 DEF WriteDone, Release, Answer, Goto, sessionVars, TypeOK, Screen,
      RevisionCounts
<1>17. ASSUME NEW w \in Writer, GiveUp(w)
      PROVE  RevisionCounts'
  BY <1>17 DEF GiveUp, Release, Answer, Goto, sessionVars, TypeOK, Screen,
      RevisionCounts
<1>18. CASE UNCHANGED vars
  BY <1>18 DEF vars, TypeOK, Screen, RevisionCounts
<1> QED
  BY <1>1, <1>2, <1>3, <1>4, <1>5, <1>6, <1>7, <1>8, <1>9, <1>10, <1>11,
      <1>12, <1>13, <1>14, <1>15, <1>16, <1>17, <1>18 DEF Next

\* Snapshots go on fitting.
LEMMA SnapshotStep == IndInv /\ [Next]_vars => SnapshotsFit'
<1> SUFFICES ASSUME IndInv, [Next]_vars PROVE SnapshotsFit'
  OBVIOUS
<1> USE ControlAssumption DEF IndInv
<1>1. CASE Feed
  BY <1>1 DEF Feed, inputVars, TypeOK, Screen, Snapshot, RevisionCounts,
      SnapshotsFit
<1>2. CASE Fed
  BY <1>2 DEF Fed, Changed, inputVars, TypeOK, Screen, Snapshot,
      RevisionCounts, SnapshotsFit
<1>3. CASE Foreground
  BY <1>3 DEF Foreground, inputVars, TypeOK, Screen, Snapshot,
      RevisionCounts, SnapshotsFit
<1>4. CASE Exited
  BY <1>4 DEF Exited, inputVars, TypeOK, Screen, Snapshot, RevisionCounts,
      SnapshotsFit
<1>5. CASE ReapChanged
  BY <1>5 DEF ReapChanged, Changed, inputVars, TypeOK, Screen, Snapshot,
      RevisionCounts, SnapshotsFit
<1>6. CASE ReapRemove
  BY <1>6 DEF ReapRemove, inputVars, TypeOK, Screen, Snapshot,
      RevisionCounts, SnapshotsFit
<1>7. ASSUME NEW c \in Controller, InspectText(c)
      PROVE  SnapshotsFit'
  BY <1>7 DEF InspectText, SnapshotText, Goto, Listed, First, sessionVars,
      inputVars, TypeOK, Screen, Snapshot, RevisionCounts, SnapshotsFit
<1>8. ASSUME NEW c \in Controller, InspectRest(c)
      PROVE  SnapshotsFit'
  BY <1>8 DEF InspectRest, SnapshotRest, Goto, sessionVars, inputVars,
      TypeOK, Screen, Snapshot, RevisionCounts, SnapshotsFit
<1>9. ASSUME NEW c \in Controller, Submit(c)
      PROVE  SnapshotsFit'
  BY <1>9 DEF Submit, Goto, sessionVars, TypeOK, Screen, Snapshot,
      RevisionCounts, SnapshotsFit
<1>10. ASSUME NEW c \in Controller, SubmitInvalid(c)
      PROVE  SnapshotsFit'
  BY <1>10 DEF SubmitInvalid, sessionVars, TypeOK, Screen, Snapshot,
      RevisionCounts, SnapshotsFit
<1>11. ASSUME NEW c \in Controller, CheckLocked(c)
      PROVE  SnapshotsFit'
  BY <1>11 DEF CheckLocked, Goto, sessionVars, TypeOK, Screen, Snapshot,
      RevisionCounts, SnapshotsFit
<1>12. ASSUME NEW c \in Controller, CheckAccepts(c)
      PROVE  SnapshotsFit'
  BY <1>12 DEF CheckAccepts, Unchanged, Advance, Goto, sessionVars, TypeOK,
      Screen, Snapshot, RevisionCounts, SnapshotsFit
<1>13. ASSUME NEW c \in Controller, CheckRefuses(c)
      PROVE  SnapshotsFit'
  BY <1>13 DEF CheckRefuses, Goto, sessionVars, TypeOK, Screen, Snapshot,
      RevisionCounts, SnapshotsFit
<1>14. ASSUME NEW t \in Typist, Type(t)
      PROVE  SnapshotsFit'
  BY <1>14 DEF Type, Advance, Goto, sessionVars, TypeOK, Screen, Snapshot,
      RevisionCounts, SnapshotsFit
<1>15. ASSUME NEW w \in Writer, NEW n \in 1..Size, WriteSome(w, n)
      PROVE  SnapshotsFit'
  BY <1>15 DEF WriteSome, sessionVars, TypeOK, Screen, Snapshot,
      RevisionCounts, SnapshotsFit
<1>16. ASSUME NEW w \in Writer, WriteDone(w)
      PROVE  SnapshotsFit'
  BY <1>16 DEF WriteDone, Release, Answer, Goto, sessionVars, TypeOK, Screen,
      Snapshot, RevisionCounts, SnapshotsFit
<1>17. ASSUME NEW w \in Writer, GiveUp(w)
      PROVE  SnapshotsFit'
  BY <1>17 DEF GiveUp, Release, Answer, Goto, sessionVars, TypeOK, Screen,
      Snapshot, RevisionCounts, SnapshotsFit
<1>18. CASE UNCHANGED vars
  BY <1>18 DEF vars, TypeOK, Screen, Snapshot, RevisionCounts, SnapshotsFit
<1> QED
  BY <1>1, <1>2, <1>3, <1>4, <1>5, <1>6, <1>7, <1>8, <1>9, <1>10, <1>11,
      <1>12, <1>13, <1>14, <1>15, <1>16, <1>17, <1>18 DEF Next

\* The input lock is handed from writer to writer.
LEMMA LockStep == IndInv /\ [Next]_vars => LockHeld'
<1> SUFFICES ASSUME IndInv, [Next]_vars PROVE LockHeld'
  OBVIOUS
<1> USE ControlAssumption DEF IndInv
<1>1. CASE Feed
  BY <1>1 DEF Feed, inputVars, TypeOK, Writer, LockHeld
<1>2. CASE Fed
  BY <1>2 DEF Fed, Changed, inputVars, TypeOK, Writer, LockHeld
<1>3. CASE Foreground
  BY <1>3 DEF Foreground, inputVars, TypeOK, Writer, LockHeld
<1>4. CASE Exited
  BY <1>4 DEF Exited, inputVars, TypeOK, Writer, LockHeld
<1>5. CASE ReapChanged
  BY <1>5 DEF ReapChanged, Changed, inputVars, TypeOK, Writer, LockHeld
<1>6. CASE ReapRemove
  BY <1>6 DEF ReapRemove, inputVars, TypeOK, Writer, LockHeld
<1>7. ASSUME NEW c \in Controller, InspectText(c)
      PROVE  LockHeld'
  BY <1>7 DEF InspectText, SnapshotText, Goto, Listed, First, sessionVars,
      inputVars, TypeOK, Writer, LockHeld
<1>8. ASSUME NEW c \in Controller, InspectRest(c)
      PROVE  LockHeld'
  BY <1>8 DEF InspectRest, SnapshotRest, Goto, sessionVars, inputVars,
      TypeOK, Writer, LockHeld
<1>9. ASSUME NEW c \in Controller, Submit(c)
      PROVE  LockHeld'
  BY <1>9 DEF Submit, Goto, sessionVars, TypeOK, Writer, LockHeld
<1>10. ASSUME NEW c \in Controller, SubmitInvalid(c)
      PROVE  LockHeld'
  BY <1>10 DEF SubmitInvalid, sessionVars, TypeOK, Writer, LockHeld
<1>11. ASSUME NEW c \in Controller, CheckLocked(c)
      PROVE  LockHeld'
  BY <1>11 DEF CheckLocked, Goto, sessionVars, TypeOK, Writer, LockHeld
<1>12. ASSUME NEW c \in Controller, CheckAccepts(c)
      PROVE  LockHeld'
  BY <1>12 DEF CheckAccepts, Unchanged, Advance, Goto, sessionVars, TypeOK,
      Writer, LockHeld
<1>13. ASSUME NEW c \in Controller, CheckRefuses(c)
      PROVE  LockHeld'
  BY <1>13 DEF CheckRefuses, Goto, sessionVars, TypeOK, Writer, LockHeld
<1>14. ASSUME NEW t \in Typist, Type(t)
      PROVE  LockHeld'
  BY <1>14 DEF Type, Advance, Goto, sessionVars, TypeOK, Writer, LockHeld
<1>15. ASSUME NEW w \in Writer, NEW n \in 1..Size, WriteSome(w, n)
      PROVE  LockHeld'
  BY <1>15 DEF WriteSome, sessionVars, TypeOK, Writer, LockHeld
<1>16. ASSUME NEW w \in Writer, WriteDone(w)
      PROVE  LockHeld'
  BY <1>16 DEF WriteDone, Release, Answer, Goto, sessionVars, TypeOK, Writer,
      LockHeld
<1>17. ASSUME NEW w \in Writer, GiveUp(w)
      PROVE  LockHeld'
  BY <1>17 DEF GiveUp, Release, Answer, Goto, sessionVars, TypeOK, Writer,
      LockHeld
<1>18. CASE UNCHANGED vars
  BY <1>18 DEF vars, TypeOK, Writer, LockHeld
<1> QED
  BY <1>1, <1>2, <1>3, <1>4, <1>5, <1>6, <1>7, <1>8, <1>9, <1>10, <1>11,
      <1>12, <1>13, <1>14, <1>15, <1>16, <1>17, <1>18 DEF Next

\* An input under way stays unanswered.
LEMMA UnansweredStep == IndInv /\ [Next]_vars => Unanswered'
<1> SUFFICES ASSUME IndInv, [Next]_vars PROVE Unanswered'
  OBVIOUS
<1> USE ControlAssumption DEF IndInv
<1>1. CASE Feed
  BY <1>1 DEF Feed, inputVars, TypeOK, Writer, LockHeld, Unanswered
<1>2. CASE Fed
  BY <1>2 DEF Fed, Changed, inputVars, TypeOK, Writer, LockHeld, Unanswered
<1>3. CASE Foreground
  BY <1>3 DEF Foreground, inputVars, TypeOK, Writer, LockHeld, Unanswered
<1>4. CASE Exited
  BY <1>4 DEF Exited, inputVars, TypeOK, Writer, LockHeld, Unanswered
<1>5. CASE ReapChanged
  BY <1>5 DEF ReapChanged, Changed, inputVars, TypeOK, Writer, LockHeld,
      Unanswered
<1>6. CASE ReapRemove
  BY <1>6 DEF ReapRemove, inputVars, TypeOK, Writer, LockHeld, Unanswered
<1>7. ASSUME NEW c \in Controller, InspectText(c)
      PROVE  Unanswered'
  BY <1>7 DEF InspectText, SnapshotText, Goto, Listed, First, sessionVars,
      inputVars, TypeOK, Writer, LockHeld, Unanswered
<1>8. ASSUME NEW c \in Controller, InspectRest(c)
      PROVE  Unanswered'
  BY <1>8 DEF InspectRest, SnapshotRest, Goto, sessionVars, inputVars,
      TypeOK, Writer, LockHeld, Unanswered
<1>9. ASSUME NEW c \in Controller, Submit(c)
      PROVE  Unanswered'
  BY <1>9 DEF Submit, Goto, sessionVars, TypeOK, Writer, LockHeld, Unanswered
<1>10. ASSUME NEW c \in Controller, SubmitInvalid(c)
      PROVE  Unanswered'
  BY <1>10 DEF SubmitInvalid, sessionVars, TypeOK, Writer, LockHeld,
      Unanswered
<1>11. ASSUME NEW c \in Controller, CheckLocked(c)
      PROVE  Unanswered'
  BY <1>11 DEF CheckLocked, Goto, sessionVars, TypeOK, Writer, LockHeld,
      Unanswered
<1>12. ASSUME NEW c \in Controller, CheckAccepts(c)
      PROVE  Unanswered'
  BY <1>12 DEF CheckAccepts, Unchanged, Advance, Goto, sessionVars, TypeOK,
      Writer, LockHeld, Unanswered
<1>13. ASSUME NEW c \in Controller, CheckRefuses(c)
      PROVE  Unanswered'
  BY <1>13 DEF CheckRefuses, Goto, sessionVars, TypeOK, Writer, LockHeld,
      Unanswered
<1>14. ASSUME NEW t \in Typist, Type(t)
      PROVE  Unanswered'
  BY <1>14 DEF Type, Advance, Goto, sessionVars, TypeOK, Writer, LockHeld,
      Unanswered
<1>15. ASSUME NEW w \in Writer, NEW n \in 1..Size, WriteSome(w, n)
      PROVE  Unanswered'
  BY <1>15 DEF WriteSome, sessionVars, TypeOK, Writer, LockHeld, Unanswered
<1>16. ASSUME NEW w \in Writer, WriteDone(w)
      PROVE  Unanswered'
  BY <1>16 DEF WriteDone, Release, Answer, Goto, sessionVars, TypeOK, Writer,
      LockHeld, Unanswered
<1>17. ASSUME NEW w \in Writer, GiveUp(w)
      PROVE  Unanswered'
  BY <1>17 DEF GiveUp, Release, Answer, Goto, sessionVars, TypeOK, Writer,
      LockHeld, Unanswered
<1>18. CASE UNCHANGED vars
  BY <1>18 DEF vars, TypeOK, Writer, LockHeld, Unanswered
<1> QED
  BY <1>1, <1>2, <1>3, <1>4, <1>5, <1>6, <1>7, <1>8, <1>9, <1>10, <1>11,
      <1>12, <1>13, <1>14, <1>15, <1>16, <1>17, <1>18 DEF Next

\* An input revision is used up by what is let through with it.
LEMMA BasisStep == IndInv /\ [Next]_vars => BasisIsUsedUp'
<1> SUFFICES ASSUME IndInv, [Next]_vars PROVE BasisIsUsedUp'
  OBVIOUS
<1> USE ControlAssumption DEF IndInv
<1>1. CASE Feed
  BY <1>1 DEF Feed, inputVars, TypeOK, Attempt, LockHeld, BasisIsUsedUp
<1>2. CASE Fed
  BY <1>2 DEF Fed, Changed, inputVars, TypeOK, Attempt, LockHeld,
      BasisIsUsedUp
<1>3. CASE Foreground
  BY <1>3 DEF Foreground, inputVars, TypeOK, Attempt, LockHeld, BasisIsUsedUp
<1>4. CASE Exited
  BY <1>4 DEF Exited, inputVars, TypeOK, Attempt, LockHeld, BasisIsUsedUp
<1>5. CASE ReapChanged
  BY <1>5 DEF ReapChanged, Changed, inputVars, TypeOK, Attempt, LockHeld,
      BasisIsUsedUp
<1>6. CASE ReapRemove
  BY <1>6 DEF ReapRemove, inputVars, TypeOK, Attempt, LockHeld, BasisIsUsedUp
<1>7. ASSUME NEW c \in Controller, InspectText(c)
      PROVE  BasisIsUsedUp'
  BY <1>7 DEF InspectText, SnapshotText, Goto, Listed, First, sessionVars,
      inputVars, TypeOK, Attempt, LockHeld, BasisIsUsedUp
<1>8. ASSUME NEW c \in Controller, InspectRest(c)
      PROVE  BasisIsUsedUp'
  BY <1>8 DEF InspectRest, SnapshotRest, Goto, sessionVars, inputVars,
      TypeOK, Attempt, LockHeld, BasisIsUsedUp
<1>9. ASSUME NEW c \in Controller, Submit(c)
      PROVE  BasisIsUsedUp'
  BY <1>9 DEF Submit, Goto, sessionVars, TypeOK, Attempt, LockHeld,
      BasisIsUsedUp
<1>10. ASSUME NEW c \in Controller, SubmitInvalid(c)
      PROVE  BasisIsUsedUp'
  BY <1>10 DEF SubmitInvalid, sessionVars, TypeOK, Attempt, LockHeld,
      BasisIsUsedUp
<1>11. ASSUME NEW c \in Controller, CheckLocked(c)
      PROVE  BasisIsUsedUp'
  BY <1>11 DEF CheckLocked, Goto, sessionVars, TypeOK, Attempt, LockHeld,
      BasisIsUsedUp
<1>12. ASSUME NEW c \in Controller, CheckAccepts(c)
      PROVE  BasisIsUsedUp'
  BY <1>12 DEF CheckAccepts, Unchanged, Advance, Goto, sessionVars, TypeOK,
      Attempt, LockHeld, BasisIsUsedUp
<1>13. ASSUME NEW c \in Controller, CheckRefuses(c)
      PROVE  BasisIsUsedUp'
  BY <1>13 DEF CheckRefuses, Goto, sessionVars, TypeOK, Attempt, LockHeld,
      BasisIsUsedUp
<1>14. ASSUME NEW t \in Typist, Type(t)
      PROVE  BasisIsUsedUp'
  BY <1>14 DEF Type, Advance, Goto, sessionVars, TypeOK, Attempt, LockHeld,
      BasisIsUsedUp
<1>15. ASSUME NEW w \in Writer, NEW n \in 1..Size, WriteSome(w, n)
      PROVE  BasisIsUsedUp'
  BY <1>15 DEF WriteSome, sessionVars, TypeOK, Attempt, LockHeld,
      BasisIsUsedUp
<1>16. ASSUME NEW w \in Writer, WriteDone(w)
      PROVE  BasisIsUsedUp'
  BY <1>16 DEF WriteDone, Release, Answer, Goto, sessionVars, TypeOK,
      Attempt, LockHeld, BasisIsUsedUp
<1>17. ASSUME NEW w \in Writer, GiveUp(w)
      PROVE  BasisIsUsedUp'
  BY <1>17 DEF GiveUp, Release, Answer, Goto, sessionVars, TypeOK, Attempt,
      LockHeld, BasisIsUsedUp
<1>18. CASE UNCHANGED vars
  BY <1>18 DEF vars, TypeOK, Attempt, LockHeld, BasisIsUsedUp
<1> QED
  BY <1>1, <1>2, <1>3, <1>4, <1>5, <1>6, <1>7, <1>8, <1>9, <1>10, <1>11,
      <1>12, <1>13, <1>14, <1>15, <1>16, <1>17, <1>18 DEF Next

\* Bytes are those of the inputs let through so far.
LEMMA ByteStep == IndInv /\ [Next]_vars => (lastByte <= inputRev)'
<1> SUFFICES ASSUME IndInv, [Next]_vars PROVE (lastByte <= inputRev)'
  OBVIOUS
<1> USE ControlAssumption DEF IndInv
<1>1. CASE Feed
  BY <1>1 DEF Feed, inputVars, TypeOK, Writer, LockHeld
<1>2. CASE Fed
  BY <1>2 DEF Fed, Changed, inputVars, TypeOK, Writer, LockHeld
<1>3. CASE Foreground
  BY <1>3 DEF Foreground, inputVars, TypeOK, Writer, LockHeld
<1>4. CASE Exited
  BY <1>4 DEF Exited, inputVars, TypeOK, Writer, LockHeld
<1>5. CASE ReapChanged
  BY <1>5 DEF ReapChanged, Changed, inputVars, TypeOK, Writer, LockHeld
<1>6. CASE ReapRemove
  BY <1>6 DEF ReapRemove, inputVars, TypeOK, Writer, LockHeld
<1>7. ASSUME NEW c \in Controller, InspectText(c)
      PROVE  (lastByte <= inputRev)'
  BY <1>7 DEF InspectText, SnapshotText, Goto, Listed, First, sessionVars,
      inputVars, TypeOK, Writer, LockHeld
<1>8. ASSUME NEW c \in Controller, InspectRest(c)
      PROVE  (lastByte <= inputRev)'
  BY <1>8 DEF InspectRest, SnapshotRest, Goto, sessionVars, inputVars,
      TypeOK, Writer, LockHeld
<1>9. ASSUME NEW c \in Controller, Submit(c)
      PROVE  (lastByte <= inputRev)'
  BY <1>9 DEF Submit, Goto, sessionVars, TypeOK, Writer, LockHeld
<1>10. ASSUME NEW c \in Controller, SubmitInvalid(c)
      PROVE  (lastByte <= inputRev)'
  BY <1>10 DEF SubmitInvalid, sessionVars, TypeOK, Writer, LockHeld
<1>11. ASSUME NEW c \in Controller, CheckLocked(c)
      PROVE  (lastByte <= inputRev)'
  BY <1>11 DEF CheckLocked, Goto, sessionVars, TypeOK, Writer, LockHeld
<1>12. ASSUME NEW c \in Controller, CheckAccepts(c)
      PROVE  (lastByte <= inputRev)'
  BY <1>12 DEF CheckAccepts, Unchanged, Advance, Goto, sessionVars, TypeOK,
      Writer, LockHeld
<1>13. ASSUME NEW c \in Controller, CheckRefuses(c)
      PROVE  (lastByte <= inputRev)'
  BY <1>13 DEF CheckRefuses, Goto, sessionVars, TypeOK, Writer, LockHeld
<1>14. ASSUME NEW t \in Typist, Type(t)
      PROVE  (lastByte <= inputRev)'
  BY <1>14 DEF Type, Advance, Goto, sessionVars, TypeOK, Writer, LockHeld
<1>15. ASSUME NEW w \in Writer, NEW n \in 1..Size, WriteSome(w, n)
      PROVE  (lastByte <= inputRev)'
  BY <1>15 DEF WriteSome, sessionVars, TypeOK, Writer, LockHeld
<1>16. ASSUME NEW w \in Writer, WriteDone(w)
      PROVE  (lastByte <= inputRev)'
  BY <1>16 DEF WriteDone, Release, Answer, Goto, sessionVars, TypeOK, Writer,
      LockHeld
<1>17. ASSUME NEW w \in Writer, GiveUp(w)
      PROVE  (lastByte <= inputRev)'
  BY <1>17 DEF GiveUp, Release, Answer, Goto, sessionVars, TypeOK, Writer,
      LockHeld
<1>18. CASE UNCHANGED vars
  BY <1>18 DEF vars, TypeOK, Writer, LockHeld
<1> QED
  BY <1>1, <1>2, <1>3, <1>4, <1>5, <1>6, <1>7, <1>8, <1>9, <1>10, <1>11,
      <1>12, <1>13, <1>14, <1>15, <1>16, <1>17, <1>18 DEF Next

\* What is let through was aimed at the screen there is.
LEMMA SeenStep == IndInv /\ [Next]_vars => AppliedToSeen'
<1> SUFFICES ASSUME IndInv, [Next]_vars PROVE AppliedToSeen'
  OBVIOUS
<1> USE ControlAssumption DEF IndInv
<1>1. CASE Feed
  BY <1>1 DEF Feed, inputVars, TypeOK, Attempt, Screen, Snapshot,
      RevisionCounts, SnapshotsFit, AppliedToSeen
<1>2. CASE Fed
  BY <1>2 DEF Fed, Changed, inputVars, TypeOK, Attempt, Screen, Snapshot,
      RevisionCounts, SnapshotsFit, AppliedToSeen
<1>3. CASE Foreground
  BY <1>3 DEF Foreground, inputVars, TypeOK, Attempt, Screen, Snapshot,
      RevisionCounts, SnapshotsFit, AppliedToSeen
<1>4. CASE Exited
  BY <1>4 DEF Exited, inputVars, TypeOK, Attempt, Screen, Snapshot,
      RevisionCounts, SnapshotsFit, AppliedToSeen
<1>5. CASE ReapChanged
  BY <1>5 DEF ReapChanged, Changed, inputVars, TypeOK, Attempt, Screen,
      Snapshot, RevisionCounts, SnapshotsFit, AppliedToSeen
<1>6. CASE ReapRemove
  BY <1>6 DEF ReapRemove, inputVars, TypeOK, Attempt, Screen, Snapshot,
      RevisionCounts, SnapshotsFit, AppliedToSeen
<1>7. ASSUME NEW c \in Controller, InspectText(c)
      PROVE  AppliedToSeen'
  BY <1>7 DEF InspectText, SnapshotText, Goto, Listed, First, sessionVars,
      inputVars, TypeOK, Attempt, Screen, Snapshot, RevisionCounts,
      SnapshotsFit, AppliedToSeen
<1>8. ASSUME NEW c \in Controller, InspectRest(c)
      PROVE  AppliedToSeen'
  BY <1>8 DEF InspectRest, SnapshotRest, Goto, sessionVars, inputVars,
      TypeOK, Attempt, Screen, Snapshot, RevisionCounts, SnapshotsFit,
      AppliedToSeen
<1>9. ASSUME NEW c \in Controller, Submit(c)
      PROVE  AppliedToSeen'
  BY <1>9 DEF Submit, Goto, sessionVars, TypeOK, Attempt, Screen, Snapshot,
      RevisionCounts, SnapshotsFit, AppliedToSeen
<1>10. ASSUME NEW c \in Controller, SubmitInvalid(c)
      PROVE  AppliedToSeen'
  BY <1>10 DEF SubmitInvalid, sessionVars, TypeOK, Attempt, Screen, Snapshot,
      RevisionCounts, SnapshotsFit, AppliedToSeen
<1>11. ASSUME NEW c \in Controller, CheckLocked(c)
      PROVE  AppliedToSeen'
  BY <1>11 DEF CheckLocked, Goto, sessionVars, TypeOK, Attempt, Screen,
      Snapshot, RevisionCounts, SnapshotsFit, AppliedToSeen
<1>12. ASSUME NEW c \in Controller, CheckAccepts(c)
      PROVE  AppliedToSeen'
  <2>1. \/ snap[c].text = screen
        \/ terminal = Feeding /\ screen = snap[c].text + 1
    BY <1>12 DEF CheckAccepts, Unchanged, TypeOK, Screen, Snapshot,
       RevisionCounts, SnapshotsFit
  <2>2. inputRev + 1 \in Attempt
    BY <1>12 DEF CheckAccepts, Advance, Attempt, TypeOK
  <2>3. basis' = [basis EXCEPT ![inputRev + 1] =
                    [generation |-> snap[c].generation,
                     input |-> snap[c].input, text |-> snap[c].text,
                     screen |-> screen, feeding |-> terminal = Feeding]]
    BY <1>12 DEF CheckAccepts
  <2>4. \A a \in Attempt : a # inputRev + 1 => basis'[a] = basis[a]
    BY <2>2, <2>3 DEF TypeOK
  <2>5. /\ basis'[inputRev + 1].text = snap[c].text
        /\ basis'[inputRev + 1].screen = screen
        /\ basis'[inputRev + 1].feeding <=> terminal = Feeding
    BY <2>2, <2>3 DEF TypeOK
  <2> QED BY <2>1, <2>4, <2>5 DEF AppliedToSeen
<1>13. ASSUME NEW c \in Controller, CheckRefuses(c)
      PROVE  AppliedToSeen'
  BY <1>13 DEF CheckRefuses, Goto, sessionVars, TypeOK, Attempt, Screen,
      Snapshot, RevisionCounts, SnapshotsFit, AppliedToSeen
<1>14. ASSUME NEW t \in Typist, Type(t)
      PROVE  AppliedToSeen'
  BY <1>14 DEF Type, Advance, Goto, sessionVars, TypeOK, Attempt, Screen,
      Snapshot, RevisionCounts, SnapshotsFit, AppliedToSeen
<1>15. ASSUME NEW w \in Writer, NEW n \in 1..Size, WriteSome(w, n)
      PROVE  AppliedToSeen'
  BY <1>15 DEF WriteSome, sessionVars, TypeOK, Attempt, Screen, Snapshot,
      RevisionCounts, SnapshotsFit, AppliedToSeen
<1>16. ASSUME NEW w \in Writer, WriteDone(w)
      PROVE  AppliedToSeen'
  BY <1>16 DEF WriteDone, Release, Answer, Goto, sessionVars, TypeOK,
      Attempt, Screen, Snapshot, RevisionCounts, SnapshotsFit, AppliedToSeen
<1>17. ASSUME NEW w \in Writer, GiveUp(w)
      PROVE  AppliedToSeen'
  BY <1>17 DEF GiveUp, Release, Answer, Goto, sessionVars, TypeOK, Attempt,
      Screen, Snapshot, RevisionCounts, SnapshotsFit, AppliedToSeen
<1>18. CASE UNCHANGED vars
  BY <1>18 DEF vars, TypeOK, Attempt, Screen, Snapshot, RevisionCounts,
      SnapshotsFit, AppliedToSeen
<1> QED
  BY <1>1, <1>2, <1>3, <1>4, <1>5, <1>6, <1>7, <1>8, <1>9, <1>10, <1>11,
      <1>12, <1>13, <1>14, <1>15, <1>16, <1>17, <1>18 DEF Next

\* Replies stay true.
LEMMA ReplyStep == IndInv /\ [Next]_vars => ReplyTruthful'
<1> SUFFICES ASSUME IndInv, [Next]_vars PROVE ReplyTruthful'
  OBVIOUS
<1> USE ControlAssumption DEF IndInv
<1>1. CASE Feed
  BY <1>1 DEF Feed, inputVars, TypeOK, Writer, Attempt, LockHeld, Unanswered,
      ReplyTruthful
<1>2. CASE Fed
  BY <1>2 DEF Fed, Changed, inputVars, TypeOK, Writer, Attempt, LockHeld,
      Unanswered, ReplyTruthful
<1>3. CASE Foreground
  BY <1>3 DEF Foreground, inputVars, TypeOK, Writer, Attempt, LockHeld,
      Unanswered, ReplyTruthful
<1>4. CASE Exited
  BY <1>4 DEF Exited, inputVars, TypeOK, Writer, Attempt, LockHeld,
      Unanswered, ReplyTruthful
<1>5. CASE ReapChanged
  BY <1>5 DEF ReapChanged, Changed, inputVars, TypeOK, Writer, Attempt,
      LockHeld, Unanswered, ReplyTruthful
<1>6. CASE ReapRemove
  BY <1>6 DEF ReapRemove, inputVars, TypeOK, Writer, Attempt, LockHeld,
      Unanswered, ReplyTruthful
<1>7. ASSUME NEW c \in Controller, InspectText(c)
      PROVE  ReplyTruthful'
  BY <1>7 DEF InspectText, SnapshotText, Goto, Listed, First, sessionVars,
      inputVars, TypeOK, Writer, Attempt, LockHeld, Unanswered, ReplyTruthful
<1>8. ASSUME NEW c \in Controller, InspectRest(c)
      PROVE  ReplyTruthful'
  BY <1>8 DEF InspectRest, SnapshotRest, Goto, sessionVars, inputVars,
      TypeOK, Writer, Attempt, LockHeld, Unanswered, ReplyTruthful
<1>9. ASSUME NEW c \in Controller, Submit(c)
      PROVE  ReplyTruthful'
  BY <1>9 DEF Submit, Goto, sessionVars, TypeOK, Writer, Attempt, LockHeld,
      Unanswered, ReplyTruthful
<1>10. ASSUME NEW c \in Controller, SubmitInvalid(c)
      PROVE  ReplyTruthful'
  BY <1>10 DEF SubmitInvalid, sessionVars, TypeOK, Writer, Attempt, LockHeld,
      Unanswered, ReplyTruthful
<1>11. ASSUME NEW c \in Controller, CheckLocked(c)
      PROVE  ReplyTruthful'
  BY <1>11 DEF CheckLocked, Goto, sessionVars, TypeOK, Writer, Attempt,
      LockHeld, Unanswered, ReplyTruthful
<1>12. ASSUME NEW c \in Controller, CheckAccepts(c)
      PROVE  ReplyTruthful'
  BY <1>12 DEF CheckAccepts, Unchanged, Advance, Goto, sessionVars, TypeOK,
      Writer, Attempt, LockHeld, Unanswered, ReplyTruthful
<1>13. ASSUME NEW c \in Controller, CheckRefuses(c)
      PROVE  ReplyTruthful'
  BY <1>13 DEF CheckRefuses, Goto, sessionVars, TypeOK, Writer, Attempt,
      LockHeld, Unanswered, ReplyTruthful
<1>14. ASSUME NEW t \in Typist, Type(t)
      PROVE  ReplyTruthful'
  BY <1>14 DEF Type, Advance, Goto, sessionVars, TypeOK, Writer, Attempt,
      LockHeld, Unanswered, ReplyTruthful
<1>15. ASSUME NEW w \in Writer, NEW n \in 1..Size, WriteSome(w, n)
      PROVE  ReplyTruthful'
  BY <1>15 DEF WriteSome, sessionVars, TypeOK, Writer, Attempt, LockHeld,
      Unanswered, ReplyTruthful
<1>16. ASSUME NEW w \in Writer, WriteDone(w)
      PROVE  ReplyTruthful'
  BY <1>16 DEF WriteDone, Release, Answer, Goto, sessionVars, TypeOK, Writer,
      Attempt, LockHeld, Unanswered, ReplyTruthful
<1>17. ASSUME NEW w \in Writer, GiveUp(w)
      PROVE  ReplyTruthful'
  BY <1>17 DEF GiveUp, Release, Answer, Goto, sessionVars, TypeOK, Writer,
      Attempt, LockHeld, Unanswered, ReplyTruthful
<1>18. CASE UNCHANGED vars
  BY <1>18 DEF vars, TypeOK, Writer, Attempt, LockHeld, Unanswered,
      ReplyTruthful
<1> QED
  BY <1>1, <1>2, <1>3, <1>4, <1>5, <1>6, <1>7, <1>8, <1>9, <1>10, <1>11,
      <1>12, <1>13, <1>14, <1>15, <1>16, <1>17, <1>18 DEF Next

\* A terminal that has just been started satisfies all of it.
LEMMA IndInit == Init => IndInv
<1> SUFFICES ASSUME Init PROVE IndInv
  OBVIOUS
<1> USE ControlAssumption
<1>1. PICK g \in Group : snap = [i \in Controller |-> Leftover(g)]
  BY DEF Init
<1>2. Leftover(g) \in Snapshot /\ Leftover(g).generation = "old"
  BY SnapshotTypes
<1>3. snap \in [Controller -> Snapshot]
  BY <1>1, <1>2
<1>4. TypeOK
  <2>1. sent \in [Attempt -> 0..Size] /\ basis \in [Attempt -> Basis \cup {None}]
    BY DEF Init
  <2>2. /\ pc \in [Writer -> {"idle", "snap", "wait", "check", "write"}]
        /\ mine \in [Writer -> 0..MaxInputs]
    BY SnapshotTypes DEF Init
  <2>3. /\ seenFg \in [Controller -> Group \cup {None}]
        /\ reply \in [Controller -> {"none", "written", "refused", "uncertain"}]
    BY DEF Init
  <2>4. /\ screen \in Screen /\ revision \in Screen
        /\ inputRev \in 0..MaxInputs /\ lastByte \in 0..MaxInputs
    BY SnapshotTypes DEF Init
  <2> QED BY <1>3, <2>1, <2>2, <2>3, <2>4 DEF Init, TypeOK
<1>5. SnapshotsFit
  BY <1>1, <1>2 DEF SnapshotsFit
<1>6. RevisionCounts
  BY DEF Init, RevisionCounts
<1>7. LockHeld /\ Unanswered /\ ReplyTruthful
  BY DEF Init, LockHeld, Unanswered, ReplyTruthful, Writer
<1>8. BasisIsUsedUp /\ AppliedToSeen /\ lastByte <= inputRev
  BY DEF Init, BasisIsUsedUp, AppliedToSeen
<1> QED BY <1>4, <1>5, <1>6, <1>7, <1>8 DEF IndInv

\* Revisions, locks, snapshots, answers and what was let through fit together
\* in every state (control.rs).
THEOREM Inductive == Spec => []IndInv
<1>1. IndInv /\ [Next]_vars => IndInv'
  BY TypeStep, RevisionStep, SnapshotStep, LockStep, UnansweredStep,
     BasisStep, ByteStep, SeenStep, ReplyStep DEF IndInv
<1> QED BY IndInit, <1>1, PTL DEF Spec

\* Whatever is retried, no input revision lets two checked inputs through.
THEOREM InputIsAppliedOnce == Spec => []AppliedOnce
<1>1. IndInv => AppliedOnce
  BY DEF IndInv, BasisIsUsedUp, AppliedOnce
<1> QED BY <1>1, Inductive, PTL

\* A checked input meets the screen its caller saw, but for the chunk being
\* fed at that moment.
THEOREM InputMeetsSeenScreen == Spec => []AppliedToSeen
<1>1. IndInv => AppliedToSeen
  BY DEF IndInv
<1> QED BY <1>1, Inductive, PTL

\* A reply of checked_input says what became of the input.
THEOREM RepliesAreTrue == Spec => []Consistent
<1>1. IndInv => Consistent
  BY DEF IndInv, Consistent
<1> QED BY <1>1, Inductive, PTL

\* Two inputs never mix their bytes on the pty: input_lock outlives partial
\* writes.
THEOREM InputsDoNotMix == Spec => NoInterleaving
<1>1. IndInv /\ [Next]_vars => [lastByte' >= lastByte]_vars
  <2> SUFFICES ASSUME IndInv, Next PROVE lastByte' >= lastByte
    BY DEF IndInv
  <2>1. lastByte \in Nat /\ inputRev \in Nat /\ lastByte <= inputRev
    BY ControlAssumption DEF IndInv, TypeOK
  <2>2. ASSUME NEW w \in Writer, NEW n \in 1..Size, WriteSome(w, n)
        PROVE  lastByte' = inputRev
    BY <2>2 DEF WriteSome, IndInv, LockHeld
  <2>3. lastByte' = lastByte \/ lastByte' = inputRev
    BY <2>2 DEF Next, Feed, Fed, Foreground, Exited, ReapChanged, ReapRemove,
       InspectText, SnapshotText, InspectRest, SnapshotRest, Submit,
       SubmitInvalid, CheckLocked, CheckAccepts, CheckRefuses, Type,
       WriteDone, GiveUp, inputVars
  <2> QED BY <2>1, <2>3
<1> QED BY <1>1, Inductive, PTL DEF Spec, NoInterleaving
=============================================================================
