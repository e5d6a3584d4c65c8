--------------------------- MODULE AudioMediaProofs ---------------------------
(***************************************************************************)
(* SoundIsFresh and RouteIsTold of module AudioMedia for any devices, any  *)
(* number of starts and of datagrams, and any capacity of the event        *)
(* channel.                                                                *)
(***************************************************************************)
EXTENDS AudioMedia, SequenceTheorems, TLAPS

\* A place in the order of packets, and what the bridge sends the helper.
AnyMark == [epoch : Nat, place : Int]
Letter  == State \cup Packet

Typed ==
    /\ st \in State
    /\ pos \in Nat
    /\ ctl \in Seq(State)
    /\ down \subseteq Packet
    /\ up \subseteq Sample
    /\ bpos \in Nat
    /\ passed \in AnyMark
    /\ held \in Packet \cup {Nothing}
    /\ lane \in Seq(Letter)
    /\ frames \in Seq(Frame)
    /\ hst \in State
    /\ played \in AnyMark

\* The Mac is never ahead of the host: whatever State or sample is on its way
\* belongs to the present recording or to an earlier one, and a sample was
\* captured no earlier than the recording it is labelled with began.
Behind ==
    /\ hst.capture_epoch <= st.capture_epoch
    /\ \A i \in 1..Len(ctl) : ctl[i].capture_epoch <= st.capture_epoch
    /\ \A i \in 1..Len(lane) :
          IsState(lane[i]) => lane[i].capture_epoch <= st.capture_epoch
    /\ \A i \in 1..Len(frames) :
          /\ frames[i].epoch <= frames[i].born
          /\ frames[i].born <= st.capture_epoch
    /\ \A p \in up : p.epoch <= p.born /\ p.born <= st.capture_epoch

\* The packets in the lane are in the order in which they were made, between
\* the one played last and the one let through last, which may still wait for
\* the writer and is then later than all of them.
InOrder ==
    /\ ~Later(played, passed)
    /\ \A i \in 1..Len(lane) :
          ~IsState(lane[i]) => Later(lane[i], played) /\ ~Later(lane[i], passed)
    /\ \A i, j \in 1..Len(lane) :
          i < j /\ ~IsState(lane[i]) /\ ~IsState(lane[j])
            => Later(lane[j], lane[i])
    /\ held # Nothing =>
          /\ held = passed
          /\ Later(held, played)
          /\ \A i \in 1..Len(lane) : ~IsState(lane[i]) => Later(held, lane[i])

\* The inductive invariant.
IndInv == Typed /\ Behind /\ InOrder

-----------------------------------------------------------------------------
(* Queues *)

\* What is left when the first element is taken from a queue.
LEMMA Popped ==
  ASSUME NEW S, NEW s \in Seq(S), s # <<>>
  PROVE  /\ 1 \in 1..Len(s)
         /\ Head(s) = s[1]
         /\ Head(s) \in S
         /\ Tail(s) \in Seq(S)
         /\ Tail(s) # s
         /\ \A i \in 1..Len(Tail(s)) : Tail(s)[i] = s[i + 1] /\ i + 1 \in 1..Len(s)
<1>1. Len(s) \in Nat \ {0}
  BY EmptySeq
<1>2. 1 \in 1..Len(s)
  BY <1>1
<1>3. Head(s) = s[1] /\ s[1] \in S
  BY <1>2
<1>4. Tail(s) \in Seq(S) /\ Len(Tail(s)) = Len(s) - 1
  BY HeadTailProperties
<1>5. \A i \in 1..Len(Tail(s)) : Tail(s)[i] = s[i + 1] /\ i + 1 \in 1..Len(s)
  BY <1>1, <1>4
<1>6. Len(Tail(s)) # Len(s)
  <2>1. \A n \in Nat : n - 1 # n
    OBVIOUS
  <2> QED BY <1>1, <1>4, <2>1, Zenon
<1> QED BY <1>2, <1>3, <1>4, <1>5, <1>6

\* What is there once an element is queued.
LEMMA Queued ==
  ASSUME NEW S, NEW s \in Seq(S), NEW e \in S
  PROVE  /\ Append(s, e) \in Seq(S)
         /\ Len(s) \in Nat
         /\ Len(Append(s, e)) = Len(s) + 1
         /\ Append(s, e)[Len(s) + 1] = e
         /\ \A i \in 1..Len(s) : Append(s, e)[i] = s[i]
         /\ s # <<>> => Append(s, e) # Tail(s)
<1>1. /\ Append(s, e) \in Seq(S)
      /\ Len(s) \in Nat
      /\ Len(Append(s, e)) = Len(s) + 1
      /\ Append(s, e)[Len(s) + 1] = e
      /\ \A i \in 1..Len(s) : Append(s, e)[i] = s[i]
  OBVIOUS
<1>2. ASSUME s # <<>>
      PROVE  Len(Tail(s)) = Len(s) - 1
  BY <1>2
<1>3. ASSUME s # <<>>
      PROVE  Append(s, e) # Tail(s)
  BY <1>1, <1>2, <1>3
<1> QED BY <1>1, <1>3

\* A State can be told from a packet.
LEMMA Kinds ==
  /\ \A m \in State : IsState(m)
  /\ \A m \in AnyMark : ~IsState(m)
BY DEF State, AnyMark, IsState, Epoch, Place

\* A packet is a place in the order of Sequence::accept.
LEMMA Marks == Packet \subseteq AnyMark /\ Nothing \in AnyMark
BY DEF Packet, AnyMark, Nothing, Epoch, Place

-----------------------------------------------------------------------------
(* Steps *)

\* What the invariant is about.
core == <<st, pos, ctl, down, up, bpos, passed, held, lane, frames, hst, played>>

\* Devices, and the recorders that are given a packet, leave it alone.
LEMMA Quiet ==
  ASSUME \/ \E d \in Device : \/ Start(d) \/ Stop(d) \/ Tell(d) \/ Close(d)
                              \/ LastOff(d) \/ Play(d)
         \/ \E p \in up : Hear(p)
         \/ UNCHANGED vars
  PROVE  UNCHANGED core
BY DEF Start, Stop, Tell, Close, LastOff, Play, Hear, vars, core, deviceVars,
       routeVars, bridgeVars, helperVars

\* The host's State moves on to a later one, and the Mac is told.
LEMMA Followed ==
  ASSUME Typed, HandleRunning
  PROVE  /\ st' \in State
         /\ st.capture_epoch <= st'.capture_epoch
         /\ pos' \in Nat
         /\ ctl' = ctl \/ ctl' = Append(ctl, st')
         /\ UNCHANGED <<down, up, bpos, passed, held, lane, frames, hst, played>>
<1>1. PICK c \in BOOLEAN, p \in BOOLEAN : st' = Follow(st, c, p)
  BY DEF HandleRunning
<1>2. st'.capture_epoch = st.capture_epoch + (IF c /\ ~st.capture THEN 1 ELSE 0)
  BY <1>1 DEF Follow
<1>3. st'.playback_epoch = st.playback_epoch + (IF p /\ ~st.playback THEN 1 ELSE 0)
  BY <1>1 DEF Follow
<1>4. st.capture_epoch \in Nat /\ st.playback_epoch \in Nat
  BY DEF Typed, State, Epoch, Place
<1>5. st'.capture_epoch \in Nat /\ st.capture_epoch <= st'.capture_epoch
  BY <1>2, <1>4
<1>6. st'.playback_epoch \in Nat
  BY <1>3, <1>4
<1>7. st' \in State
  BY <1>1, <1>5, <1>6 DEF Follow, State, Epoch, Place
<1>8. pos' = 0 \/ pos' = pos
  BY DEF HandleRunning
<1>9. ctl' = ctl \/ ctl' = Append(ctl, st')
  BY DEF HandleRunning
<1>10. UNCHANGED <<down, up, bpos, passed, held, lane, frames, hst, played>>
  BY DEF HandleRunning, bridgeVars, helperVars
<1> QED BY <1>5, <1>7, <1>8, <1>9, <1>10 DEF Typed

\* Every step keeps the types.
LEMMA TypedStep == Typed /\ [Next]_vars => Typed'
<1> SUFFICES ASSUME Typed, [Next]_vars PROVE Typed'
  OBVIOUS
<1>1. CASE UNCHANGED core
  BY <1>1 DEF core, Typed
<1>2. CASE HandleRunning
  <2>1. Append(ctl, st') \in Seq(State)
    BY <1>2, Followed, Queued DEF Typed
  <2> QED BY <1>2, <2>1, Followed DEF Typed
<1>3. CASE HandlePlayback
  <2>1. [epoch |-> st.playback_epoch, place |-> pos] \in Packet
    BY DEF Typed, State, Packet, Epoch, Place
  <2>2. pos' \in Nat /\ down' \subseteq Packet
    BY <1>3, <2>1 DEF HandlePlayback, Typed
  <2> QED BY <1>3, <2>2 DEF HandlePlayback, bridgeVars, helperVars, Typed
<1>4. CASE Control
  <2>1. Head(ctl) \in State /\ Tail(ctl) \in Seq(State)
    BY <1>4, Popped DEF Control, Typed
  <2>2. Head(ctl) \in Letter
    BY <2>1 DEF Letter
  <2>3. Append(lane, Head(ctl)) \in Seq(Letter)
    BY <2>2, Queued DEF Typed
  <2> QED BY <1>4, <2>1, <2>3 DEF Control, routeVars, helperVars, Typed
<1>5. CASE Upload
  <2>1. Head(frames) \in Frame /\ Tail(frames) \in Seq(Frame)
    BY <1>5, Popped DEF Upload, Typed
  <2>2. [epoch |-> Head(frames).epoch, place |-> bpos,
         born |-> Head(frames).born] \in Sample
    BY <2>1 DEF Typed, Frame, Sample, Epoch, Place
  <2>3. up' \subseteq Sample /\ bpos' \in Nat
    BY <1>5, <2>2 DEF Upload, Typed
  <2> QED BY <1>5, <2>1, <2>3 DEF Upload, routeVars, helperVars, Typed
<1>6. ASSUME NEW p \in down, Download(p)
      PROVE  Typed'
  <2>1. p \in Packet /\ p \in AnyMark
    BY Marks DEF Typed
  <2> QED BY <1>6, <2>1 DEF Download, routeVars, helperVars, Typed
<1>10. CASE DownloadWrite
  <2>1. held \in Letter
    BY <1>10 DEF DownloadWrite, Typed, Letter
  <2>2. Append(lane, held) \in Seq(Letter)
    BY <2>1, Queued DEF Typed
  <2> QED BY <1>10, <2>2 DEF DownloadWrite, routeVars, helperVars, Typed
<1>7. CASE OnState
  <2>1. Head(lane) \in Letter /\ Tail(lane) \in Seq(Letter) /\ IsState(Head(lane))
    BY <1>7, Popped DEF OnState, Typed
  <2>2. Head(lane) \in State
    BY <2>1, Kinds, Marks DEF Letter
  <2> QED BY <1>7, <2>1, <2>2 DEF OnState, routeVars, bridgeVars, Typed
<1>8. CASE OnPlayback
  <2>1. Head(lane) \in Letter /\ Tail(lane) \in Seq(Letter) /\ ~IsState(Head(lane))
    BY <1>8, Popped DEF OnPlayback, Typed
  <2>2. Head(lane) \in AnyMark
    BY <2>1, Kinds, Marks DEF Letter
  <2> QED BY <1>8, <2>1, <2>2 DEF OnPlayback, routeVars, bridgeVars, Typed
<1>9. CASE Capture
  <2>1. [epoch |-> hst.capture_epoch, born |-> st.capture_epoch] \in Frame
    BY DEF Typed, State, Frame, Epoch, Place
  <2>2. frames' \in Seq(Frame)
    BY <1>9, <2>1 DEF Capture
  <2> QED BY <1>9, <2>2 DEF Capture, routeVars, bridgeVars, helperVars, Typed
<1> QED
  BY <1>1, <1>2, <1>3, <1>4, <1>5, <1>6, <1>7, <1>8, <1>9, <1>10, Quiet DEF Next

\* No step lets the Mac get ahead of the host.
LEMMA BehindStep == IndInv /\ [Next]_vars => Behind'
<1> SUFFICES ASSUME Typed, Behind, [Next]_vars PROVE Behind'
  BY DEF IndInv
<1>1. CASE UNCHANGED core
  BY <1>1 DEF core, Behind
<1>2. CASE HandleRunning
  <2> DEFINE e == st.capture_epoch
             f == st'.capture_epoch
  <2>1. e \in Nat /\ f \in Nat /\ e <= f
    BY <1>2, Followed DEF Typed, State, Epoch, Place
  <2>2. \A n \in Nat : n <= e => n <= f
    BY <2>1
  <2>3. hst'.capture_epoch <= f
    BY <1>2, <2>2, Followed DEF Behind, Typed, State, Epoch, Place
  <2>4. ASSUME NEW i \in 1..Len(ctl')
        PROVE  ctl'[i].capture_epoch <= f
    <3>1. ASSUME NEW j \in 1..Len(ctl)
          PROVE  ctl[j].capture_epoch <= f
      <4>1. ctl[j] \in State
        BY DEF Typed
      <4>2. ctl[j].capture_epoch \in Nat /\ ctl[j].capture_epoch <= e
        BY <4>1 DEF Behind, State, Epoch, Place
      <4> QED BY <2>2, <4>2
    <3>2. CASE ctl' = ctl
      BY <3>1, <3>2
    <3>3. CASE ctl' = Append(ctl, st')
      <4>1. i \in 1..Len(ctl) \/ i = Len(ctl) + 1
        BY <1>2, <3>3, Followed, Queued DEF Typed
      <4> QED BY <1>2, <2>1, <3>1, <3>3, <4>1, Followed, Queued DEF Typed
    <3> QED BY <1>2, <3>2, <3>3, Followed
  <2>5. ASSUME NEW i \in 1..Len(lane'), IsState(lane'[i])
        PROVE  lane'[i].capture_epoch <= f
    <3>1. lane' = lane
      BY <1>2, Followed
    <3>2. lane[i] \in State
      BY <2>5, <3>1, Kinds, Marks DEF Typed, Letter
    <3> QED BY <2>2, <2>5, <3>1, <3>2 DEF Behind, State, Epoch, Place
  <2>6. ASSUME NEW i \in 1..Len(frames')
        PROVE  frames'[i].epoch <= frames'[i].born /\ frames'[i].born <= f
    <3>1. frames' = frames
      BY <1>2, Followed
    <3>2. frames[i] \in Frame
      BY <3>1 DEF Typed
    <3> QED BY <2>2, <3>1, <3>2 DEF Behind, Frame, Epoch, Place
  <2>7. ASSUME NEW p \in up'
        PROVE  p.epoch <= p.born /\ p.born <= f
    BY <1>2, <2>2, Followed DEF Behind, Typed, Sample, Epoch, Place
  <2> QED BY <2>3, <2>4, <2>5, <2>6, <2>7 DEF Behind
<1>3. CASE HandlePlayback
  BY <1>3 DEF HandlePlayback, helperVars, Behind
<1>4. CASE Control
  <2>1. UNCHANGED <<st, hst, frames, up>>
    BY <1>4 DEF Control, routeVars, helperVars
  <2>2. /\ \A i \in 1..Len(ctl') : ctl'[i] = ctl[i + 1] /\ i + 1 \in 1..Len(ctl)
        /\ Head(ctl) = ctl[1] /\ 1 \in 1..Len(ctl) /\ Head(ctl) \in Letter
    BY <1>4, Popped DEF Control, Typed, Letter
  <2>3. ASSUME NEW i \in 1..Len(lane'), IsState(lane'[i])
        PROVE  lane'[i].capture_epoch <= st.capture_epoch
    <3>1. CASE i \in 1..Len(lane)
      BY <1>4, <2>2, <2>3, <3>1, Queued DEF Control, Typed, Behind
    <3>2. CASE i = Len(lane) + 1
      BY <1>4, <2>2, <3>2, Queued DEF Control, Typed, Behind
    <3> QED BY <1>4, <2>2, <3>1, <3>2, Queued DEF Control, Typed
  <2> QED BY <2>1, <2>2, <2>3 DEF Behind
<1>5. CASE Upload
  <2>1. UNCHANGED <<st, hst, ctl, lane>>
    BY <1>5 DEF Upload, routeVars, helperVars
  <2>2. /\ \A i \in 1..Len(frames') :
              frames'[i] = frames[i + 1] /\ i + 1 \in 1..Len(frames)
        /\ Head(frames) = frames[1] /\ 1 \in 1..Len(frames)
    BY <1>5, Popped DEF Upload, Typed
  <2>3. ASSUME NEW p \in up'
        PROVE  p.epoch <= p.born /\ p.born <= st.capture_epoch
    <3>1. CASE p \in up
      BY <3>1 DEF Behind
    <3>2. CASE p \notin up
      <4>1. p = [epoch |-> Head(frames).epoch, place |-> bpos,
                 born |-> Head(frames).born]
        BY <1>5, <2>3, <3>2 DEF Upload
      <4> QED BY <2>2, <4>1 DEF Behind
    <3> QED BY <3>1, <3>2
  <2> QED BY <2>1, <2>2, <2>3 DEF Behind
<1>6. ASSUME NEW p \in down, Download(p)
      PROVE  Behind'
  BY <1>6 DEF Download, routeVars, helperVars, Behind
<1>10. CASE DownloadWrite
  <2>1. UNCHANGED <<st, hst, ctl, frames, up>> /\ lane' = Append(lane, held)
    BY <1>10 DEF DownloadWrite, routeVars, helperVars
  <2>2. held \in Letter /\ ~IsState(held)
    BY <1>10, Kinds, Marks DEF DownloadWrite, Typed, Letter
  <2>3. ASSUME NEW i \in 1..Len(lane'), IsState(lane'[i])
        PROVE  lane'[i].capture_epoch <= st.capture_epoch
    <3>1. i \in 1..Len(lane)
      BY <2>1, <2>2, <2>3, Queued DEF Typed
    <3> QED BY <2>1, <2>2, <2>3, <3>1, Queued DEF Typed, Behind
  <2> QED BY <2>1, <2>3 DEF Behind
<1>7. CASE OnState
  <2>1. UNCHANGED <<st, ctl, frames, up>> /\ hst' = lane[1] /\ IsState(lane[1])
    BY <1>7, Popped DEF OnState, routeVars, Typed
  <2>2. /\ \A i \in 1..Len(lane') : lane'[i] = lane[i + 1] /\ i + 1 \in 1..Len(lane)
        /\ 1 \in 1..Len(lane)
    BY <1>7, Popped DEF OnState, Typed
  <2> QED BY <2>1, <2>2 DEF Behind
<1>8. CASE OnPlayback
  <2>1. UNCHANGED <<st, hst, ctl, frames, up>>
    BY <1>8 DEF OnPlayback, routeVars
  <2>2. \A i \in 1..Len(lane') : lane'[i] = lane[i + 1] /\ i + 1 \in 1..Len(lane)
    BY <1>8, Popped DEF OnPlayback, Typed
  <2> QED BY <2>1, <2>2 DEF Behind
<1>9. CASE Capture
  <2>1. UNCHANGED <<st, hst, ctl, lane, up>>
    BY <1>9 DEF Capture, routeVars, helperVars
  <2>2. frames' = <<[epoch |-> hst.capture_epoch, born |-> st.capture_epoch]>>
    BY <1>9 DEF Capture
  <2>3. \A i \in 1..Len(frames') :
           frames'[i].epoch = hst.capture_epoch /\ frames'[i].born = st.capture_epoch
    BY <2>2
  <2>4. st.capture_epoch <= st.capture_epoch
    BY DEF Typed, State, Epoch, Place
  <2> QED BY <2>1, <2>3, <2>4 DEF Behind
<1> QED
  BY <1>1, <1>2, <1>3, <1>4, <1>5, <1>6, <1>7, <1>8, <1>9, <1>10, Quiet DEF Next

\* A later packet is later than what came before, and never the same one.
LEMMA LaterOrder ==
  ASSUME NEW p \in AnyMark, NEW q \in AnyMark, NEW r \in AnyMark
  PROVE  /\ Accept(q, p) => Later(p, q)
         /\ Later(p, q) => ~Later(q, p) /\ p # q
         /\ Later(p, q) /\ ~Later(r, q) => Later(p, r)
         /\ ~Later(p, p)
BY DEF AnyMark, Accept, Later

\* Datagrams that come again, late or never leave the lane in order.
LEMMA InOrderStep == IndInv /\ [Next]_vars => InOrder'
<1> SUFFICES ASSUME Typed, InOrder, [Next]_vars PROVE InOrder'
  BY DEF IndInv
<1>a. \A i \in 1..Len(lane) : ~IsState(lane[i]) => lane[i] \in AnyMark
  BY Kinds, Marks DEF Typed, Letter
<1>b. played \in AnyMark /\ passed \in AnyMark
  BY DEF Typed
<1>1. CASE UNCHANGED <<lane, passed, held, played>>
  BY <1>1 DEF InOrder
<1>2. CASE Control
  <2>1. UNCHANGED <<passed, held, played>> /\ lane' = Append(lane, Head(ctl))
    BY <1>2 DEF Control, helperVars
  <2>2. Head(ctl) \in Letter /\ IsState(Head(ctl))
    BY <1>2, Popped, Kinds DEF Control, Typed, Letter
  <2>3. \A i \in 1..Len(lane') : ~IsState(lane'[i]) =>
           i \in 1..Len(lane) /\ lane'[i] = lane[i]
    BY <2>1, <2>2, Queued DEF Typed
  <2> QED BY <2>1, <2>3 DEF InOrder
<1>3. ASSUME NEW p \in down, Download(p)
      PROVE  InOrder'
  <2>1. p \in AnyMark
    BY Marks DEF Typed
  <2>2. /\ lane' = lane /\ passed' = p /\ held' = p /\ played' = played
        /\ Later(p, passed)
    BY <1>3, <1>b, <2>1, LaterOrder DEF Download, helperVars
  <2>3. Later(p, played)
    BY <1>b, <2>1, <2>2, LaterOrder DEF InOrder
  <2>4. \A i \in 1..Len(lane) : ~IsState(lane[i]) => Later(p, lane[i])
    BY <1>a, <1>b, <2>1, <2>2, LaterOrder DEF InOrder
  <2>5. \A i \in 1..Len(lane) : ~IsState(lane[i]) => ~Later(lane[i], p)
    BY <1>a, <2>1, <2>4, LaterOrder
  <2>6. ~Later(played, p)
    BY <1>b, <2>1, <2>3, LaterOrder
  <2> QED BY <2>2, <2>3, <2>4, <2>5, <2>6 DEF InOrder
<1>7. CASE DownloadWrite
  <2>1. held \in Letter /\ held \in AnyMark /\ ~IsState(held)
    BY <1>7, Kinds, Marks DEF DownloadWrite, Typed, Letter
  <2>2. /\ lane' = Append(lane, held) /\ held' = Nothing
        /\ UNCHANGED <<passed, played>> /\ held # Nothing
    BY <1>7 DEF DownloadWrite, helperVars
  <2>3. /\ Len(lane) \in Nat /\ Len(lane') = Len(lane) + 1
        /\ lane'[Len(lane) + 1] = held
        /\ \A i \in 1..Len(lane) : lane'[i] = lane[i]
    BY <2>1, <2>2, Queued DEF Typed
  <2>4. \A i \in 1..Len(lane') : i \in 1..Len(lane) \/ i = Len(lane) + 1
    BY <2>3
  <2>5. held = passed /\ Later(held, played) /\ ~Later(held, passed)
    BY <1>b, <2>2, LaterOrder DEF InOrder
  <2>6. \A i \in 1..Len(lane) : ~IsState(lane[i]) => Later(held, lane[i])
    BY <2>2 DEF InOrder
  <2>7. ASSUME NEW i \in 1..Len(lane'), ~IsState(lane'[i])
        PROVE  Later(lane'[i], played) /\ ~Later(lane'[i], passed)
    BY <2>3, <2>4, <2>5, <2>7 DEF InOrder
  <2>8. ASSUME NEW i \in 1..Len(lane'), NEW j \in 1..Len(lane'), i < j,
               ~IsState(lane'[i]), ~IsState(lane'[j])
        PROVE  Later(lane'[j], lane'[i])
    <3>1. i \in 1..Len(lane)
      BY <2>3, <2>8
    <3> QED BY <2>3, <2>4, <2>6, <2>8, <3>1 DEF InOrder
  <2> QED BY <2>2, <2>7, <2>8 DEF InOrder
<1>4. ASSUME OnState \/ OnPlayback
      PROVE  InOrder'
  <2>1. /\ lane # <<>> /\ lane' = Tail(lane) /\ UNCHANGED <<passed, held>>
        /\ played' = played \/ (played' = lane[1] /\ ~IsState(lane[1]))
    BY <1>4, Popped DEF OnState, OnPlayback, bridgeVars, Typed
  <2>2. /\ 1 \in 1..Len(lane)
        /\ \A i \in 1..Len(lane') :
              lane'[i] = lane[i + 1] /\ i + 1 \in 1..Len(lane) /\ 1 < i + 1
    BY <2>1, Popped DEF Typed
  <2>3. \A i, j \in 1..Len(lane') :
           i < j /\ ~IsState(lane'[i]) /\ ~IsState(lane'[j])
             => Later(lane'[j], lane'[i])
    <3> SUFFICES ASSUME NEW i \in 1..Len(lane'), NEW j \in 1..Len(lane'), i < j,
                        ~IsState(lane'[i]), ~IsState(lane'[j])
                 PROVE  Later(lane'[j], lane'[i])
      OBVIOUS
    <3>1. i + 1 < j + 1
      OBVIOUS
    <3> QED BY <2>2, <3>1 DEF InOrder
  <2>4. \A i \in 1..Len(lane') : ~IsState(lane'[i]) =>
           Later(lane'[i], played') /\ ~Later(lane'[i], passed)
    BY <2>1, <2>2 DEF InOrder
  <2>5. ~Later(played', passed)
    BY <2>1, <2>2 DEF InOrder
  <2>6. ASSUME held # Nothing
        PROVE  /\ held = passed /\ Later(held, played')
               /\ \A i \in 1..Len(lane') : ~IsState(lane'[i]) => Later(held, lane'[i])
    BY <2>1, <2>2, <2>6 DEF InOrder
  <2> QED BY <2>1, <2>3, <2>4, <2>5, <2>6 DEF InOrder
<1>5. CASE HandleRunning \/ HandlePlayback \/ Upload \/ Capture
  BY <1>1, <1>5
  DEF HandleRunning, HandlePlayback, Upload, Capture, bridgeVars, helperVars
<1>6. CASE UNCHANGED core
  BY <1>1, <1>6 DEF core
<1> QED BY <1>2, <1>3, <1>4, <1>5, <1>6, <1>7, Quiet DEF Next

\* A route that has just been opened satisfies all of it.
LEMMA IndInit == Init => IndInv
<1> SUFFICES ASSUME Init PROVE IndInv
  OBVIOUS
<1>1. Off \in State
  BY DEF Off, State, Epoch, Place
<1>2. Typed
  BY <1>1, Marks DEF Init, Typed
<1>3. Behind
  BY DEF Init, Behind, Off
<1>4. InOrder
  BY Marks, LaterOrder DEF Init, InOrder
<1> QED BY <1>2, <1>3, <1>4 DEF IndInv

\* Every behaviour of an audio route satisfies the inductive invariant.
THEOREM Inductive == Spec => []IndInv
<1>1. IndInv /\ [Next]_vars => IndInv'
  BY TypedStep, BehindStep, InOrderStep DEF IndInv
<1> QED BY <1>1, IndInit, PTL DEF Spec

-----------------------------------------------------------------------------
(* What is heard *)

\* Only the helper takes from its lane, and what it plays is new.
LEMMA Plays ==
  ASSUME IndInv, [Next]_vars, lane # <<>>, lane' = Tail(lane),
         played' = Head(lane)
  PROVE  Later(played', played)
<1>1. Head(lane) = lane[1] /\ 1 \in 1..Len(lane) /\ Tail(lane) # lane
  BY Popped DEF IndInv, Typed
<1>2. CASE OnPlayback
  BY <1>1, <1>2 DEF OnPlayback, IndInv, InOrder
<1>3. CASE OnState
  <2>1. played' = played /\ IsState(Head(lane))
    BY <1>3 DEF OnState
  <2> QED BY <2>1, Kinds DEF IndInv, Typed
<1>4. ASSUME NEW p \in down, Download(p)
      PROVE  FALSE
  BY <1>1, <1>4 DEF Download
<1>8. CASE DownloadWrite
  <2>1. held \in Letter
    BY <1>8 DEF DownloadWrite, IndInv, Typed, Letter
  <2> QED BY <1>8, <2>1, Queued DEF DownloadWrite, IndInv, Typed
<1>5. CASE Control
  <2>1. Head(ctl) \in Letter
    BY <1>5, Popped DEF Control, IndInv, Typed, Letter
  <2> QED BY <1>5, <2>1, Queued DEF Control, IndInv, Typed
<1>6. CASE HandleRunning \/ HandlePlayback \/ Upload \/ Capture
  BY <1>1, <1>6 DEF HandleRunning, HandlePlayback, Upload, Capture
<1>7. CASE UNCHANGED core
  BY <1>1, <1>7 DEF core
<1> QED BY <1>2, <1>3, <1>4, <1>5, <1>6, <1>7, <1>8, Quiet DEF Next

\* A recorder is given a packet of the present recording only.
LEMMA Hears ==
  ASSUME IndInv, [Next]_vars, heard' # heard
  PROVE  heard'.born = st.capture_epoch
<1>1. PICK p \in up : Hear(p)
  BY DEF Next, vars, Start, Stop, Tell, Close, LastOff, Play, HandleRunning,
         HandlePlayback, Control, Upload, Download, DownloadWrite, OnState,
         OnPlayback, Capture
<1>2. heard' = p /\ p.epoch = st.capture_epoch
  BY <1>1 DEF Hear
<1>3. p.epoch <= p.born /\ p.born <= st.capture_epoch
  BY DEF IndInv, Behind
<1>4. p.epoch \in Nat /\ p.born \in Nat
  BY DEF IndInv, Typed, Sample, Epoch, Place
<1> QED BY <1>2, <1>3, <1>4

\* Whatever datagrams are lost, repeated or reordered, and however often devices
\* start and stop, nothing is played twice or out of order, and nothing that was
\* captured before a recording began is given to it.
THEOREM SoundStaysFresh == Spec => SoundIsFresh
<1>1. IndInv /\ [Next]_vars =>
         [lane # <<>> /\ lane' = Tail(lane) /\ played' = Head(lane)
            => Later(played', played)]_<<lane, played>>
  BY Plays
<1>2. IndInv /\ [Next]_vars =>
         [heard' # heard => heard'.born = st.capture_epoch]_heard
  BY Hears
<1> QED
  BY <1>1, <1>2, Inductive, PTL
  DEF Spec, SoundIsFresh, NeverReplays, FreshCapture
-----------------------------------------------------------------------------
(* What the ends of a route know of each other *)

\* Route.events holds what a device says of itself, or samples.
Word == [device : Device, running : BOOLEAN] \cup {Pcm}

\* The types of what Typed leaves out: the devices' side of the channel ...
DeviceTyped ==
    /\ dpc \in [Device -> {"stopped", "starting", "running", "stopping", "closed"}]
    /\ owner \in Player \cup {None}
    /\ offs \subseteq Device
    /\ events \in Seq(Word)
    /\ Len(events) <= EventCap
    /\ starts \in 0..MaxStarts
    /\ clients \subseteq Device

\* ... and what was given to recorders and speakers.
MediaTyped ==
    /\ heard \in Sample \cup {Nothing}
    /\ latest \in State
    /\ passed \in Packet \cup {Nothing}
    /\ Len(frames) <= 1
    /\ played \in Packet \cup {Nothing}

\* A queue of words leads from what is known of d to what is so: the last word
\* about d says it, or nothing is said and it is known already.
Said(q, d, known, on) ==
    /\ (\A i \in 1..Len(q) : q[i].device # d) => (known <=> on)
    /\ \A i \in 1..Len(q) :
          /\ q[i].device = d
          /\ \A j \in 1..Len(q) : i < j => q[j].device # d
          => (q[i].running <=> on)

\* The same for the States among a lane's letters ...
Leads(q, known, state) ==
    /\ (\A i \in 1..Len(q) : ~IsState(q[i])) => known = state
    /\ \A i \in 1..Len(q) :
          /\ IsState(q[i])
          /\ \A j \in 1..Len(q) : i < j => ~IsState(q[j])
          => q[i] = state

\* ... and for the stream, which carries nothing else.
Carries(q, known, state) ==
    /\ q = <<>> => known = state
    /\ q # <<>> => q[Len(q)] = state

\* A device whose last word has not found room is gone.
GoneWait == \A d \in offs : dpc[d] = "closed"

\* The channel leads from serve_route's clients to what the programs do, but
\* for the devices whose last word still waits outside it.
ClientsTold ==
    \A d \in Device \ offs : Said(events, d, d \in clients, Sounding(d))

\* serve_route's State is about its clients.
StateFits ==
    /\ st.capture  <=> clients \cap Recorder # {}
    /\ st.playback <=> clients \cap Player # {}

\* Stream and lane lead from the helper's State to serve_route's.
MacTold == Carries(ctl, latest, st) /\ Leads(lane, hst, latest)

\* The inductive invariant behind RouteIsTold.
ToldInv ==
    /\ Typed /\ DeviceTyped /\ MediaTyped
    /\ PlayerIsOwner /\ GoneWait /\ ClientsTold /\ StateFits /\ MacTold

\* A word that is queued is the last one about its device.
LEMMA SaidQueued ==
  ASSUME NEW S, NEW q \in Seq(S), NEW e \in S, NEW d, NEW known, NEW on,
         e.device # d => Said(q, d, known, on),
         e.device = d => (e.running <=> on)
  PROVE  Said(Append(q, e), d, known, on)
<1> DEFINE a == Append(q, e)
           n == Len(q)
<1>1. /\ n \in Nat /\ Len(a) = n + 1 /\ a[n + 1] = e
      /\ \A i \in 1..n : a[i] = q[i]
  BY Queued
<1> HIDE DEF a
<1>2. ASSUME \A i \in 1..Len(a) : a[i].device # d
      PROVE  known <=> on
  <2>1. e.device # d
    BY <1>1, <1>2
  <2>2. \A i \in 1..n : q[i].device # d
    BY <1>1, <1>2
  <2> QED BY <2>1, <2>2 DEF Said
<1>3. ASSUME NEW i \in 1..Len(a), a[i].device = d,
             \A j \in 1..Len(a) : i < j => a[j].device # d
      PROVE  a[i].running <=> on
  <2>1. CASE i = n + 1
    BY <1>1, <1>3, <2>1
  <2>2. CASE i # n + 1
    <3>1. i \in 1..n /\ i < n + 1 /\ n + 1 \in 1..Len(a)
      BY <1>1, <2>2
    <3>2. e.device # d
      BY <1>1, <1>3, <3>1
    <3>3. \A j \in 1..n : i < j => q[j].device # d
      BY <1>1, <1>3
    <3>4. q[i].device = d /\ a[i] = q[i]
      BY <1>1, <1>3, <3>1
    <3> QED BY <3>1, <3>2, <3>3, <3>4 DEF Said
  <2> QED BY <2>1, <2>2
<1> QED BY <1>2, <1>3 DEF Said, a

\* A word that is taken becomes what is known of its device.
LEMMA SaidTaken ==
  ASSUME NEW S, NEW q \in Seq(S), q # <<>>, NEW d, NEW before, NEW after, NEW on,
         Said(q, d, before, on),
         Head(q).device # d => (after <=> before),
         Head(q).device = d => (after <=> Head(q).running)
  PROVE  Said(Tail(q), d, after, on)
<1> DEFINE t == Tail(q)
<1>1. /\ Len(q) \in Nat /\ Len(t) = Len(q) - 1 /\ 1 \in 1..Len(q) /\ Head(q) = q[1]
      /\ \A i \in 1..Len(t) : t[i] = q[i + 1] /\ i + 1 \in 1..Len(q)
  BY Popped, HeadTailProperties
<1>2. \A i \in 1..Len(q) : i = 1 \/ (i - 1 \in 1..Len(t) /\ (i - 1) + 1 = i)
  BY <1>1
<1> HIDE DEF t
<1>3. ASSUME \A i \in 1..Len(t) : t[i].device # d
      PROVE  after <=> on
  <2>1. ASSUME NEW i \in 1..Len(q), i # 1
        PROVE  q[i].device # d
    <3>1. i - 1 \in 1..Len(t) /\ (i - 1) + 1 = i
      BY <1>2, <2>1
    <3>2. t[i - 1] = q[i] /\ t[i - 1].device # d
      BY <1>1, <1>3, <3>1
    <3> QED BY <3>2
  <2>2. CASE q[1].device # d
    <3>1. \A i \in 1..Len(q) : q[i].device # d
      BY <2>1, <2>2
    <3> QED BY <1>1, <2>2, <3>1 DEF Said
  <2>3. CASE q[1].device = d
    <3>1. \A j \in 1..Len(q) : 1 < j => q[j].device # d
      BY <2>1
    <3> QED BY <1>1, <2>3, <3>1 DEF Said
  <2> QED BY <2>2, <2>3
<1>4. ASSUME NEW i \in 1..Len(t), t[i].device = d,
             \A j \in 1..Len(t) : i < j => t[j].device # d
      PROVE  t[i].running <=> on
  <2>1. t[i] = q[i + 1] /\ i + 1 \in 1..Len(q)
    BY <1>1
  <2>2. ASSUME NEW j \in 1..Len(q), i + 1 < j
        PROVE  q[j].device # d
    <3>1. j - 1 \in 1..Len(t) /\ (j - 1) + 1 = j /\ i < j - 1
      BY <1>2, <2>2
    <3> QED BY <1>1, <1>4, <3>1
  <2> QED BY <1>4, <2>1, <2>2 DEF Said
<1> QED BY <1>3, <1>4 DEF Said, t

\* The same of the letters in a lane.
LEMMA LeadsQueued ==
  ASSUME NEW S, NEW q \in Seq(S), NEW m \in S, NEW known, NEW state,
         ~IsState(m) => Leads(q, known, state),
         IsState(m) => m = state
  PROVE  Leads(Append(q, m), known, state)
<1> DEFINE a == Append(q, m)
           n == Len(q)
<1>1. /\ n \in Nat /\ Len(a) = n + 1 /\ a[n + 1] = m
      /\ \A i \in 1..n : a[i] = q[i]
  BY Queued
<1> HIDE DEF a
<1>2. ASSUME \A i \in 1..Len(a) : ~IsState(a[i])
      PROVE  known = state
  <2>1. ~IsState(m)
    BY <1>1, <1>2
  <2>2. \A i \in 1..n : ~IsState(q[i])
    BY <1>1, <1>2
  <2> QED BY <2>1, <2>2 DEF Leads
<1>3. ASSUME NEW i \in 1..Len(a), IsState(a[i]),
             \A j \in 1..Len(a) : i < j => ~IsState(a[j])
      PROVE  a[i] = state
  <2>1. CASE i = n + 1
    BY <1>1, <1>3, <2>1
  <2>2. CASE i # n + 1
    <3>1. i \in 1..n /\ i < n + 1 /\ n + 1 \in 1..Len(a)
      BY <1>1, <2>2
    <3>2. ~IsState(m)
      BY <1>1, <1>3, <3>1
    <3>3. \A j \in 1..n : i < j => ~IsState(q[j])
      BY <1>1, <1>3
    <3>4. IsState(q[i]) /\ a[i] = q[i]
      BY <1>1, <1>3, <3>1
    <3> QED BY <3>1, <3>2, <3>3, <3>4 DEF Leads
  <2> QED BY <2>1, <2>2
<1> QED BY <1>2, <1>3 DEF Leads, a

LEMMA LeadsTaken ==
  ASSUME NEW S, NEW q \in Seq(S), q # <<>>, NEW before, NEW after, NEW state,
         Leads(q, before, state),
         ~IsState(Head(q)) => after = before,
         IsState(Head(q)) => after = Head(q)
  PROVE  Leads(Tail(q), after, state)
<1> DEFINE t == Tail(q)
<1>1. /\ Len(q) \in Nat /\ Len(t) = Len(q) - 1 /\ 1 \in 1..Len(q) /\ Head(q) = q[1]
      /\ \A i \in 1..Len(t) : t[i] = q[i + 1] /\ i + 1 \in 1..Len(q)
  BY Popped, HeadTailProperties
<1>2. \A i \in 1..Len(q) : i = 1 \/ (i - 1 \in 1..Len(t) /\ (i - 1) + 1 = i)
  BY <1>1
<1> HIDE DEF t
<1>3. ASSUME \A i \in 1..Len(t) : ~IsState(t[i])
      PROVE  after = state
  <2>1. ASSUME NEW i \in 1..Len(q), i # 1
        PROVE  ~IsState(q[i])
    <3>1. i - 1 \in 1..Len(t) /\ (i - 1) + 1 = i
      BY <1>2, <2>1
    <3>2. t[i - 1] = q[i] /\ ~IsState(t[i - 1])
      BY <1>1, <1>3, <3>1
    <3> QED BY <3>2
  <2>2. CASE ~IsState(q[1])
    <3>1. \A i \in 1..Len(q) : ~IsState(q[i])
      BY <2>1, <2>2
    <3> QED BY <1>1, <2>2, <3>1 DEF Leads
  <2>3. CASE IsState(q[1])
    <3>1. \A j \in 1..Len(q) : 1 < j => ~IsState(q[j])
      BY <2>1
    <3> QED BY <1>1, <2>3, <3>1 DEF Leads
  <2> QED BY <2>2, <2>3
<1>4. ASSUME NEW i \in 1..Len(t), IsState(t[i]),
             \A j \in 1..Len(t) : i < j => ~IsState(t[j])
      PROVE  t[i] = state
  <2>1. t[i] = q[i + 1] /\ i + 1 \in 1..Len(q)
    BY <1>1
  <2>2. ASSUME NEW j \in 1..Len(q), i + 1 < j
        PROVE  ~IsState(q[j])
    <3>1. j - 1 \in 1..Len(t) /\ (j - 1) + 1 = j /\ i < j - 1
      BY <1>2, <2>2
    <3> QED BY <1>1, <1>4, <3>1
  <2> QED BY <1>4, <2>1, <2>2 DEF Leads
<1> QED BY <1>3, <1>4 DEF Leads, t

LEMMA CarriesQueued ==
  ASSUME NEW S, NEW q \in Seq(S), NEW s \in S, NEW known
  PROVE  Carries(Append(q, s), known, s)
<1>1. Len(Append(q, s)) = Len(q) + 1 /\ Append(q, s)[Len(q) + 1] = s /\ Len(q) \in Nat
  BY Queued
<1>2. Append(q, s) # <<>>
  BY <1>1
<1> QED BY <1>1, <1>2 DEF Carries

LEMMA CarriesTaken ==
  ASSUME NEW S, NEW q \in Seq(S), q # <<>>, NEW known, NEW state,
         Carries(q, known, state)
  PROVE  Carries(Tail(q), Head(q), state)
<1>1. q[Len(q)] = state
  BY DEF Carries
<1>2. Tail(q) \in Seq(S) /\ Len(Tail(q)) = Len(q) - 1 /\ Len(q) \in Nat \ {0}
  BY HeadTailProperties, EmptySeq
<1>3. CASE Len(q) = 1
  <2>1. Len(Tail(q)) = 0
    BY <1>2, <1>3
  <2>2. Tail(q) = <<>> /\ Head(q) = q[1]
    BY <1>2, <2>1, EmptySeq, Popped
  <2> QED BY <1>1, <1>3, <2>2 DEF Carries
<1>4. CASE Len(q) # 1
  <2>1. Len(q) - 1 \in 1..Len(Tail(q)) /\ (Len(q) - 1) + 1 = Len(q)
    BY <1>2, <1>4
  <2>2. Tail(q)[Len(q) - 1] = q[Len(q)]
    BY <2>1, Popped
  <2>3. Len(Tail(q)) # 0
    BY <1>2, <1>4
  <2>4. Tail(q) # <<>>
    BY <1>2, <2>3, EmptySeq
  <2> QED BY <1>1, <1>2, <2>2, <2>4 DEF Carries
<1> QED BY <1>3, <1>4

\* A device's word is about itself, and samples are no device's.
LEMMA Words ==
  /\ \A d \in Device, on \in BOOLEAN : [device |-> d, running |-> on] \in Word
  /\ Pcm \in Word
  /\ \A e \in Word : e # Pcm => e.device \in Device /\ e.running \in BOOLEAN
  /\ \A d \in Device : Pcm.device # d
BY AudioMediaAssumption DEF Word, Pcm

\* Every step keeps the types of the devices' side.
LEMMA DeviceTypedStep ==
  ASSUME DeviceTyped, [Next]_vars
  PROVE  DeviceTyped'
<1> USE DEF DeviceTyped
<1>0. EventCap \in Nat /\ MaxStarts \in Nat
  BY AudioMediaAssumption
<1>a. ASSUME NEW e \in Word, Room, events' = Append(events, e)
      PROVE  events' \in Seq(Word) /\ Len(events') <= EventCap
  BY <1>0, <1>a, Queued DEF Room
<1>b. ASSUME events # <<>>, events' = Tail(events)
      PROVE  events' \in Seq(Word) /\ Len(events') <= EventCap
  <2>1. Tail(events) \in Seq(Word) /\ Len(Tail(events)) = Len(events) - 1
    BY <1>b, HeadTailProperties
  <2> QED BY <1>0, <1>b, <2>1
<1>c. Player \subseteq Device
  BY DEF Device
<1>1. ASSUME NEW d \in Device, Start(d)
      PROVE  DeviceTyped'
  BY <1>0, <1>1, <1>c DEF Start, routeVars
<1>2. ASSUME NEW d \in Device, Stop(d)
      PROVE  DeviceTyped'
  BY <1>2 DEF Stop, Disown, routeVars
<1>3. ASSUME NEW d \in Device, Tell(d)
      PROVE  DeviceTyped'
  <2>1. events' \in Seq(Word) /\ Len(events') <= EventCap
    BY <1>3, <1>a, Words DEF Tell, Running
  <2> QED BY <1>3, <2>1 DEF Tell, routeVars
<1>4. ASSUME NEW d \in Device, Close(d)
      PROVE  DeviceTyped'
  BY <1>4 DEF Close, Disown, routeVars
<1>5. ASSUME NEW d \in Device, LastOff(d)
      PROVE  DeviceTyped'
  <2>1. events' \in Seq(Word) /\ Len(events') <= EventCap
    BY <1>5, <1>a, Words DEF LastOff, Running
  <2> QED BY <1>5, <2>1 DEF LastOff, routeVars
<1>6. ASSUME NEW d \in Device, Play(d)
      PROVE  DeviceTyped'
  <2>1. events' \in Seq(Word) /\ Len(events') <= EventCap
    BY <1>6, <1>a, Words DEF Play
  <2> QED BY <1>6, <2>1 DEF Play, routeVars, deviceVars
<1>7. CASE HandleRunning
  <2>1. Head(events) \in Word /\ Head(events) # Pcm
    BY <1>7, Popped DEF HandleRunning
  <2>2. Head(events).device \in Device
    BY <2>1, Words
  <2>3. clients' \subseteq Device
    BY <1>7, <2>2 DEF HandleRunning
  <2> QED BY <1>7, <1>b, <2>3 DEF HandleRunning, deviceVars
<1>8. CASE HandlePlayback
  BY <1>8, <1>b DEF HandlePlayback, deviceVars
<1>9. CASE UNCHANGED <<deviceVars, events, clients>>
  BY <1>9 DEF deviceVars
<1>10. ASSUME \/ \E p \in up : Hear(p)
              \/ \E p \in down : Download(p)
              \/ Control \/ Upload \/ DownloadWrite \/ OnState \/ OnPlayback
              \/ Capture
              \/ UNCHANGED vars
       PROVE  UNCHANGED <<deviceVars, events, clients>>
  BY <1>10
  DEF Hear, Download, DownloadWrite, Control, Upload, OnState, OnPlayback,
      Capture, vars, deviceVars, routeVars
<1> QED
  BY <1>1, <1>2, <1>3, <1>4, <1>5, <1>6, <1>7, <1>8, <1>9, <1>10 DEF Next

\* Every step keeps the types of what was given to recorders and speakers.
LEMMA MediaTypedStep ==
  ASSUME Typed, MediaTyped, [Next]_vars
  PROVE  MediaTyped'
<1> USE DEF MediaTyped
<1>1. CASE UNCHANGED <<heard, latest, passed, frames, played>>
  BY <1>1
<1>2. ASSUME NEW p \in up, Hear(p)
      PROVE  MediaTyped'
  BY <1>2 DEF Hear, Typed, bridgeVars, helperVars
<1>3. CASE Control
  BY <1>3, Popped DEF Control, Typed, helperVars
<1>4. CASE Upload
  <2>1. Len(Tail(frames)) = Len(frames) - 1 /\ Len(frames) \in Nat
    BY <1>4, HeadTailProperties DEF Upload, Typed
  <2> QED BY <1>4, <2>1 DEF Upload, helperVars
<1>5. ASSUME NEW p \in down, Download(p)
      PROVE  MediaTyped'
  BY <1>5 DEF Download, Typed, helperVars
<1>10. CASE DownloadWrite
  BY <1>10 DEF DownloadWrite, helperVars
<1>6. CASE OnState
  BY <1>6 DEF OnState, bridgeVars
<1>7. CASE OnPlayback
  <2>1. Head(lane) \in Letter /\ ~IsState(Head(lane))
    BY <1>7, Popped DEF OnPlayback, Typed
  <2>2. Head(lane) \in Packet
    BY <2>1, Kinds DEF Letter
  <2> QED BY <1>7, <2>2 DEF OnPlayback, bridgeVars
<1>8. CASE Capture
  BY <1>8 DEF Capture, bridgeVars, helperVars
<1>9. ASSUME \/ \E d \in Device : \/ Start(d) \/ Stop(d) \/ Tell(d) \/ Close(d)
                                  \/ LastOff(d) \/ Play(d)
             \/ HandleRunning \/ HandlePlayback \/ UNCHANGED vars
      PROVE  UNCHANGED <<heard, latest, passed, frames, played>>
  BY <1>9 DEF Start, Stop, Tell, Close, LastOff, Play, HandleRunning,
              HandlePlayback, vars, bridgeVars, helperVars
<1> QED
  BY <1>1, <1>2, <1>3, <1>4, <1>5, <1>6, <1>7, <1>8, <1>9, <1>10 DEF Next

\* One player has the speaker whatever the programs do.
LEMMA OwnerStep ==
  ASSUME DeviceTyped, PlayerIsOwner, [Next]_vars
  PROVE  PlayerIsOwner'
<1> USE DEF DeviceTyped
<1>a. None \notin Player /\ Player \subseteq Device
  BY AudioMediaAssumption DEF Device
<1>1. ASSUME NEW d \in Device, Start(d)
      PROVE  PlayerIsOwner'
  BY <1>1, <1>a DEF Start, PlayerIsOwner
<1>2. ASSUME NEW d \in Device, Stop(d)
      PROVE  PlayerIsOwner'
  BY <1>2, <1>a DEF Stop, Disown, PlayerIsOwner
<1>3. ASSUME NEW d \in Device, Tell(d)
      PROVE  PlayerIsOwner'
  BY <1>3, <1>a DEF Tell, PlayerIsOwner
<1>4. ASSUME NEW d \in Device, Close(d)
      PROVE  PlayerIsOwner'
  BY <1>4, <1>a DEF Close, Disown, PlayerIsOwner
<1>5. ASSUME UNCHANGED <<dpc, owner>>
      PROVE  PlayerIsOwner'
  BY <1>5 DEF PlayerIsOwner
<1>6. ASSUME \/ \E d \in Device : LastOff(d) \/ Play(d)
             \/ \E p \in up : Hear(p)
             \/ \E p \in down : Download(p)
             \/ HandleRunning \/ HandlePlayback
             \/ Control \/ Upload \/ DownloadWrite \/ OnState \/ OnPlayback
             \/ Capture
             \/ UNCHANGED vars
      PROVE  UNCHANGED <<dpc, owner>>
  BY <1>6
  DEF LastOff, Play, Hear, Download, DownloadWrite, HandleRunning,
      HandlePlayback, Control, Upload, OnState, OnPlayback, Capture, vars,
      deviceVars
<1> QED BY <1>1, <1>2, <1>3, <1>4, <1>5, <1>6 DEF Next

\* A device that is gone says no more than its last word.
LEMMA GoneStep ==
  ASSUME DeviceTyped, GoneWait, [Next]_vars
  PROVE  GoneWait'
<1> USE DEF DeviceTyped, GoneWait
<1>1. ASSUME NEW d \in Device, Start(d) \/ Stop(d) \/ Tell(d) \/ Close(d) \/ LastOff(d)
      PROVE  GoneWait'
  <2>1. CASE Start(d) \/ Stop(d) \/ Tell(d)
    <3>1. dpc[d] # "closed" /\ offs' = offs
      BY <2>1 DEF Start, Stop, Tell
    <3>2. \A s \in Device \ {d} : dpc'[s] = dpc[s]
      BY <2>1 DEF Start, Stop, Tell
    <3> QED BY <3>1, <3>2
  <2>2. CASE Close(d)
    BY <2>2 DEF Close
  <2>3. CASE LastOff(d)
    BY <2>3 DEF LastOff
  <2> QED BY <1>1, <2>1, <2>2, <2>3
<1>2. CASE UNCHANGED <<dpc, offs>>
  BY <1>2
<1>3. ASSUME \/ \E d \in Device : Play(d)
             \/ \E p \in up : Hear(p)
             \/ \E p \in down : Download(p)
             \/ HandleRunning \/ HandlePlayback
             \/ Control \/ Upload \/ DownloadWrite \/ OnState \/ OnPlayback
             \/ Capture
             \/ UNCHANGED vars
      PROVE  UNCHANGED <<dpc, offs>>
  BY <1>3
  DEF Play, Hear, Download, DownloadWrite, HandleRunning, HandlePlayback,
      Control, Upload, OnState, OnPlayback, Capture, vars, deviceVars
<1> QED BY <1>1, <1>2, <1>3 DEF Next

\* What a device tells is queued behind all it told before, whatever else is in
\* the channel, and serve_route takes it from there.
LEMMA ClientsStep ==
  ASSUME DeviceTyped, GoneWait, ClientsTold, [Next]_vars
  PROVE  ClientsTold'
<1>t. /\ events \in Seq(Word)
      /\ dpc \in [Device -> {"stopped", "starting", "running", "stopping", "closed"}]
  BY DEF DeviceTyped
<1>s. \A d \in Device \ offs : Said(events, d, d \in clients, Sounding(d))
  BY DEF ClientsTold
<1>1. ASSUME NEW d \in Device, Start(d) \/ Stop(d) \/ Close(d)
      PROVE  ClientsTold'
  <2>1. UNCHANGED <<events, clients>> /\ offs \subseteq offs'
    BY <1>1 DEF Start, Stop, Close, routeVars
  <2>2. ASSUME NEW s \in Device \ offs'
        PROVE  s \in Device \ offs /\ (Sounding(s))' = Sounding(s)
    BY <1>1, <1>t, <2>1, <2>2 DEF Start, Stop, Close, Sounding
  <2>3. ASSUME NEW s \in Device \ offs'
        PROVE  Said(events', s, s \in clients', (Sounding(s))')
    BY <1>s, <2>1, <2>2
  <2> QED BY <2>3 DEF ClientsTold
<1>2. ASSUME NEW d \in Device, Tell(d)
      PROVE  ClientsTold'
  <2> DEFINE e == [device |-> d, running |-> dpc[d] = "starting"]
  <2>1. e \in Word /\ e.device = d /\ (e.running <=> dpc[d] = "starting")
    BY Words
  <2>2. UNCHANGED <<offs, clients>> /\ events' = Append(events, e)
    BY <1>2 DEF Tell, Running, routeVars
  <2>3. (dpc[d] = "starting") <=> (Sounding(d))'
    BY <1>2, <1>t DEF Tell, Sounding
  <2>4. \A s \in Device \ {d} : (Sounding(s))' = Sounding(s)
    BY <1>2, <1>t DEF Tell, Sounding
  <2> HIDE DEF e
  <2>5. ASSUME NEW s \in Device \ offs
        PROVE  Said(Append(events, e), s, s \in clients, (Sounding(s))')
    <3>1. e.device # s => Said(events, s, s \in clients, (Sounding(s))')
      BY <1>s, <2>1, <2>4, <2>5
    <3>2. e.device = s => (e.running <=> (Sounding(s))')
      BY <2>1, <2>3
    <3> QED BY <1>t, <2>1, <3>1, <3>2, SaidQueued
  <2> QED BY <2>2, <2>5 DEF ClientsTold
<1>3. ASSUME NEW d \in Device, LastOff(d)
      PROVE  ClientsTold'
  <2> DEFINE e == [device |-> d, running |-> FALSE]
  <2>1. e \in Word /\ e.device = d /\ ~e.running
    BY Words
  <2>2. /\ UNCHANGED <<dpc, clients>> /\ events' = Append(events, e)
        /\ offs' = offs \ {d} /\ d \in offs
    BY <1>3 DEF LastOff, Running, routeVars
  <2>3. \A s \in Device : (Sounding(s))' = Sounding(s)
    BY <2>2 DEF Sounding
  <2>4. ~Sounding(d)
    BY <2>2 DEF GoneWait, Sounding
  <2> HIDE DEF e
  <2>5. ASSUME NEW s \in Device \ offs'
        PROVE  Said(Append(events, e), s, s \in clients, Sounding(s))
    <3>1. e.device # s => Said(events, s, s \in clients, Sounding(s))
      BY <1>s, <2>1, <2>2, <2>5
    <3>2. e.device = s => (e.running <=> Sounding(s))
      BY <2>1, <2>4
    <3> QED BY <1>t, <2>1, <3>1, <3>2, SaidQueued
  <2>6. ASSUME NEW s \in Device \ offs'
        PROVE  Said(events', s, s \in clients', (Sounding(s))')
    BY <2>2, <2>3, <2>5
  <2> QED BY <2>6 DEF ClientsTold
<1>4. ASSUME NEW d \in Device, Play(d)
      PROVE  ClientsTold'
  <2>1. UNCHANGED <<dpc, offs, clients>> /\ events' = Append(events, Pcm)
    BY <1>4 DEF Play, deviceVars, routeVars
  <2>2. ASSUME NEW s \in Device \ offs
        PROVE  Said(Append(events, Pcm), s, s \in clients, Sounding(s))
    BY <1>s, <1>t, Words, SaidQueued
  <2> QED BY <2>1, <2>2 DEF ClientsTold, Sounding
<1>5. CASE HandleRunning
  <2> DEFINE e == Head(events)
  <2>1. /\ UNCHANGED <<dpc, offs>> /\ events # <<>> /\ events' = Tail(events)
        /\ e \in Word /\ e # Pcm
    BY <1>5, <1>t, Popped DEF HandleRunning, deviceVars
  <2>2. e.running \in BOOLEAN
    BY <2>1, Words
  <2>3. clients' = IF e.running THEN clients \cup {e.device} ELSE clients \ {e.device}
    BY <1>5 DEF HandleRunning
  <2> HIDE DEF e
  <2>4. ASSUME NEW s \in Device
        PROVE  /\ e.device # s => (s \in clients' <=> s \in clients)
               /\ e.device = s => (s \in clients' <=> e.running)
    BY <2>2, <2>3
  <2>5. ASSUME NEW s \in Device \ offs
        PROVE  Said(Tail(events), s, s \in clients', Sounding(s))
    BY <1>s, <1>t, <2>1, <2>4, SaidTaken DEF e
  <2>6. ASSUME NEW s \in Device \ offs'
        PROVE  Said(events', s, s \in clients', (Sounding(s))')
    BY <2>1, <2>5 DEF Sounding
  <2> QED BY <2>6 DEF ClientsTold
<1>6. CASE HandlePlayback
  <2>1. /\ UNCHANGED <<dpc, offs, clients>> /\ events # <<>>
        /\ events' = Tail(events) /\ Head(events) = Pcm
    BY <1>6 DEF HandlePlayback, deviceVars
  <2>2. ASSUME NEW s \in Device \ offs
        PROVE  Said(Tail(events), s, s \in clients, Sounding(s))
    BY <1>s, <1>t, <2>1, Words, SaidTaken
  <2> QED BY <2>1, <2>2 DEF ClientsTold, Sounding
<1>7. CASE UNCHANGED <<dpc, offs, events, clients>>
  BY <1>7 DEF ClientsTold, Sounding
<1>8. ASSUME \/ \E p \in up : Hear(p)
             \/ \E p \in down : Download(p)
             \/ Control \/ Upload \/ DownloadWrite \/ OnState \/ OnPlayback
             \/ Capture
             \/ UNCHANGED vars
      PROVE  UNCHANGED <<dpc, offs, events, clients>>
  BY <1>8
  DEF Hear, Download, DownloadWrite, Control, Upload, OnState, OnPlayback,
      Capture, vars, deviceVars, routeVars
<1> QED
  BY <1>1, <1>2, <1>3, <1>4, <1>5, <1>6, <1>7, <1>8 DEF Next

\* serve_route's State follows its clients, and the Mac is told of every change.
LEMMA StateStep ==
  ASSUME Typed, StateFits, [Next]_vars
  PROVE  StateFits'
<1>1. CASE HandleRunning
  <2>1. st' = Follow(st, clients' \cap Recorder # {}, clients' \cap Player # {})
    BY <1>1 DEF HandleRunning
  <2>2. /\ st'.capture <=> clients' \cap Recorder # {}
        /\ st'.playback <=> clients' \cap Player # {}
    BY <2>1 DEF Follow
  <2> QED BY <2>2 DEF StateFits
<1>2. CASE UNCHANGED <<st, clients>>
  BY <1>2 DEF StateFits
<1>3. CASE \/ HandlePlayback \/ Control \/ Upload \/ DownloadWrite \/ OnState
           \/ OnPlayback \/ Capture
  BY <1>2, <1>3
  DEF HandlePlayback, Control, Upload, DownloadWrite, OnState, OnPlayback,
      Capture, routeVars
<1>4. ASSUME NEW p \in down, Download(p)
      PROVE  UNCHANGED <<st, clients>>
  BY <1>4 DEF Download, routeVars
<1>5. ASSUME \/ \E d \in Device : \/ Start(d) \/ Stop(d) \/ Tell(d) \/ Close(d)
                                  \/ LastOff(d) \/ Play(d)
             \/ \E p \in up : Hear(p)
             \/ UNCHANGED vars
      PROVE  UNCHANGED <<st, clients>>
  BY <1>5 DEF Start, Stop, Tell, Close, LastOff, Play, Hear, vars, routeVars
<1> QED BY <1>1, <1>2, <1>3, <1>4, <1>5 DEF Next

\* The bridge and the helper pass on what the host said last.
LEMMA MacStep ==
  ASSUME Typed, MacTold, [Next]_vars
  PROVE  MacTold'
<1>t. ctl \in Seq(State) /\ lane \in Seq(Letter)
  BY DEF Typed
<1>1. CASE HandleRunning
  <2>1. UNCHANGED <<lane, hst, latest>> /\ st' \in State
    BY <1>1, Followed DEF HandleRunning, bridgeVars
  <2>2. (st' = st /\ ctl' = ctl) \/ ctl' = Append(ctl, st')
    BY <1>1 DEF HandleRunning
  <2>3. Carries(Append(ctl, st'), latest, st')
    BY <1>t, <2>1, CarriesQueued
  <2>4. Carries(ctl', latest, st')
    BY <2>2, <2>3 DEF MacTold
  <2> QED BY <2>1, <2>4 DEF MacTold
<1>2. CASE Control
  <2>1. /\ UNCHANGED <<st, hst>> /\ ctl # <<>> /\ ctl' = Tail(ctl)
        /\ latest' = Head(ctl) /\ lane' = Append(lane, Head(ctl))
    BY <1>2 DEF Control, routeVars, helperVars
  <2>2. Head(ctl) \in State
    BY <1>t, <2>1, Popped
  <2>3. Head(ctl) \in Letter /\ IsState(Head(ctl))
    BY <2>2, Kinds DEF Letter
  <2>4. Carries(Tail(ctl), Head(ctl), st)
    BY <1>t, <2>1, CarriesTaken DEF MacTold
  <2>5. Leads(Append(lane, Head(ctl)), hst, Head(ctl))
    BY <1>t, <2>3, LeadsQueued
  <2> QED BY <2>1, <2>4, <2>5 DEF MacTold
<1>3. ASSUME NEW p \in down, Download(p)
      PROVE  MacTold'
  BY <1>3 DEF Download, routeVars, helperVars, MacTold
<1>9. CASE DownloadWrite
  <2>1. UNCHANGED <<st, ctl, hst, latest>> /\ lane' = Append(lane, held)
    BY <1>9 DEF DownloadWrite, routeVars, helperVars
  <2>2. held \in Letter /\ ~IsState(held)
    BY <1>9, Kinds, Marks DEF DownloadWrite, Typed, Letter
  <2>3. Leads(Append(lane, held), hst, latest)
    BY <1>t, <2>2, LeadsQueued DEF MacTold
  <2> QED BY <2>1, <2>3 DEF MacTold
<1>4. CASE OnState
  <2>1. /\ UNCHANGED <<st, ctl, latest>> /\ lane # <<>> /\ lane' = Tail(lane)
        /\ IsState(Head(lane)) /\ hst' = Head(lane)
    BY <1>4 DEF OnState, routeVars, bridgeVars
  <2>2. Leads(Tail(lane), Head(lane), latest)
    BY <1>t, <2>1, LeadsTaken DEF MacTold
  <2> QED BY <2>1, <2>2 DEF MacTold
<1>5. CASE OnPlayback
  <2>1. /\ UNCHANGED <<st, ctl, latest, hst>> /\ lane # <<>> /\ lane' = Tail(lane)
        /\ ~IsState(Head(lane))
    BY <1>5 DEF OnPlayback, routeVars, bridgeVars
  <2>2. Leads(Tail(lane), hst, latest)
    BY <1>t, <2>1, LeadsTaken DEF MacTold
  <2> QED BY <2>1, <2>2 DEF MacTold
<1>6. CASE UNCHANGED <<st, ctl, latest, lane, hst>>
  BY <1>6 DEF MacTold
<1>7. CASE HandlePlayback \/ Upload \/ Capture
  BY <1>6, <1>7 DEF HandlePlayback, Upload, Capture, routeVars, bridgeVars, helperVars
<1>8. ASSUME \/ \E d \in Device : \/ Start(d) \/ Stop(d) \/ Tell(d) \/ Close(d)
                                  \/ LastOff(d) \/ Play(d)
             \/ \E p \in up : Hear(p)
             \/ UNCHANGED vars
      PROVE  UNCHANGED <<st, ctl, latest, lane, hst>>
  BY <1>8 DEF Start, Stop, Tell, Close, LastOff, Play, Hear, vars, routeVars,
              bridgeVars, helperVars
<1> QED BY <1>1, <1>2, <1>3, <1>4, <1>5, <1>6, <1>7, <1>8, <1>9 DEF Next

\* A route that has just been opened has no devices running and nothing to tell.
LEMMA ToldInit == Init => ToldInv
<1> SUFFICES ASSUME Init PROVE ToldInv
  OBVIOUS
<1>1. Typed
  BY IndInit DEF IndInv
<1>2. DeviceTyped
  BY AudioMediaAssumption DEF Init, DeviceTyped
<1>3. MediaTyped
  BY DEF Init, MediaTyped, Off, State, Epoch
<1>4. PlayerIsOwner /\ GoneWait
  BY AudioMediaAssumption DEF Init, PlayerIsOwner, GoneWait, Device
<1>5. ClientsTold
  BY DEF Init, ClientsTold, Said, Sounding
<1>6. StateFits
  BY DEF Init, StateFits, Off
<1>7. MacTold
  BY DEF Init, MacTold, Carries, Leads
<1> QED BY <1>1, <1>2, <1>3, <1>4, <1>5, <1>6, <1>7 DEF ToldInv

\* What it says of a route.
LEMMA ToldImplies == ToldInv => RouteIsTold
<1> SUFFICES ASSUME ToldInv PROVE RouteIsTold
  OBVIOUS
<1>1. TypeOK
  <2> DEFINE Event == [device : Device \cup {None}, running : BOOLEAN]
  <2>1. Pcm \in Event
    BY DEF Pcm
  <2>2. [device : Device, running : BOOLEAN] \subseteq Event
    <3> SUFFICES ASSUME NEW e \in [device : Device, running : BOOLEAN]
                 PROVE  e \in Event
      OBVIOUS
    <3>1. e = [device |-> e.device, running |-> e.running]
      OBVIOUS
    <3>2. e.device \in Device /\ e.running \in BOOLEAN
      OBVIOUS
    <3> QED BY <3>1, <3>2
  <2>3. Word \subseteq Event
    BY <2>1, <2>2 DEF Word
  <2> HIDE DEF Event
  <2>4. events \in Seq(Event)
    BY <2>3 DEF ToldInv, DeviceTyped
  <2> QED
    BY <2>4 DEF Event, TypeOK, ToldInv, Typed, DeviceTyped, MediaTyped, Letter, Place
<1>2. ASSUME events = <<>>, offs = {}
      PROVE  /\ st.capture  <=> \E r \in Recorder : Sounding(r)
             /\ st.playback <=> \E p \in Player : Sounding(p)
  <2>1. \A d \in Device : d \in clients <=> Sounding(d)
    BY <1>2 DEF ToldInv, ClientsTold, Said
  <2>2. \A d \in Recorder : d \in clients <=> Sounding(d)
    BY <2>1 DEF Device
  <2>3. \A d \in Player : d \in clients <=> Sounding(d)
    BY <2>1 DEF Device
  <2> QED BY <2>2, <2>3 DEF ToldInv, StateFits
<1>3. ASSUME ctl = <<>>, \A i \in 1..Len(lane) : ~IsState(lane[i])
      PROVE  hst = st
  BY <1>3 DEF ToldInv, MacTold, Carries, Leads
<1> QED
  BY <1>1, <1>2, <1>3 DEF ToldInv, RouteIsTold, MicrophoneIsTold

\* On a route with any devices, and an event channel of any capacity, one player
\* has the speaker, and no State is lost or overtaken: whenever nothing is on its
\* way the Mac's microphone and speaker are what the programs on the host do,
\* however many samples competed with their last words for the channel.
THEOREM RouteStaysTold == Spec => []RouteIsTold
<1>1. ToldInv /\ [Next]_vars => ToldInv'
  BY TypedStep, DeviceTypedStep, MediaTypedStep, OwnerStep, GoneStep,
     ClientsStep, StateStep, MacStep DEF ToldInv
<1> QED BY <1>1, ToldInit, ToldImplies, PTL DEF Spec
=============================================================================
