----------------------------- MODULE AttachProofs -----------------------------
(***************************************************************************)
(* The attach, steal and slow-client argument of module Attach, for any    *)
(* number of clients, any output and any channel depth, said of every      *)
(* client that is never sent a re-dump.                                    *)
(***************************************************************************)
EXTENDS Attach, TLAPS

\* The stamp a channel s ends with, for a screen that shows g chunks.
LastStamp(s, g) == IF s = <<>> THEN g ELSE s[Len(s)].n

\* What a message adds to the screen.
Adds(m) == IF m.kind = "out" THEN 1 ELSE 0

\* Channel s continues a screen that shows g chunks: each stamp follows from
\* the one before it.
Run(s, g) ==
    \A i \in 1..Len(s) :
        /\ s[i].kind # "dump"
        /\ s[i].n = (IF i = 1 THEN g ELSE s[i - 1].n) + Adds(s[i])

\* The read loop and the reap hold a sender exactly while they are sending.
SendLink == loop \in {"sending", "telling"} <=> sendTo # Nobody

\* Who may hold, or be sent, what: the slot's client is attached, senders refer
\* to clients that have attached, and only attached clients have a channel.
Links ==
    /\ slot # Nobody => hpc[slot] = "attached"
    /\ sendTo # Nobody => hpc[sendTo] \in {"attached", "ended"}
    /\ nameTo # Nobody => hpc[nameTo] \in {"attached", "ended"}
    /\ SendLink
    /\ \A c \in Client : hpc[c] # "attached" => chan[c] = <<>>

\* A re-dump on its way has a recorded addressee, or none yet.
RedumpLink ==
    \A h \in Client : redump[h] # Nobody => redump[h].to \in redumped \cup {Nobody}

\* Every channel continues its screen, never beyond the VT.
Continues ==
    \A c \in Plain :
        /\ Run(chan[c], got[c])
        /\ got[c] <= vt
        /\ \A i \in 1..Len(chan[c]) : chan[c][i].n <= vt

\* The client the read loop or the reap is sending to is where it should be,
\* also when it has been evicted meanwhile.
Target ==
    sendTo \in Plain /\ hpc[sendTo] = "attached" =>
        Sent(sendTo) + InFlight(sendTo) = vt

\* An Exit is only queued or forwarded when the VT is final, and covers it.
Exits ==
    \A c \in Plain :
        /\ told[c] => got[c] = vt /\ loop \in {"removing", "done"}
        /\ \A i \in 1..Len(chan[c]) : chan[c][i].kind = "exit" =>
               chan[c][i].n = vt /\ loop \in {"removing", "done"}

\* The inductive invariant.
StreamInv ==
    /\ AttachTypeOK /\ Links /\ RedumpLink
    /\ Continues /\ Target /\ InSync /\ Exits /\ NoGap

-----------------------------------------------------------------------------
\* A sequence is empty when it has no length.
LEMMA EmptyLen == \A s \in Seq(Message) : s = <<>> <=> Len(s) = 0
OBVIOUS

\* Appending the message that continues a channel.
LEMMA AppendRun ==
  ASSUME NEW s \in Seq(Message), NEW g \in Nat, NEW m \in Message,
         Run(s, g), m.kind # "dump", m.n = LastStamp(s, g) + Adds(m)
  PROVE  /\ Append(s, m) \in Seq(Message)
         /\ Run(Append(s, m), g)
         /\ LastStamp(Append(s, m), g) = m.n
         /\ Len(Append(s, m)) = Len(s) + 1
         /\ \A i \in 1..Len(s) : Append(s, m)[i] = s[i]
         /\ Append(s, m)[Len(s) + 1] = m
<1> DEFINE t == Append(s, m)
<1>1. Len(s) \in Nat
  OBVIOUS
<1>2. /\ t \in Seq(Message)
      /\ Len(t) = Len(s) + 1
      /\ \A i \in 1..Len(s) : t[i] = s[i]
      /\ t[Len(s) + 1] = m
      /\ t # <<>>
  BY <1>1
<1>3. s = <<>> <=> Len(s) = 0
  OBVIOUS
<1>4. LastStamp(t, g) = m.n
  BY <1>2 DEF LastStamp
<1> HIDE DEF t
<1>5. Run(t, g)
  <2> SUFFICES ASSUME NEW i \in 1..Len(t)
               PROVE  /\ t[i].kind # "dump"
                      /\ t[i].n = (IF i = 1 THEN g ELSE t[i - 1].n) + Adds(t[i])
    BY DEF Run
  <2>1. CASE i \in 1..Len(s)
    <3>1. t[i] = s[i] /\ (i # 1 => t[i - 1] = s[i - 1])
      BY <1>1, <1>2, <2>1
    <3>2. /\ s[i].kind # "dump"
          /\ s[i].n = (IF i = 1 THEN g ELSE s[i - 1].n) + Adds(s[i])
      BY <2>1 DEF Run
    <3> QED BY <3>1, <3>2
  <2>2. CASE i = Len(s) + 1
    <3>1. CASE s = <<>>
      BY <1>1, <1>2, <1>3, <2>2, <3>1 DEF LastStamp
    <3>2. CASE s # <<>>
      BY <1>1, <1>2, <1>3, <2>2, <3>2 DEF LastStamp
    <3> QED BY <3>1, <3>2
  <2> QED BY <1>1, <1>2, <2>1, <2>2
<1> QED BY <1>2, <1>4, <1>5 DEF t

\* Forwarding the first message of a channel.
LEMMA TailRun ==
  ASSUME NEW s \in Seq(Message), NEW g \in Nat, s # <<>>, Run(s, g)
  PROVE  /\ Tail(s) \in Seq(Message)
         /\ Head(s) = s[1] /\ s[1] \in Message
         /\ Head(s).n = g + Adds(Head(s))
         /\ Run(Tail(s), Head(s).n)
         /\ LastStamp(Tail(s), Head(s).n) = LastStamp(s, g)
         /\ Len(Tail(s)) = Len(s) - 1
         /\ \A i \in 1..Len(Tail(s)) : Tail(s)[i] = s[i + 1]
<1>1. Len(s) \in Nat /\ Len(s) > 0
  OBVIOUS
<1>2. /\ Tail(s) \in Seq(Message)
      /\ Len(Tail(s)) = Len(s) - 1
      /\ \A i \in 1..Len(Tail(s)) : Tail(s)[i] = s[i + 1]
      /\ Head(s) = s[1] /\ s[1] \in Message
  BY <1>1
<1>3. Head(s).n = g + Adds(Head(s))
  BY <1>1, <1>2 DEF Run
<1>4. Run(Tail(s), Head(s).n)
  BY <1>1, <1>2, <1>3 DEF Run
<1>5. LastStamp(Tail(s), Head(s).n) = LastStamp(s, g)
  <2> DEFINE u == Tail(s)
             L == Len(s)
             M == Len(u)
  <2>1. /\ L \in Nat /\ L > 0 /\ M = L - 1
        /\ M >= 1 => u[M] = s[L]
        /\ Head(s) = s[1]
    BY <1>1, <1>2
  <2>2. u = <<>> <=> M = 0
    BY <1>2, EmptyLen
  <2>3. u = <<>> => LastStamp(u, Head(s).n) = s[1].n
    BY <2>1 DEF LastStamp
  <2>4. u # <<>> => LastStamp(u, Head(s).n) = u[M].n
    BY DEF LastStamp
  <2>5. LastStamp(s, g) = s[L].n
    BY DEF LastStamp
  <2> HIDE DEF u, L, M
  <2>6. LastStamp(u, Head(s).n) = LastStamp(s, g)
    <3>1. CASE M = 0
      <4>1. L = 1
        BY <2>1, <3>1
      <4> QED BY <2>2, <2>3, <2>5, <3>1, <4>1
    <3>2. CASE M # 0
      <4>1. M >= 1
        BY <2>1, <3>2
      <4> QED BY <2>1, <2>2, <2>4, <2>5, <3>2, <4>1
    <3> QED BY <3>1, <3>2
  <2> QED BY <2>6 DEF u
<1> QED BY <1>2, <1>3, <1>4, <1>5
-----------------------------------------------------------------------------
\* The initial state has the declared types.
LEMMA TypeInit == AttachInit => AttachTypeOK
<1>1. 0 \in 0..MaxChunks /\ <<>> \in Seq(Message)
  BY AttachAssumption
<1> QED
  BY <1>1 DEF AttachInit, AttachTypeOK, LoopState

\* The stamp at the end of a channel is a number of chunks.
LEMMA SentType ==
  ASSUME AttachTypeOK, NEW c \in Client PROVE Sent(c) \in 0..MaxChunks
<1>1. CASE chan[c] = <<>>
  BY <1>1 DEF AttachTypeOK, Sent
<1>2. CASE chan[c] # <<>>
  <2>1. chan[c] \in Seq(Message)
    BY DEF AttachTypeOK
  <2>2. chan[c][Len(chan[c])] \in Message
    BY <1>2, <2>1
  <2> QED BY <1>2, <2>2 DEF Sent, Message
<1> QED BY <1>1, <1>2

\* The variables keep their types, whatever clients do.
LEMMA TypeStep ==
  AttachTypeOK /\ SendLink /\ [AttachNext]_attachVars => AttachTypeOK'
<1> SUFFICES ASSUME AttachTypeOK, SendLink, [AttachNext]_attachVars
             PROVE  AttachTypeOK'
  OBVIOUS
<1> USE AttachAssumption
    DEF readVars, nameVars, clientVars, dumpVars, historyVars
<1>1. ASSUME NEW c \in Client, Acquire(c) PROVE AttachTypeOK'
  BY <1>1 DEF Acquire, AttachTypeOK, LoopState
<1>2. ASSUME NEW c \in Client, AttachOn(c) PROVE AttachTypeOK'
  <2>1. chan' \in [Client -> Seq(Message)]
    <3>1. Msg("name", vt) \in Message
      BY DEF Msg, Message, AttachTypeOK
    <3>2. <<>> \in Seq(Message) /\ <<Msg("name", vt)>> \in Seq(Message)
      BY <3>1
    <3> QED BY <1>2, <3>2 DEF AttachOn, AttachTypeOK
  <2> QED BY <1>2, <2>1 DEF AttachOn, AttachTypeOK
<1>3. ASSUME NEW c \in Client, Forward(c) PROVE AttachTypeOK'
  <2>1. chan[c] \in Seq(Message) /\ chan[c] # <<>>
    BY <1>3 DEF Forward, AttachTypeOK
  <2>2. Head(chan[c]) \in Message /\ Tail(chan[c]) \in Seq(Message)
    BY <2>1
  <2>3. chan' \in [Client -> Seq(Message)]
    BY <1>3, <2>2 DEF Forward, AttachTypeOK
  <2>4. Head(chan[c]).n \in 0..MaxChunks
    BY <2>2 DEF Message
  <2>5. got' \in [Client -> 0..MaxChunks]
    BY <1>3, <2>4 DEF Forward, AttachTypeOK
  <2>6. /\ torn' \in [Client -> BOOLEAN]
        /\ live' \in [Client -> BOOLEAN]
        /\ told' \in [Client -> BOOLEAN]
    BY <1>3 DEF Forward, AttachTypeOK
  <2> QED BY <1>3, <2>3, <2>5, <2>6 DEF Forward, AttachTypeOK
<1>4. ASSUME NEW c \in Client, ChannelEnd(c) PROVE AttachTypeOK'
  BY <1>4 DEF ChannelEnd, End, Released, AttachTypeOK, LoopState
<1>5. ASSUME NEW c \in Client, Disconnect(c) PROVE AttachTypeOK'
  BY <1>5 DEF Disconnect, End, Released, AttachTypeOK, LoopState
<1>6. ASSUME NEW c \in Client, Resize(c) PROVE AttachTypeOK'
  BY <1>6 DEF Resize, Redump, AttachTypeOK, LoopState
<1>7. ASSUME NEW c \in Client, RedumpTarget(c) PROVE AttachTypeOK'
  <2>1. redump[c] \in Redump
    BY <1>7 DEF RedumpTarget, AttachTypeOK
  <2>2. slot # Nobody => [redump[c] EXCEPT !.to = slot] \in Redump
    BY <2>1 DEF Redump, AttachTypeOK
  <2>3. redump' \in [Client -> Redump \cup {Nobody}]
    BY <1>7, <2>2 DEF RedumpTarget, AttachTypeOK
  <2> QED BY <1>7, <2>3 DEF RedumpTarget, AttachTypeOK
<1>8. ASSUME NEW c \in Client, RedumpSend(c) PROVE AttachTypeOK'
  <2>1. redump[c] \in Redump
    BY <1>8 DEF RedumpSend, AttachTypeOK
  <2>2. redump[c].n \in 0..MaxChunks
    BY <2>1 DEF Redump
  <2>3. Msg("dump", redump[c].n) \in Message
    BY <2>2 DEF Msg, Message
  <2> DEFINE to == redump[c].to
             m == Msg("dump", redump[c].n)
  <2>5. to \in Client
    BY <1>8, <2>1 DEF RedumpSend, Redump
  <2>6. chan' = chan \/ chan' = [chan EXCEPT ![to] = Append(@, m)]
    BY <1>8 DEF RedumpSend
  <2>4. chan' \in [Client -> Seq(Message)]
    <3> HIDE DEF to, m
    <3>1. Append(chan[to], m) \in Seq(Message)
      BY <2>3, <2>5 DEF AttachTypeOK, m
    <3>2. chan \in [Client -> Seq(Message)]
      BY DEF AttachTypeOK
    <3> QED BY <2>5, <2>6, <3>1, <3>2
  <2> QED BY <1>8, <2>4 DEF RedumpSend, AttachTypeOK
<1>9. CASE ReadChunk
  BY <1>9 DEF ReadChunk, AttachTypeOK, LoopState
<1>10. CASE SendChunk
  <2>1. sendTo \in Client
    BY <1>10 DEF SendChunk, SendLink, AttachTypeOK
  <2> DEFINE m == Msg("out", vt)
  <2>2. m \in Message
    BY <2>1, SentType DEF Msg, Message, AttachTypeOK
  <2>3. chan' = chan \/ chan' = [chan EXCEPT ![sendTo] = Append(@, m)]
    BY <1>10 DEF SendChunk
  <2> HIDE DEF m
  <2>4. chan' \in [Client -> Seq(Message)]
    <3>1. Append(chan[sendTo], m) \in Seq(Message)
      BY <2>1, <2>2 DEF AttachTypeOK
    <3> QED BY <2>1, <2>3, <3>1, ZenonT(60) DEF AttachTypeOK
  <2> QED BY <1>10, <2>1, <2>4 DEF SendChunk, AttachTypeOK, LoopState
<1>11. CASE SlowClient
  <2>1. sendTo \in Client
    BY <1>11 DEF SlowClient, SendLink, AttachTypeOK
  <2> QED BY <1>11, <2>1 DEF SlowClient, Released, AttachTypeOK, LoopState
<1>12. CASE Eof
  BY <1>12 DEF Eof, AttachTypeOK, LoopState
<1>13. CASE ReapExited
  BY <1>13 DEF ReapExited, AttachTypeOK, LoopState
<1>14. CASE ReapTake
  BY <1>14 DEF ReapTake, AttachTypeOK, LoopState
<1>15. CASE ReapTell
  <2>1. sendTo \in Client
    BY <1>15 DEF ReapTell, SendLink, AttachTypeOK
  <2> DEFINE m == Msg("exit", Sent(sendTo))
  <2>2. m \in Message
    BY <2>1, SentType DEF Msg, Message, AttachTypeOK
  <2>3. chan' = chan \/ chan' = [chan EXCEPT ![sendTo] = Append(@, m)]
    BY <1>15 DEF ReapTell
  <2> HIDE DEF m
  <2>4. chan' \in [Client -> Seq(Message)]
    <3>1. Append(chan[sendTo], m) \in Seq(Message)
      BY <2>1, <2>2 DEF AttachTypeOK
    <3> QED BY <2>1, <2>3, <3>1, ZenonT(60) DEF AttachTypeOK
  <2> QED BY <1>15, <2>1, <2>4 DEF ReapTell, AttachTypeOK, LoopState
<1>16. CASE ReapUnlist
  BY <1>16 DEF ReapUnlist, AttachTypeOK, LoopState
<1>17. CASE Kill
  BY <1>17 DEF Kill, AttachTypeOK, LoopState
<1>18. CASE KillSession
  BY <1>18 DEF KillSession, AttachTypeOK, LoopState
<1>19. CASE NameRead
  BY <1>19 DEF NameRead, AttachTypeOK, LoopState
<1>20. CASE NameSend
  <2>1. nameTo \in Client
    BY <1>20 DEF NameSend, SendLink, AttachTypeOK
  <2> DEFINE m == Msg("name", Sent(nameTo))
  <2>2. m \in Message
    BY <2>1, SentType DEF Msg, Message, AttachTypeOK
  <2>3. chan' = chan \/ chan' = [chan EXCEPT ![nameTo] = Append(@, m)]
    BY <1>20 DEF NameSend
  <2> HIDE DEF m
  <2>4. chan' \in [Client -> Seq(Message)]
    <3>1. Append(chan[nameTo], m) \in Seq(Message)
      BY <2>1, <2>2 DEF AttachTypeOK
    <3> QED BY <2>1, <2>3, <3>1, ZenonT(60) DEF AttachTypeOK
  <2> QED BY <1>20, <2>1, <2>4 DEF NameSend, Released, AttachTypeOK, LoopState
<1>21. CASE UNCHANGED attachVars
  BY <1>21 DEF attachVars, AttachTypeOK, LoopState
<1> QED
  BY <1>1, <1>2, <1>3, <1>4, <1>5, <1>6, <1>7, <1>8, <1>9, <1>10, <1>11,
     <1>12, <1>13, <1>14, <1>15, <1>16, <1>17, <1>18, <1>19, <1>20, <1>21
  DEF AttachNext, ReadLoop, Reap, Handler

\* The read_loop/reap task names a client exactly while it is sending to it.
LEMMA LinkStep ==
  AttachTypeOK /\ SendLink /\ [AttachNext]_attachVars => SendLink'
<1> SUFFICES ASSUME AttachTypeOK, SendLink, [AttachNext]_attachVars
             PROVE  SendLink'
  OBVIOUS
<1> USE DEF SendLink, AttachTypeOK, LoopState, readVars
<1>1. CASE ReadLoop
  BY <1>1, AttachAssumption DEF ReadLoop, ReadChunk, SendChunk, SlowClient, Eof
<1>2. CASE Reap
  BY <1>2, AttachAssumption DEF Reap, ReapExited, ReapTake, ReapTell, ReapUnlist
<1>3. ASSUME UNCHANGED <<loop, sendTo>> PROVE SendLink'
  BY <1>3
<1>4. CASE Kill \/ KillSession \/ NameRead \/ NameSend \/ UNCHANGED attachVars
  BY <1>3, <1>4 DEF Kill, KillSession, NameRead, NameSend, attachVars
<1>5. ASSUME NEW c \in Client, Handler(c) PROVE SendLink'
  BY <1>3, <1>5 DEF Handler, Acquire, AttachOn, Forward, ChannelEnd, Disconnect,
                    End, Resize, RedumpTarget, RedumpSend
<1> QED BY <1>1, <1>2, <1>4, <1>5 DEF AttachNext

\* A re-dump is only ever sent to clients recorded as its addressees.
LEMMA RedumpLinkStep ==
  AttachTypeOK /\ RedumpLink /\ [AttachNext]_attachVars => RedumpLink'
<1> SUFFICES ASSUME AttachTypeOK, RedumpLink, [AttachNext]_attachVars
             PROVE  RedumpLink'
  OBVIOUS
<1> USE AttachAssumption DEF dumpVars
<1>1. ASSUME UNCHANGED <<redump, redumped>> PROVE RedumpLink'
  BY <1>1 DEF RedumpLink
<1>2. ASSUME NEW c \in Client, redump' = [redump EXCEPT ![c] = Nobody],
             redumped' = redumped
      PROVE  RedumpLink'
  BY <1>2 DEF RedumpLink, AttachTypeOK
<1>3. ASSUME NEW c \in Client, Resize(c) PROVE RedumpLink'
  <2>1. /\ redump' = [redump EXCEPT ![c] = [n |-> vt, to |-> Nobody]]
        /\ redumped' = redumped
    BY <1>3 DEF Resize
  <2> QED BY <2>1 DEF RedumpLink, AttachTypeOK
<1>4. ASSUME NEW c \in Client, RedumpTarget(c) PROVE RedumpLink'
  <2>1. redump[c] \in Redump
    BY <1>4 DEF RedumpTarget, AttachTypeOK
  <2>2. [redump[c] EXCEPT !.to = slot].to = slot
    BY <2>1 DEF Redump
  <2>3. /\ redumped' = redumped \cup ({slot} \ {Nobody})
        /\ \A h \in Client : h # c => redump'[h] = redump[h]
        /\ redump'[c] = IF slot = Nobody THEN Nobody
                                      ELSE [redump[c] EXCEPT !.to = slot]
    BY <1>4 DEF RedumpTarget, AttachTypeOK
  <2> QED BY <2>2, <2>3 DEF RedumpLink
<1>5. ASSUME NEW c \in Client, Handler(c) PROVE RedumpLink'
  <2>1. CASE Acquire(c) \/ AttachOn(c) \/ Forward(c)
    BY <1>1, <2>1 DEF Acquire, AttachOn, Forward
  <2>2. CASE ChannelEnd(c) \/ Disconnect(c) \/ RedumpSend(c)
    BY <1>2, <2>2 DEF ChannelEnd, Disconnect, End, RedumpSend
  <2> QED BY <1>3, <1>4, <1>5, <2>1, <2>2 DEF Handler
<1>6. CASE ReadLoop \/ Reap
  BY <1>1, <1>6 DEF ReadLoop, ReadChunk, SendChunk, SlowClient, Eof, Reap,
                    ReapExited, ReapTake, ReapTell, ReapUnlist
<1>7. CASE Kill \/ KillSession \/ NameRead \/ NameSend \/ UNCHANGED attachVars
  BY <1>1, <1>7 DEF Kill, KillSession, NameRead, NameSend, attachVars
<1> QED BY <1>5, <1>6, <1>7 DEF AttachNext

\* Every variable keeps its type.
THEOREM TypeCorrect == AttachSpec => []AttachTypeOK
<1>1. AttachInit => SendLink
  BY DEF AttachInit, SendLink
<1> QED BY <1>1, TypeInit, TypeStep, LinkStep, PTL DEF AttachSpec
-----------------------------------------------------------------------------
\* Queueing the message m that continues the channel of c.
LEMMA QueueStep ==
  ASSUME AttachTypeOK, Continues, NEW c \in Plain, NEW m \in Message,
         m.kind # "dump", m.n = Sent(c) + Adds(m), m.n <= vt,
         chan' = [chan EXCEPT ![c] = Append(@, m)],
         got' = got, vt' = vt, redumped' = redumped
  PROVE  /\ Continues'
         /\ Sent(c)' = m.n
         /\ \A d \in Client : d # c => Sent(d)' = Sent(d) /\ chan'[d] = chan[d]
         /\ \A i \in 1..Len(chan'[c]) : 
                \/ chan'[c][i] = m
                \/ i \in 1..Len(chan[c]) /\ chan'[c][i] = chan[c][i]
<1> USE DEF Plain
<1> DEFINE s == chan[c]
           t == Append(s, m)
<1>1. s \in Seq(Message) /\ got[c] \in Nat /\ Run(s, got[c])
  BY DEF AttachTypeOK, Continues
<1>2. LastStamp(s, got[c]) = Sent(c)
  BY DEF LastStamp, Sent
<1>3. /\ t \in Seq(Message)
      /\ Run(t, got[c])
      /\ LastStamp(t, got[c]) = m.n
      /\ Len(t) = Len(s) + 1
      /\ \A i \in 1..Len(s) : t[i] = s[i]
      /\ t[Len(s) + 1] = m
  <2> HIDE DEF s
  <2> QED BY <1>1, <1>2, AppendRun
<1>4. chan'[c] = t /\ \A d \in Client : d # c => chan'[d] = chan[d]
  BY DEF AttachTypeOK
<1>5. Len(s) \in Nat
  BY <1>1
<1> HIDE DEF s, t
<1>6. \A i \in 1..Len(t) : t[i] = m \/ (i \in 1..Len(s) /\ t[i] = s[i])
  <2> SUFFICES ASSUME NEW i \in 1..Len(t)
               PROVE  t[i] = m \/ (i \in 1..Len(s) /\ t[i] = s[i])
    OBVIOUS
  <2>1. i \in 1..Len(s) \/ i = Len(s) + 1
    BY <1>3, <1>5
  <2>2. CASE i \in 1..Len(s)
    BY <1>3, <2>2
  <2>3. CASE i = Len(s) + 1
    <3>1. t[i] = t[Len(s) + 1]
      BY <2>3
    <3> QED BY <1>3, <3>1
  <2> QED BY <2>1, <2>2, <2>3
<1>7. Sent(c)' = m.n
  BY <1>3, <1>4 DEF Sent, LastStamp
<1>8. \A d \in Client : d # c => Sent(d)' = Sent(d)
  BY <1>4 DEF Sent
<1>9. Continues'
  <2> SUFFICES ASSUME NEW d \in Plain
               PROVE  /\ Run(chan'[d], got[d])
                      /\ got[d] <= vt
                      /\ \A i \in 1..Len(chan'[d]) : chan'[d][i].n <= vt
    BY DEF Continues
  <2>1. CASE d = c
    <3>1. \A i \in 1..Len(s) : s[i].n <= vt
      BY DEF Continues, s
    <3>2. \A i \in 1..Len(t) : t[i].n <= vt
      BY <1>6, <3>1
    <3>3. got[c] <= vt
      BY DEF Continues
    <3> QED BY <1>3, <1>4, <2>1, <3>2, <3>3
  <2>2. CASE d # c
    BY <1>4, <2>2 DEF Continues
  <2> QED BY <2>1, <2>2
<1> QED BY <1>4, <1>6, <1>7, <1>8, <1>9 DEF s, t
-----------------------------------------------------------------------------
\* A step that leaves the clients of the plain stream alone.
LEMMA Elsewhere ==
  ASSUME Continues, NoGap, Exits, vt' = vt, redumped' \in SUBSET Client,
         redumped \subseteq redumped',
         \A d \in Plain' : /\ chan'[d] = chan[d] /\ got'[d] = got[d]
                           /\ told'[d] = told[d] /\ torn'[d] = torn[d],
         loop \in {"removing", "done"} => loop' \in {"removing", "done"}
  PROVE  Continues' /\ NoGap' /\ Exits' /\ \A d \in Plain' : Sent(d)' = Sent(d)
<1>1. Plain' \subseteq Plain
  BY DEF Plain
<1>2. Continues'
  BY <1>1 DEF Continues
<1>3. NoGap' /\ Exits'
  BY <1>1 DEF NoGap, Exits
<1>4. \A d \in Plain' : Sent(d)' = Sent(d)
  BY <1>1 DEF Sent
<1> QED BY <1>2, <1>3, <1>4

\* A step that concerns only the channel of an attached client c outside the
\* plain stream, or ends the send to it.
LEMMA Aside ==
  ASSUME AttachTypeOK, Links, Continues, Target, InSync, Exits, NoGap, SendLink',
         NEW c \in Client, c \notin Plain, hpc[c] = "attached",
         \A d \in Client : d # c => /\ chan'[d] = chan[d] /\ got'[d] = got[d]
                                   /\ told'[d] = told[d] /\ torn'[d] = torn[d],
         UNCHANGED <<vt, slot, hpc, redumped>>,
         nameTo' \in {nameTo, Nobody},
         \/ loop' = loop /\ sendTo' = sendTo
         \/ /\ sendTo = c /\ sendTo' = Nobody
            /\ loop \in {"sending", "telling"}
            /\ loop' \in {"reading", "removing"}
  PROVE  Links' /\ Continues' /\ Target' /\ InSync' /\ Exits' /\ NoGap'
<1>1. Plain' = Plain /\ Plain \subseteq Client /\ Nobody \notin Plain
  BY AttachAssumption DEF Plain
<1>2. \A d \in Plain : /\ chan'[d] = chan[d] /\ got'[d] = got[d]
                       /\ told'[d] = told[d] /\ torn'[d] = torn[d]
  BY <1>1
<1>3. Continues' /\ NoGap' /\ Exits' /\ \A d \in Plain : Sent(d)' = Sent(d)
  <2>1. redumped' \in SUBSET Client /\ redumped \subseteq redumped'
    BY DEF AttachTypeOK
  <2> QED BY <1>1, <1>2, <2>1, Elsewhere
<1>4. Links'
  BY DEF Links
<1>5. \A d \in Plain : InFlight(d)' = InFlight(d)
  BY <1>1 DEF InFlight
<1>6. InSync'
  BY <1>1, <1>3, <1>5 DEF InSync
<1>7. Target'
  BY <1>1, <1>3, <1>5 DEF Target
<1> QED BY <1>3, <1>4, <1>6, <1>7

\* The inductive invariant holds of a pty no client has attached to.
LEMMA StreamInit == AttachInit => StreamInv
<1> SUFFICES ASSUME AttachInit PROVE StreamInv
  OBVIOUS
<1>1. \A c \in Client : chan[c] = <<>> /\ got[c] = 0 /\ ~told[c] /\ ~torn[c]
  BY DEF AttachInit
<1>2. Continues /\ Exits
  BY <1>1 DEF Continues, Exits, Run, AttachInit, Plain
<1> QED
  BY <1>1, <1>2, TypeInit, AttachAssumption
  DEF AttachInit, StreamInv, Links, SendLink, RedumpLink, Target, InSync, NoGap, Plain

\* One step of the inductive argument per action.
LEMMA StreamStep == StreamInv /\ [AttachNext]_attachVars => StreamInv'
<1> DEFINE Rest == Links /\ Continues /\ Target /\ InSync /\ Exits /\ NoGap
<1> SUFFICES ASSUME StreamInv, [AttachNext]_attachVars
             PROVE  AttachTypeOK' /\ RedumpLink' /\ Rest'
  BY DEF StreamInv
<1>0. /\ AttachTypeOK /\ AttachTypeOK' /\ RedumpLink /\ RedumpLink'
      /\ Rest /\ SendLink'
  BY TypeStep, LinkStep, RedumpLinkStep DEF StreamInv, Links
<1>p. Plain \subseteq Client /\ Nobody \notin Plain
  BY AttachAssumption DEF Plain
<1> USE AttachAssumption
    DEF readVars, nameVars, clientVars, dumpVars, historyVars
<1>s. \A c \in Client : Sent(c) \in Nat /\ got[c] \in Nat /\ vt \in Nat
  <2> TAKE c \in Client
  <2>1. Sent(c) \in 0..MaxChunks
    BY <1>0, SentType
  <2> QED BY <1>0, <2>1 DEF AttachTypeOK
<1>1. ASSUME NEW c \in Client, Acquire(c) PROVE Rest'
  <2>1. Links'
    BY <1>0, <1>1 DEF Acquire, Links, AttachTypeOK
  <2>2. Continues' /\ NoGap'
    BY <1>0, <1>1 DEF Acquire, Continues, NoGap, Plain
  <2>3. Target'
    BY <1>0, <1>s, <1>1
    DEF Acquire, Target, InSync, InFlight, Sent,
        Links, SendLink, Plain, AttachTypeOK
  <2>4. InSync'
    BY <1>0, <1>s, <1>1
    DEF Acquire, InSync, InFlight, Sent,
        Links, SendLink, Plain, AttachTypeOK
  <2>5. Exits'
    BY <1>0, <1>1 DEF Acquire, Exits, Plain
  <2> QED BY <2>1, <2>2, <2>3, <2>4, <2>5
<1>2. ASSUME SlowClient PROVE Rest'
  <2>1. Links'
    BY <1>0, <1>2 DEF SlowClient, Released, Links, AttachTypeOK
  <2>2. Continues' /\ NoGap'
    BY <1>0, <1>2 DEF SlowClient, Released, Continues, NoGap, Plain
  <2>3. Target'
    BY <1>0, <1>s, <1>2
    DEF SlowClient, Released, Target, InSync, InFlight, Sent,
        Links, SendLink, Plain, AttachTypeOK
  <2>4. InSync'
    BY <1>0, <1>s, <1>2
    DEF SlowClient, Released, InSync, InFlight, Sent,
        Links, SendLink, Plain, AttachTypeOK
  <2>5. Exits'
    BY <1>0, <1>2 DEF SlowClient, Released, Exits, Plain
  <2> QED BY <2>1, <2>2, <2>3, <2>4, <2>5
<1>3. ASSUME Eof PROVE Rest'
  <2>1. Links'
    BY <1>0, <1>3 DEF Eof, Links, AttachTypeOK
  <2>2. Continues' /\ NoGap'
    BY <1>0, <1>3 DEF Eof, Continues, NoGap, Plain
  <2>3. Target'
    BY <1>0, <1>s, <1>3
    DEF Eof, Target, InSync, InFlight, Sent,
        Links, SendLink, Plain, AttachTypeOK
  <2>4. InSync'
    BY <1>0, <1>s, <1>3
    DEF Eof, InSync, InFlight, Sent,
        Links, SendLink, Plain, AttachTypeOK
  <2>5. Exits'
    BY <1>0, <1>3 DEF Eof, Exits, Plain
  <2> QED BY <2>1, <2>2, <2>3, <2>4, <2>5
<1>4. ASSUME ReapExited PROVE Rest'
  <2>1. Links'
    BY <1>0, <1>4 DEF ReapExited, Links, AttachTypeOK
  <2>2. Continues' /\ NoGap'
    BY <1>0, <1>4 DEF ReapExited, Continues, NoGap, Plain
  <2>3. Target'
    BY <1>0, <1>s, <1>4
    DEF ReapExited, Target, InSync, InFlight, Sent,
        Links, SendLink, Plain, AttachTypeOK
  <2>4. InSync'
    BY <1>0, <1>s, <1>4
    DEF ReapExited, InSync, InFlight, Sent,
        Links, SendLink, Plain, AttachTypeOK
  <2>5. Exits'
    BY <1>0, <1>4 DEF ReapExited, Exits, Plain
  <2> QED BY <2>1, <2>2, <2>3, <2>4, <2>5
<1>5. ASSUME ReapTake PROVE Rest'
  <2>1. Links'
    BY <1>0, <1>5 DEF ReapTake, Links, AttachTypeOK
  <2>2. Continues' /\ NoGap'
    BY <1>0, <1>5 DEF ReapTake, Continues, NoGap, Plain
  <2>3. Target'
    BY <1>0, <1>s, <1>5
    DEF ReapTake, Target, InSync, InFlight, Sent,
        Links, SendLink, Plain, AttachTypeOK
  <2>4. InSync'
    BY <1>0, <1>s, <1>5
    DEF ReapTake, InSync, InFlight, Sent,
        Links, SendLink, Plain, AttachTypeOK
  <2>5. Exits'
    BY <1>0, <1>5 DEF ReapTake, Exits, Plain
  <2> QED BY <2>1, <2>2, <2>3, <2>4, <2>5
<1>6. ASSUME ReapUnlist PROVE Rest'
  <2>1. Links'
    BY <1>0, <1>6 DEF ReapUnlist, Links, AttachTypeOK
  <2>2. Continues' /\ NoGap'
    BY <1>0, <1>6 DEF ReapUnlist, Continues, NoGap, Plain
  <2>3. Target'
    BY <1>0, <1>s, <1>6
    DEF ReapUnlist, Target, InSync, InFlight, Sent,
        Links, SendLink, Plain, AttachTypeOK
  <2>4. InSync'
    BY <1>0, <1>s, <1>6
    DEF ReapUnlist, InSync, InFlight, Sent,
        Links, SendLink, Plain, AttachTypeOK
  <2>5. Exits'
    BY <1>0, <1>6 DEF ReapUnlist, Exits, Plain
  <2> QED BY <2>1, <2>2, <2>3, <2>4, <2>5
<1>7. ASSUME Kill PROVE Rest'
  <2>1. Links'
    BY <1>0, <1>7 DEF Kill, Links, AttachTypeOK
  <2>2. Continues' /\ NoGap'
    BY <1>0, <1>7 DEF Kill, Continues, NoGap, Plain
  <2>3. Target'
    BY <1>0, <1>s, <1>7
    DEF Kill, Target, InSync, InFlight, Sent,
        Links, SendLink, Plain, AttachTypeOK
  <2>4. InSync'
    BY <1>0, <1>s, <1>7
    DEF Kill, InSync, InFlight, Sent,
        Links, SendLink, Plain, AttachTypeOK
  <2>5. Exits'
    BY <1>0, <1>7 DEF Kill, Exits, Plain
  <2> QED BY <2>1, <2>2, <2>3, <2>4, <2>5
<1>8. ASSUME KillSession PROVE Rest'
  <2>1. Links'
    BY <1>0, <1>8 DEF KillSession, Links, AttachTypeOK
  <2>2. Continues' /\ NoGap'
    BY <1>0, <1>8 DEF KillSession, Continues, NoGap, Plain
  <2>3. Target'
    BY <1>0, <1>s, <1>8
    DEF KillSession, Target, InSync, InFlight, Sent,
        Links, SendLink, Plain, AttachTypeOK
  <2>4. InSync'
    BY <1>0, <1>s, <1>8
    DEF KillSession, InSync, InFlight, Sent,
        Links, SendLink, Plain, AttachTypeOK
  <2>5. Exits'
    BY <1>0, <1>8 DEF KillSession, Exits, Plain
  <2> QED BY <2>1, <2>2, <2>3, <2>4, <2>5
<1>9. ASSUME NameRead PROVE Rest'
  <2>1. Links'
    BY <1>0, <1>9 DEF NameRead, Links, AttachTypeOK
  <2>2. Continues' /\ NoGap'
    BY <1>0, <1>9 DEF NameRead, Continues, NoGap, Plain
  <2>3. Target'
    BY <1>0, <1>s, <1>9
    DEF NameRead, Target, InSync, InFlight, Sent,
        Links, SendLink, Plain, AttachTypeOK
  <2>4. InSync'
    BY <1>0, <1>s, <1>9
    DEF NameRead, InSync, InFlight, Sent,
        Links, SendLink, Plain, AttachTypeOK
  <2>5. Exits'
    BY <1>0, <1>9 DEF NameRead, Exits, Plain
  <2> QED BY <2>1, <2>2, <2>3, <2>4, <2>5
<1>10. ASSUME UNCHANGED attachVars PROVE Rest'
  <2>1. Links'
    BY <1>0, <1>10 DEF attachVars, Links, AttachTypeOK
  <2>2. Continues' /\ NoGap'
    BY <1>0, <1>10 DEF attachVars, Continues, NoGap, Plain
  <2>3. Target'
    BY <1>0, <1>s, <1>10
    DEF attachVars, Target, InSync, InFlight, Sent,
        Links, SendLink, Plain, AttachTypeOK
  <2>4. InSync'
    BY <1>0, <1>s, <1>10
    DEF attachVars, InSync, InFlight, Sent,
        Links, SendLink, Plain, AttachTypeOK
  <2>5. Exits'
    BY <1>0, <1>10 DEF attachVars, Exits, Plain
  <2> QED BY <2>1, <2>2, <2>3, <2>4, <2>5
<1>11. ASSUME NEW c \in Client, Resize(c) \/ RedumpTarget(c) \/ RedumpSend(c)
       PROVE  Rest'
  <2>1. /\ UNCHANGED <<vt, loop, sendTo, nameTo, slot, hpc, got, torn, told>>
        /\ redumped \subseteq redumped' /\ redumped' \in SUBSET Client
    BY <1>0, <1>11 DEF Resize, RedumpTarget, RedumpSend, AttachTypeOK
  <2>2. \A d \in Client :
            hpc[d] # "attached" \/ d \in Plain' => chan'[d] = chan[d]
    <3>1. CASE Resize(c) \/ RedumpTarget(c)
      BY <3>1 DEF Resize, RedumpTarget
    <3>2. CASE RedumpSend(c)
      <4>1. redump[c] \in Redump /\ redump[c].to \in redumped
        BY <1>0, <3>2 DEF RedumpSend, RedumpLink, AttachTypeOK
      <4> DEFINE to == redump[c].to
      <4>2. to \in Client /\ to \notin Plain'
        BY <2>1, <4>1 DEF Plain
      <4>3. \/ chan' = chan
            \/ /\ hpc[to] = "attached"
               /\ chan' = [chan EXCEPT ![to] =
                             Append(@, Msg("dump", redump[c].n))]
        BY <3>2 DEF RedumpSend, Accepts
      <4> HIDE DEF to
      <4> QED BY <1>0, <4>2, <4>3 DEF AttachTypeOK
    <3> QED BY <1>11, <3>1, <3>2
  <2>3. Plain' \subseteq Plain
    BY <2>1 DEF Plain
  <2>4. Continues' /\ NoGap' /\ Exits' /\ \A d \in Plain' : Sent(d)' = Sent(d)
    <3>1. \A d \in Plain' : /\ chan'[d] = chan[d] /\ got'[d] = got[d]
                            /\ told'[d] = told[d] /\ torn'[d] = torn[d]
      BY <1>p, <2>1, <2>2, <2>3
    <3>2. Continues /\ NoGap /\ Exits /\ vt' = vt /\ loop' = loop
      BY <1>0, <2>1
    <3> QED BY <2>1, <3>1, <3>2, Elsewhere
  <2>5. Links'
    BY <1>0, <2>1, <2>2 DEF Links, SendLink
  <2>6. Target' /\ InSync'
    BY <1>0, <2>1, <2>3, <2>4 DEF Target, InSync, InFlight
  <2> QED BY <2>4, <2>5, <2>6
<1>12. ASSUME NEW c \in Client, AttachOn(c) PROVE Rest'
  <2> DEFINE s == IF foreground THEN <<Msg("name", vt)>> ELSE <<>>
  <2>1. /\ chan'[c] = s /\ got'[c] = vt /\ vt' = vt
        /\ \A d \in Client : d # c => chan'[d] = chan[d] /\ got'[d] = got[d]
    BY <1>0, <1>12 DEF AttachOn, AttachTypeOK
  <2>2. /\ Run(s, vt) /\ LastStamp(s, vt) = vt
        /\ \A i \in 1..Len(s) : s[i].n = vt /\ s[i].kind = "name"
    <3>1. CASE foreground
      <4> DEFINE r == Msg("name", vt)
      <4>1. s = <<r>> /\ r.n = vt /\ r.kind = "name"
        BY <3>1 DEF Msg
      <4> HIDE DEF s, r
      <4>2. s # <<>> /\ Len(s) = 1 /\ s[1] = r
        BY <4>1
      <4> QED BY <1>s, <4>1, <4>2 DEF Run, LastStamp, Adds
    <3>2. CASE ~foreground
      BY <3>2 DEF Run, LastStamp
    <3> QED BY <3>1, <3>2
  <2> HIDE DEF s
  <2>3. /\ sendTo # c
        /\ slot' = c /\ hpc'[c] = "attached"
        /\ \A d \in Client : d # c => hpc'[d] = hpc[d]
        /\ UNCHANGED <<loop, sendTo, nameTo, told, torn, redumped>>
    BY <1>0, <1>12 DEF AttachOn, Links, AttachTypeOK
  <2>p. Plain' = Plain
    BY <2>3 DEF Plain
  <2>4. /\ Sent(c)' = vt
        /\ \A d \in Client : d # c => Sent(d)' = Sent(d)
    BY <2>1, <2>2 DEF Sent, LastStamp
  <2>5. Links'
    BY <1>0, <2>1, <2>3 DEF Links, SendLink, AttachTypeOK
  <2>6. Continues'
    <3> SUFFICES ASSUME NEW d \in Plain
                 PROVE  /\ Run(chan'[d], got'[d])
                        /\ got'[d] <= vt
                        /\ \A i \in 1..Len(chan'[d]) : chan'[d][i].n <= vt
      BY <2>1, <2>p DEF Continues
    <3>1. CASE d = c
      BY <1>s, <2>1, <2>2, <3>1
    <3>2. CASE d # c
      BY <1>0, <1>p, <2>1, <3>2 DEF Continues
    <3> QED BY <3>1, <3>2
  <2>7. Target' /\ InSync'
    <3>1. InFlight(c)' = 0
      BY <2>3 DEF InFlight
    <3>2. InSync'
      BY <1>s, <1>p, <2>1, <2>3, <2>4, <2>p, <3>1 DEF InSync
    <3>3. Target'
      <4> SUFFICES ASSUME sendTo \in Plain, hpc'[sendTo] = "attached"
                   PROVE  Sent(sendTo)' + InFlight(sendTo)' = vt
        BY <2>1, <2>3, <2>p DEF Target, InFlight
      <4>1. sendTo \in Client /\ sendTo # c /\ hpc[sendTo] = "attached"
        BY <1>0, <1>p, <2>3 DEF AttachTypeOK
      <4>2. Sent(sendTo)' = Sent(sendTo) /\ InFlight(sendTo)' = InFlight(sendTo)
        BY <2>3, <2>4, <4>1 DEF InFlight
      <4> QED BY <1>0, <4>1, <4>2 DEF Target
    <3> QED BY <3>2, <3>3
  <2>8. Exits'
    <3> SUFFICES ASSUME NEW d \in Plain
                 PROVE  /\ told[d] => got'[d] = vt /\ loop \in {"removing", "done"}
                        /\ \A i \in 1..Len(chan'[d]) :
                             chan'[d][i].kind = "exit" =>
                               chan'[d][i].n = vt /\ loop \in {"removing", "done"}
      BY <2>1, <2>3, <2>p DEF Exits
    <3>1. CASE d = c
      BY <1>0, <2>1, <2>2, <3>1 DEF Exits
    <3>2. CASE d # c
      BY <1>0, <1>p, <2>1, <3>2 DEF Exits
    <3> QED BY <3>1, <3>2
  <2> QED BY <1>0, <2>3, <2>p, <2>5, <2>6, <2>7, <2>8 DEF NoGap
<1>13. ASSUME NEW c \in Client, Forward(c) PROVE Rest'
  <2>a. ASSUME c \notin Plain PROVE Rest'
    <3>1. /\ hpc[c] = "attached"
          /\ \A d \in Client : d # c => /\ chan'[d] = chan[d] /\ got'[d] = got[d]
                                        /\ told'[d] = told[d] /\ torn'[d] = torn[d]
          /\ UNCHANGED <<vt, slot, hpc, redumped>>
          /\ nameTo' = nameTo /\ loop' = loop /\ sendTo' = sendTo
      BY <1>0, <1>13 DEF Forward, AttachTypeOK
    <3> QED BY <1>0, <2>a, <3>1, Aside
  <2> SUFFICES ASSUME c \in Plain PROVE Rest'
    BY <2>a
  <2> DEFINE s == chan[c]
             m == Head(s)
  <2>1. s \in Seq(Message) /\ got[c] \in Nat /\ s # <<>> /\ Run(s, got[c])
    BY <1>0, <1>13 DEF Forward, AttachTypeOK, Continues
  <2>2. /\ m = s[1] /\ m \in Message
        /\ m.n = got[c] + Adds(m)
        /\ Run(Tail(s), m.n)
        /\ LastStamp(Tail(s), m.n) = LastStamp(s, got[c])
        /\ Len(Tail(s)) = Len(s) - 1
        /\ \A i \in 1..Len(Tail(s)) : Tail(s)[i] = s[i + 1]
    <3> HIDE DEF s
    <3> QED BY <2>1, TailRun
  <2>3. Len(s) \in Nat /\ Len(s) >= 1
    BY <2>1
  <2>4. /\ chan'[c] = Tail(s)
        /\ \A d \in Client : d # c => /\ chan'[d] = chan[d] /\ got'[d] = got[d]
                                      /\ told'[d] = told[d] /\ torn'[d] = torn[d]
        /\ UNCHANGED <<vt, loop, sendTo, nameTo, slot, hpc, redumped>>
    BY <1>0, <1>13 DEF Forward, AttachTypeOK
  <2>p. Plain' = Plain
    BY <2>4 DEF Plain
  <2>5. m.kind # "dump"
    BY <2>1, <2>2, <2>3 DEF Run
  <2>6. /\ got'[c] = m.n
        /\ torn'[c] = torn[c]
        /\ told'[c] = (told[c] \/ m.kind = "exit")
    <3> HIDE DEF m
    <3>1. /\ m.kind \in {"out", "exit", "name"}
          /\ m.kind # "out" => m.n = got[c]
          /\ m.kind = "out" => m.n = got[c] + 1
      BY <1>s, <2>2, <2>5 DEF Adds, Message
    <3>2. \/ /\ m.kind = "out"
             /\ torn' = [torn EXCEPT ![c] = @ \/ m.n # got[c] + 1]
             /\ got' = [got EXCEPT ![c] = m.n]
             /\ told' = told
          \/ /\ m.kind = "exit"
             /\ told' = [told EXCEPT ![c] = TRUE]
             /\ got' = got /\ torn' = torn
          \/ /\ m.kind = "name"
             /\ got' = got /\ torn' = torn /\ told' = told
      BY <1>13, <2>5 DEF Forward, m
    <3>3. CASE m.kind = "out"
      BY <1>0, <3>1, <3>2, <3>3 DEF AttachTypeOK
    <3>4. CASE m.kind = "exit"
      BY <1>0, <3>1, <3>2, <3>4 DEF AttachTypeOK
    <3>5. CASE m.kind = "name"
      BY <1>0, <3>1, <3>2, <3>5 DEF AttachTypeOK
    <3> QED BY <3>1, <3>3, <3>4, <3>5
  <2>7. /\ m.n <= vt
        /\ \A i \in 1..Len(Tail(s)) : Tail(s)[i].n <= vt
    <3>1. \A i \in 1..Len(s) : s[i].n <= vt
      BY <1>0 DEF Continues
    <3> HIDE DEF s, m
    <3> QED BY <2>2, <2>3, <3>1
  <2>8. /\ m.kind = "exit" => m.n = vt /\ loop \in {"removing", "done"}
        /\ \A i \in 1..Len(Tail(s)) : Tail(s)[i].kind = "exit" =>
               Tail(s)[i].n = vt /\ loop \in {"removing", "done"}
    <3>1. \A i \in 1..Len(s) : s[i].kind = "exit" =>
               s[i].n = vt /\ loop \in {"removing", "done"}
      BY <1>0 DEF Exits
    <3> HIDE DEF s, m
    <3> QED BY <2>2, <2>3, <3>1
  <2>9. told[c] => m.n = vt /\ loop \in {"removing", "done"}
    <3>1. told[c] => got[c] = vt /\ loop \in {"removing", "done"}
      BY <1>0 DEF Exits
    <3>2. m.n \in Nat /\ (m.n = got[c] \/ m.n = got[c] + 1)
      BY <1>s, <2>2, <2>5 DEF Adds
    <3> QED BY <1>s, <2>7, <3>1, <3>2
  <2>10. Sent(c)' = Sent(c) /\ \A d \in Client : d # c => Sent(d)' = Sent(d)
    BY <2>2, <2>4, <2>6 DEF Sent, LastStamp
  <2>11. hpc[c] = "attached"
    BY <1>13 DEF Forward
  <2> HIDE DEF s, m
  <2>12. Links'
    BY <1>0, <2>4, <2>11 DEF Links, SendLink, AttachTypeOK
  <2>13. Continues'
    <3> SUFFICES ASSUME NEW d \in Plain
                 PROVE  /\ Run(chan'[d], got'[d])
                        /\ got'[d] <= vt
                        /\ \A i \in 1..Len(chan'[d]) : chan'[d][i].n <= vt
      BY <2>4, <2>p DEF Continues
    <3>1. CASE d = c
      BY <2>2, <2>4, <2>6, <2>7, <3>1
    <3>2. CASE d # c
      BY <1>0, <1>p, <2>4, <3>2 DEF Continues
    <3> QED BY <3>1, <3>2
  <2>14. Target' /\ InSync'
    <3>1. \A d \in Client : Sent(d)' = Sent(d)
      BY <2>10
    <3> QED BY <1>0, <1>p, <2>4, <2>p, <3>1 DEF Target, InSync, InFlight, AttachTypeOK
  <2>15. Exits'
    <3> SUFFICES ASSUME NEW d \in Plain
                 PROVE  /\ told'[d] => got'[d] = vt /\ loop \in {"removing", "done"}
                        /\ \A i \in 1..Len(chan'[d]) :
                             chan'[d][i].kind = "exit" =>
                               chan'[d][i].n = vt /\ loop \in {"removing", "done"}
      BY <2>4, <2>p DEF Exits
    <3>1. CASE d = c
      BY <2>4, <2>6, <2>8, <2>9, <3>1
    <3>2. CASE d # c
      BY <1>0, <1>p, <2>4, <3>2 DEF Exits
    <3> QED BY <3>1, <3>2
  <2>16. NoGap'
    BY <1>0, <1>p, <2>4, <2>p, <2>6 DEF NoGap
  <2> QED BY <2>12, <2>13, <2>14, <2>15, <2>16
<1>14. ASSUME NEW c \in Client, ChannelEnd(c) \/ Disconnect(c) PROVE Rest'
  <2>1. /\ hpc[c] = "attached" /\ hpc'[c] = "ended" /\ chan'[c] = <<>>
        /\ \A d \in Client : d # c => chan'[d] = chan[d] /\ hpc'[d] = hpc[d]
        /\ slot' = IF slot = c THEN Nobody ELSE slot
        /\ UNCHANGED <<vt, loop, sendTo, nameTo, got, torn, told, redumped>>
    BY <1>0, <1>14 DEF ChannelEnd, Disconnect, End, Released, AttachTypeOK
  <2>p. Plain' = Plain
    BY <2>1 DEF Plain
  <2>2. Links'
    BY <1>0, <2>1 DEF Links, SendLink, AttachTypeOK
  <2>3. Continues'
    <3> SUFFICES ASSUME NEW d \in Plain
                 PROVE  /\ Run(chan'[d], got[d])
                        /\ got[d] <= vt
                        /\ \A i \in 1..Len(chan'[d]) : chan'[d][i].n <= vt
      BY <2>1, <2>p DEF Continues
    <3>1. CASE d = c
      BY <1>0, <2>1, <3>1 DEF Continues, Run
    <3>2. CASE d # c
      BY <1>0, <1>p, <2>1, <3>2 DEF Continues
    <3> QED BY <3>1, <3>2
  <2>4. \A d \in Client : d # c =>
            Sent(d)' = Sent(d) /\ InFlight(d)' = InFlight(d)
    BY <2>1 DEF Sent, InFlight
  <2>5. InSync'
    <3> SUFFICES ASSUME NEW d \in Plain, slot' = d
                 PROVE  Sent(d)' + InFlight(d)' = vt
      BY <2>1, <2>p DEF InSync
    <3>1. d # c /\ slot = d
      BY <1>p, <2>1
    <3> QED BY <1>0, <1>p, <2>4, <3>1 DEF InSync
  <2>6. Target'
    <3> SUFFICES ASSUME NEW d \in Plain, sendTo = d, hpc'[d] = "attached"
                 PROVE  Sent(d)' + InFlight(d)' = vt
      BY <1>0, <1>p, <2>1, <2>p DEF Target, AttachTypeOK, Sent, InFlight
    <3>1. d # c /\ hpc[d] = "attached"
      BY <1>p, <2>1
    <3> QED BY <1>0, <1>p, <2>4, <3>1 DEF Target
  <2>7. Exits'
    <3> SUFFICES ASSUME NEW d \in Plain
                 PROVE  /\ told[d] => got[d] = vt /\ loop \in {"removing", "done"}
                        /\ \A i \in 1..Len(chan'[d]) :
                             chan'[d][i].kind = "exit" =>
                               chan'[d][i].n = vt /\ loop \in {"removing", "done"}
      BY <2>1, <2>p DEF Exits
    <3>1. CASE d = c
      BY <1>0, <2>1, <3>1 DEF Exits
    <3>2. CASE d # c
      BY <1>0, <1>p, <2>1, <3>2 DEF Exits
    <3> QED BY <3>1, <3>2
  <2> QED BY <1>0, <2>1, <2>p, <2>2, <2>3, <2>5, <2>6, <2>7 DEF NoGap
<1>15. ASSUME ReadChunk PROVE Rest'
  <2>1. /\ loop = "reading" /\ vt' = vt + 1 /\ sendTo' = slot /\ sendTo = Nobody
        /\ loop' = IF slot = Nobody THEN "reading" ELSE "sending"
        /\ UNCHANGED <<slot, nameTo, hpc, chan, got, torn, told, redumped>>
    BY <1>0, <1>15 DEF ReadChunk, Links, SendLink
  <2>p. Plain' = Plain
    BY <2>1 DEF Plain
  <2>2. Links'
    BY <1>0, <2>1 DEF Links, AttachTypeOK
  <2>3. Continues'
    <3> SUFFICES ASSUME NEW d \in Plain
                 PROVE  /\ Run(chan[d], got[d])
                        /\ got[d] <= vt + 1
                        /\ \A i \in 1..Len(chan[d]) : chan[d][i].n <= vt + 1
      BY <2>1, <2>p DEF Continues
    <3>1. \A i \in 1..Len(chan[d]) : chan[d][i].n \in Nat
      <4>1. chan[d] \in Seq(Message)
        BY <1>0, <1>p DEF AttachTypeOK
      <4>2. \A i \in 1..Len(chan[d]) : chan[d][i] \in Message
        BY <4>1
      <4> QED BY <4>2 DEF Message
    <3> QED BY <1>0, <1>s, <1>p, <3>1 DEF Continues
  <2>4. \A d \in Client :
          /\ Sent(d)' = Sent(d)
          /\ InFlight(d) = 0
          /\ InFlight(d)' = IF slot = d THEN 1 ELSE 0
    BY <2>1 DEF Sent, InFlight
  <2>5. InSync'
    BY <1>0, <1>s, <1>p, <2>1, <2>p, <2>4 DEF InSync
  <2>6. Target'
    <3> SUFFICES ASSUME NEW d \in Plain, slot = d
                 PROVE  Sent(d)' + InFlight(d)' = vt'
      BY <1>0, <1>p, <2>1, <2>p DEF Target, AttachTypeOK, Sent, InFlight
    <3> QED BY <1>0, <1>s, <1>p, <2>1, <2>p, <2>4 DEF InSync
  <2>7. Exits'
    BY <1>0, <2>1, <2>p DEF Exits
  <2> QED BY <1>0, <2>1, <2>p, <2>2, <2>3, <2>5, <2>6, <2>7 DEF NoGap
<1>16. ASSUME SendChunk PROVE Rest'
  <2>1. sendTo \in Client /\ Msg("out", vt) \in Message
    BY <1>0, <1>16 DEF SendChunk, Links, SendLink, Msg, Message, AttachTypeOK
  <2>2. PICK c \in Client, m \in Message : c = sendTo /\ m = Msg("out", vt)
    BY <2>1
  <2>3. /\ chan' = [chan EXCEPT ![c] = Append(@, m)]
        /\ hpc[c] = "attached" /\ loop = "sending"
        /\ loop' = "reading" /\ sendTo' = Nobody
        /\ UNCHANGED <<vt, slot, nameTo, hpc, got, torn, told, redumped>>
    BY <1>16, <2>2 DEF SendChunk, Accepts
  <2>a. ASSUME c \notin Plain PROVE Rest'
    <3>1. /\ \A d \in Client : d # c => chan'[d] = chan[d]
          /\ hpc[c] = "attached"
      BY <1>0, <2>3 DEF AttachTypeOK
    <3> QED BY <1>0, <2>2, <2>3, <2>a, <3>1, Aside
  <2> SUFFICES ASSUME c \in Plain PROVE Rest'
    BY <2>a
  <2>p. Plain' = Plain
    BY <2>3 DEF Plain
  <2>4. /\ m.kind = "out" /\ m.n = vt
        /\ m.n = Sent(c) + Adds(m)
    BY <1>0, <2>2, <2>3 DEF Msg, Adds, Target, InFlight
  <2>5. /\ Continues'
        /\ Sent(c)' = vt
        /\ \A d \in Client : d # c => Sent(d)' = Sent(d) /\ chan'[d] = chan[d]
        /\ \A i \in 1..Len(chan'[c]) :
               \/ chan'[c][i] = m
               \/ i \in 1..Len(chan[c]) /\ chan'[c][i] = chan[c][i]
    <3>1. AttachTypeOK /\ Continues /\ m.kind # "dump" /\ m.n <= vt
      BY <1>0, <1>s, <2>4
    <3>2. got' = got /\ vt' = vt /\ redumped' = redumped
      BY <2>3
    <3>3. chan' = [chan EXCEPT ![c] = Append(@, m)]
      BY <2>3
    <3> QED BY <2>4, <3>1, <3>2, <3>3, QueueStep
  <2>6. Links' /\ Target'
    BY <1>0, <1>p, <2>3, <2>p, <2>5 DEF Links, Target, AttachTypeOK
  <2>7. InSync'
    <3> SUFFICES ASSUME NEW d \in Plain, slot = d
                 PROVE  Sent(d)' + InFlight(d)' = vt
      BY <2>3, <2>p DEF InSync
    <3>1. InFlight(d)' = 0
      BY <2>3 DEF InFlight
    <3>2. CASE d = c
      BY <1>s, <2>5, <3>1, <3>2
    <3>3. CASE d # c
      <4>1. InFlight(d) = 0
        BY <2>2, <3>3 DEF InFlight
      <4> QED BY <1>0, <1>s, <1>p, <2>5, <3>1, <3>3, <4>1 DEF InSync
    <3> QED BY <3>2, <3>3
  <2>8. Exits'
    BY <1>0, <1>p, <2>3, <2>p, <2>4, <2>5 DEF Exits
  <2> QED BY <1>0, <2>3, <2>p, <2>5, <2>6, <2>7, <2>8 DEF NoGap
<1>17. ASSUME ReapTell PROVE Rest'
  <2>1. sendTo \in Client /\ Sent(sendTo) \in 0..MaxChunks
    BY <1>0, <1>17, SentType DEF ReapTell, Links, SendLink, AttachTypeOK
  <2>2. PICK c \in Client, m \in Message :
            c = sendTo /\ m = Msg("exit", Sent(sendTo))
    BY <2>1 DEF Msg, Message
  <2>3. /\ loop = "telling" /\ loop' = "removing" /\ sendTo' = Nobody
        /\ UNCHANGED <<vt, slot, nameTo, hpc, got, torn, told, redumped>>
        /\ m.kind = "exit" /\ m.n = Sent(c) /\ Adds(m) = 0
    BY <1>17, <2>2 DEF ReapTell, Msg, Adds
  <2>p. Plain' = Plain
    BY <2>3 DEF Plain
  <2>4. CASE chan' = [chan EXCEPT ![c] = Append(@, m)] /\ hpc[c] = "attached"
    <3>a. ASSUME c \notin Plain PROVE Rest'
      <4>1. \A d \in Client : d # c => chan'[d] = chan[d]
        BY <1>0, <2>4 DEF AttachTypeOK
      <4> QED BY <1>0, <2>2, <2>3, <2>4, <3>a, <4>1, Aside
    <3> SUFFICES ASSUME c \in Plain PROVE Rest'
      BY <3>a
    <3>1. Sent(c) = vt
      BY <1>0, <1>s, <2>2, <2>3, <2>4 DEF Target, InFlight
    <3>2. /\ Continues'
          /\ Sent(c)' = m.n
          /\ \A d \in Client : d # c => Sent(d)' = Sent(d) /\ chan'[d] = chan[d]
          /\ \A i \in 1..Len(chan'[c]) :
                 \/ chan'[c][i] = m
                 \/ i \in 1..Len(chan[c]) /\ chan'[c][i] = chan[c][i]
      <4>1. /\ AttachTypeOK /\ Continues /\ m.kind # "dump" /\ m.n <= vt
            /\ m.n = Sent(c) + Adds(m)
        BY <1>0, <1>s, <2>3, <3>1
      <4>2. got' = got /\ vt' = vt /\ redumped' = redumped
        BY <2>3
      <4>3. chan' = [chan EXCEPT ![c] = Append(@, m)]
        BY <2>4
      <4> QED BY <4>1, <4>2, <4>3, QueueStep
    <3>3. Links' /\ Target'
      BY <1>0, <1>p, <2>3, <2>p, <2>4, <3>2 DEF Links, Target, AttachTypeOK
    <3>4. InSync'
      <4>1. \A d \in Client : /\ Sent(d)' = Sent(d)
                              /\ InFlight(d)' = 0 /\ InFlight(d) = 0
        BY <2>3, <3>2 DEF InFlight
      <4> QED BY <1>0, <1>p, <2>3, <2>p, <4>1 DEF InSync
    <3>5. Exits'
      BY <1>0, <1>p, <2>3, <2>p, <3>1, <3>2 DEF Exits
    <3> QED BY <1>0, <2>3, <2>p, <3>2, <3>3, <3>4, <3>5 DEF NoGap
  <2>5. CASE chan' = chan
    <3>1. Links' /\ Target' /\ Continues' /\ NoGap'
      BY <1>0, <1>p, <2>3, <2>p, <2>5 DEF Links, Target, Continues, NoGap
    <3>2. InSync'
      BY <1>0, <2>3, <2>p, <2>5 DEF InSync, InFlight, Sent
    <3>3. Exits'
      BY <1>0, <2>3, <2>p, <2>5 DEF Exits
    <3> QED BY <3>1, <3>2, <3>3
  <2> QED BY <1>17, <2>2, <2>4, <2>5 DEF ReapTell, Accepts
<1>18. ASSUME NameSend PROVE Rest'
  <2>1. nameTo \in Client /\ Sent(nameTo) \in 0..MaxChunks
    BY <1>0, <1>18, SentType DEF NameSend, AttachTypeOK
  <2>2. PICK c \in Client, m \in Message :
            c = nameTo /\ m = Msg("name", Sent(nameTo))
    BY <2>1 DEF Msg, Message
  <2>3. /\ nameTo' = Nobody
        /\ UNCHANGED <<vt, loop, sendTo, hpc, got, torn, told, redumped>>
        /\ m.kind = "name" /\ m.n = Sent(c) /\ Adds(m) = 0
    BY <1>18, <2>2 DEF NameSend, Msg, Adds
  <2>p. Plain' = Plain
    BY <2>3 DEF Plain
  <2>4. CASE /\ chan' = [chan EXCEPT ![c] = Append(@, m)]
             /\ hpc[c] = "attached" /\ slot' = slot
    <3>a. ASSUME c \notin Plain PROVE Rest'
      <4>1. \A d \in Client : d # c => chan'[d] = chan[d]
        BY <1>0, <2>4 DEF AttachTypeOK
      <4> QED BY <1>0, <2>2, <2>3, <2>4, <3>a, <4>1, Aside
    <3> SUFFICES ASSUME c \in Plain PROVE Rest'
      BY <3>a
    <3>1. Sent(c) <= vt
      <4>1. CASE chan[c] = <<>>
        BY <1>0, <4>1 DEF Sent, Continues
      <4>2. CASE chan[c] # <<>>
        <5>1. chan[c] \in Seq(Message)
          BY <1>0 DEF AttachTypeOK
        <5>2. Len(chan[c]) \in 1..Len(chan[c])
          BY <4>2, <5>1
        <5> QED BY <1>0, <4>2, <5>2 DEF Sent, Continues
      <4> QED BY <4>1, <4>2
    <3>2. /\ Continues'
          /\ Sent(c)' = m.n
          /\ \A d \in Client : d # c => Sent(d)' = Sent(d) /\ chan'[d] = chan[d]
          /\ \A i \in 1..Len(chan'[c]) :
                 \/ chan'[c][i] = m
                 \/ i \in 1..Len(chan[c]) /\ chan'[c][i] = chan[c][i]
      <4>1. /\ AttachTypeOK /\ Continues /\ m.kind # "dump" /\ m.n <= vt
            /\ m.n = Sent(c) + Adds(m)
        BY <1>0, <1>s, <2>3, <3>1
      <4>2. got' = got /\ vt' = vt /\ redumped' = redumped
        BY <2>3
      <4>3. chan' = [chan EXCEPT ![c] = Append(@, m)]
        BY <2>4
      <4> QED BY <4>1, <4>2, <4>3, QueueStep
    <3>3. \A d \in Client : Sent(d)' = Sent(d) /\ InFlight(d)' = InFlight(d)
      BY <2>3, <3>2 DEF InFlight
    <3>4. Links' /\ InSync'
      BY <1>0, <1>p, <2>3, <2>p, <2>4, <3>2, <3>3
      DEF Links, SendLink, InSync, AttachTypeOK
    <3>5. Target'
      BY <1>0, <1>p, <2>3, <2>p, <3>3 DEF Target, AttachTypeOK
    <3>6. Exits'
      BY <1>0, <1>p, <2>3, <2>p, <3>2 DEF Exits
    <3> QED BY <1>0, <2>3, <2>p, <3>2, <3>4, <3>5, <3>6 DEF NoGap
  <2>5. CASE chan' = chan /\ slot' = Released(c)
    <3>1. Links'
      BY <1>0, <2>3, <2>5 DEF Links, SendLink, Released
    <3>2. Target' /\ Continues' /\ NoGap' /\ Exits'
      BY <1>0, <2>3, <2>p, <2>5
      DEF Target, Continues, NoGap, Exits, Sent, InFlight
    <3>3. InSync'
      BY <1>0, <1>p, <2>3, <2>p, <2>5
      DEF InSync, InFlight, Sent, Released
    <3> QED BY <3>1, <3>2, <3>3
  <2> QED BY <1>18, <2>2, <2>4, <2>5 DEF NameSend, Accepts
<1> QED
  BY <1>0, <1>1, <1>2, <1>3, <1>4, <1>5, <1>6, <1>7, <1>8, <1>9, <1>10, <1>11,
     <1>12, <1>13, <1>14, <1>15, <1>16, <1>17, <1>18
  DEF AttachNext, ReadLoop, Reap, Handler

\* The inductive invariant holds.
THEOREM StreamCorrect == AttachSpec => []StreamInv
BY StreamInit, StreamStep, PTL DEF AttachSpec

\* "Every chunk is either in the dump or delivered" (manager.rs): the attached
\* client's screen, its channel and the chunk in the read loop's hand add up to
\* the VT, unless a re-dump was meant for it.
THEOREM StreamInSync == AttachSpec => []InSync
<1>1. StreamInv => InSync
  BY DEF StreamInv
<1> QED BY <1>1, StreamCorrect, PTL

\* No client, evicted or not, is shown a chunk twice, out of order or after a
\* gap (read_loop, detach by ClientId), unless a re-dump was meant for it.
THEOREM StreamHasNoGap == AttachSpec => []NoGap
<1>1. StreamInv => NoGap
  BY DEF StreamInv
<1> QED BY <1>1, StreamCorrect, PTL

\* "The client always sees all output BEFORE the exit event" (read_loop), unless
\* a re-dump was meant for it.
THEOREM ExitIsLast == AttachSpec => []ExitComesLast
<1>1. StreamInv => ExitComesLast
  BY DEF StreamInv, Exits, ExitComesLast
<1> QED BY <1>1, StreamCorrect, PTL

\* A step takes the slot from its latest client only as the code says it may.
LEMMA SlotStep ==
  AttachTypeOK /\ LatestKeepsSlot /\ [AttachNext]_attachVars => LatestKeepsSlot'
<1> SUFFICES ASSUME AttachTypeOK, LatestKeepsSlot, [AttachNext]_attachVars,
                    NEW c \in Client, c = latest', hpc'[c] = "attached",
                    c \notin dropped', killed' # "done",
                    loop' \in {"reading", "sending", "waiting", "taking"}
             PROVE  slot' = c
  BY DEF LatestKeepsSlot
<1> DEFINE Keeps == /\ c = latest /\ hpc[c] = "attached" /\ c \notin dropped
                    /\ killed # "done"
                    /\ loop \in {"reading", "sending", "waiting", "taking"}
<1> USE DEF readVars, nameVars, clientVars, dumpVars, historyVars
<1>1. Keeps => slot = c
  BY DEF LatestKeepsSlot
<1>2. ASSUME NEW d \in Client, AttachOn(d)
      PROVE  slot' = c
  BY <1>2 DEF AttachOn
<1>3. ASSUME NEW d \in Client, ChannelEnd(d) \/ Disconnect(d)
      PROVE  slot' = c
  <2>1. End(d)
    BY <1>3 DEF ChannelEnd, Disconnect
  <2>2. d # c /\ Keeps
    BY <2>1 DEF End, AttachTypeOK
  <2> QED BY <1>1, <2>1, <2>2 DEF End, Released
<1>4. ASSUME NEW d \in Client,
             \/ Acquire(d) \/ Forward(d) \/ Resize(d) \/ RedumpTarget(d)
             \/ RedumpSend(d)
      PROVE  slot' = c
  <2>1. Keeps
    BY <1>4
    DEF Acquire, Forward, Resize, RedumpTarget, RedumpSend, AttachTypeOK
  <2> QED
    BY <1>1, <1>4, <2>1 DEF Acquire, Forward, Resize, RedumpTarget, RedumpSend
<1>5. CASE ReadChunk \/ SendChunk \/ Eof \/ ReapExited \/ Kill \/ NameRead
  <2>1. Keeps
    BY <1>5 DEF ReadChunk, SendChunk, Eof, ReapExited, Kill, NameRead
  <2> QED
    BY <1>1, <1>5, <2>1 DEF ReadChunk, SendChunk, Eof, ReapExited, Kill, NameRead
<1>6. CASE SlowClient
  BY <1>1, <1>6 DEF SlowClient, Released
<1>7. CASE NameSend
  BY <1>1, <1>7 DEF NameSend, Released
<1>8. CASE ReapTake \/ ReapTell \/ ReapUnlist \/ KillSession
  BY <1>8 DEF ReapTake, ReapTell, ReapUnlist, KillSession
<1>9. CASE UNCHANGED attachVars
  BY <1>1, <1>9 DEF attachVars
<1> QED
  BY <1>2, <1>3, <1>4, <1>5, <1>6, <1>7, <1>8, <1>9
  DEF AttachNext, ReadLoop, Reap, Handler

\* Whatever evicted clients, their handlers and their timeouts still do, the
\* last client to attach keeps the pty.
THEOREM LatestClientKeepsThePty == AttachSpec => []LatestKeepsSlot
<1>1. AttachInit => LatestKeepsSlot
  BY DEF AttachInit, LatestKeepsSlot
<1>2. AttachTypeOK /\ LatestKeepsSlot /\ [AttachNext]_attachVars
        => LatestKeepsSlot'
  BY SlotStep
<1> QED BY <1>1, <1>2, TypeCorrect, PTL DEF AttachSpec
=============================================================================
