---------------------------- MODULE HandoffProofs ----------------------------
(***************************************************************************)
(* The safety of module Handoff for any number of processes, shells and    *)
(* chunks of output, and that it implements Terminals in good weather.     *)
(*                                                                         *)
(* The inductive invariant has three layers: what holds in any weather,    *)
(* what holds as long as no rival daemon is started, and what the shells,  *)
(* their output and their leases owe to both.                              *)
(***************************************************************************)
EXTENDS Handoff, TLAPS

Server == {"bound", "serving"}
Adopting == {"asking", "accepting"}
Holding == {"adopted", "waiting", "checking", "binding", "unlinked", "bound",
            "serving"}
Standing == {"sent", "taken", "acked"}

\* Where a successor can be, once it has acked.
Outlasting == (Holding \ {"adopted"}) \cup {"dead"}

-----------------------------------------------------------------------------
(* In any weather *)

\* hand_off runs in a daemon that serves, over ptys it keeps meanwhile.
Handing ==
    \A d \in Daemon : hand[d] # "idle" =>
        mode[d] = "serving" /\ batch[d] \subseteq table[d]

\* Where a message is, its receiver and its sender are: the sender waits for
\* the ack of a message it has not given up on, and is gone only after it.
Message(s) ==
    /\ link[s].from # s
    /\ Pending(s) => mode[s] \in Adopting
    /\ link[s].state = "taken" => mode[s] = "adopted"
    /\ link[s].state = "acked" => mode[s] \in Outlasting
    /\ link[s].state \in {"taken", "acked"} /\ mode[s] # "dead" =>
          /\ link[s].ptys \subseteq table[s]
          /\ mode[s] \notin Server => table[s] = link[s].ptys
    /\ link[s].state \in Standing =>
          \/ /\ hand[link[s].from] = "sent"
             /\ to[link[s].from] = s
             /\ link[s].ptys = batch[link[s].from]
          \/ link[s].state = "acked" /\ mode[link[s].from] = "dead"

Messages == \A s \in Daemon : link[s] # None => Message(s)

\* Ptys are held by those who have adopted them or serve, and an adopter has
\* its message.
Holders ==
    /\ \A d \in Daemon : table[d] # {} => mode[d] \in Holding
    /\ \A d \in Daemon : mode[d] = "adopted" => link[d] # None

\* Nobody shows output that was not read, nor knows a shell never started.
NothingInvented ==
    /\ \A d \in Daemon, p \in Pty : vt[d][p] \subseteq 1..read[p]
    /\ \A d \in Daemon, p \in Pty : link[d] # None =>
          link[d].vt[p] \subseteq 1..read[p]
    /\ \A d \in Daemon : table[d] \subseteq born /\ lease[d] \subseteq born
    /\ \A d \in Daemon : link[d] # None =>
          link[d].ptys \subseteq born /\ link[d].lease \subseteq born
    /\ wanted \subseteq born
    /\ \A p \in Pty : p \notin born => read[p] = 0

-----------------------------------------------------------------------------
(* As long as no rival is started and no successor deserts *)

\* One process starts at a time.
OneStarting ==
    \A d, e \in Daemon : mode[d] \in Starting /\ mode[e] \in Starting => d = e

\* Whoever serves owns the socket...
ServerOwns == \A d \in Daemon : mode[d] \in Server => ctl = d

\* ... and a successor that is about to take it takes it from nobody, and
\* nobody takes it meanwhile.
PathFree ==
    /\ \A d, e \in Daemon :
          ~(mode[d] \in {"binding", "unlinked"} /\ mode[e] \in Server)
    /\ \A d \in Daemon : mode[d] = "unlinked" => ctl = None

Settling == {"accepting", "adopted", "waiting"}

\* The server a successor meets is its predecessor...
MeetsPredecessor ==
    \A s, d \in Daemon :
        mode[s] \in Settling /\ mode[d] \in Server => d = pred[s]

\* ... who stays until the successor has answered...
ServerStays ==
    \A s \in Daemon : mode[s] \in {"accepting", "adopted"} =>
        \E d \in Daemon : mode[d] = "serving"

\* ... and from whom it has its message.
FromPredecessor ==
    \A s \in Daemon :
        mode[s] \in Settling /\ link[s] # None /\ link[s].state \in Standing =>
            link[s].from = pred[s]

\* A successor that has acked leaves its wait when the predecessor is gone.
Awaited ==
    \A s \in Daemon :
        link[s] # None /\ link[s].state = "acked" /\ mode[s] # "waiting" =>
            mode[link[s].from] = "dead"

Orderly ==
    /\ OneStarting
    /\ ServerOwns
    /\ PathFree
    /\ MeetsPredecessor
    /\ ServerStays

Quiet == weather \cap {"rivals", "desert"} = {}

Calm == Quiet => Orderly /\ FromPredecessor /\ Awaited

-----------------------------------------------------------------------------
(* Shells, output and leases *)

\* A successor that holds ptys has taken or acked its message, and is past its
\* wait only when the predecessor is gone: nobody gave up on anybody.
OnTime(s) ==
    /\ link[s] # None => link[s].state # "late"
    /\ mode[s] = "adopted" => link[s].state = "taken"
    /\ mode[s] \in {"waiting", "checking"} /\ table[s] # {} =>
          link[s] # None /\ link[s].state = "acked"
    /\ mode[s] = "checking" /\ table[s] # {} =>
          \A d \in Daemon : mode[d] \notin Server

NobodyLate == weather \subseteq {"busy"} => \A s \in Daemon : OnTime(s)

\* The successor of d has the pty p of the message d sent it.
Handed(d, p) ==
    /\ hand[d] = "sent"
    /\ p \in batch[d]
    /\ LinkOf(d, to[d])
    /\ link[to[d]].state # "sent"

\* Whoever has not handed a pty over has all its output.
OutputKept ==
    weather \subseteq {"busy"} =>
        \A d \in Daemon : \A p \in table[d] :
            ~Handed(d, p) => vt[d][p] = 1..read[p]

Waiting == {"waiting", "checking", "binding", "unlinked"}

NoServer == \A d \in Daemon : mode[d] \notin Server

\* The server has every shell or, between two servers, the successor has.
Kept ==
    /\ \A d \in Daemon : hand[d] # "idle" => batch[d] = table[d]
    /\ \A d \in Daemon : mode[d] \in Server => born \subseteq table[d]
    /\ NoServer =>
          \A p \in born : \E s \in Daemon :
             p \in table[s] /\ mode[s] \in Waiting

ShellsKept == weather \subseteq {"stall"} => Kept

\* The leases of d are the ones its users armed.
LeasesRight(d) == \A p \in table[d] : p \in lease[d] <=> p \in wanted

\* The message to s has the leases that s is to have, or has.
LeasesSent(s) ==
    /\ \A p \in link[s].ptys : p \in link[s].lease <=> p \in wanted
    /\ link[s].state # "sent" => lease[s] = link[s].lease

\* The server has the leases its users armed, and so has a successor it still
\* counts on, or who has outlived it.
Armed ==
    /\ \A d \in Daemon : mode[d] \in Server => LeasesRight(d)
    /\ NoServer => \A s \in Daemon : mode[s] \in Waiting => LeasesRight(s)
    /\ \A s \in Daemon :
          /\ link[s] # None
          /\ link[s].state \in Standing
          /\ hand[link[s].from] = "sent"
          => LeasesSent(s)

LeasesKept == weather \subseteq {"stall"} => Armed

\* The inductive invariant.
IndInv ==
    /\ TypeOK
    /\ Handing
    /\ Messages
    /\ Holders
    /\ NothingInvented
    /\ SnapshotIsCurrent
    /\ Calm
    /\ NobodyLate
    /\ OutputKept
    /\ ShellsKept
    /\ LeasesKept

-----------------------------------------------------------------------------
(* Messages *)

\* The message on the socket of s goes into the state x, and is otherwise the
\* message it was.
Moved(s, x) ==
    /\ s \in Daemon
    /\ link[s] # None
    /\ link' \in [Daemon -> Link \cup {None}]
    /\ link'[s] # None
    /\ link'[s].state = x
    /\ link'[s].from = link[s].from
    /\ link'[s].ptys = link[s].ptys
    /\ link'[s].vt = link[s].vt
    /\ link'[s].lease = link[s].lease
    /\ \A e \in Daemon \ {s} : link'[e] = link[e]

\* Assigning its state moves a message.
LEMMA Assigned ==
  ASSUME TypeOK, NEW s \in Daemon, link[s] # None,
         NEW x \in {"sent", "late", "taken", "acked", "void"},
         link' = [link EXCEPT ![s] = [link[s] EXCEPT !.state = x]]
  PROVE  Moved(s, x)
<1>1. link[s] \in Link
  BY DEF TypeOK
<1>2. /\ [link[s] EXCEPT !.state = x] \in Link
      /\ [link[s] EXCEPT !.state = x].state = x
      /\ [link[s] EXCEPT !.state = x].from = link[s].from
      /\ [link[s] EXCEPT !.state = x].ptys = link[s].ptys
      /\ [link[s] EXCEPT !.state = x].vt = link[s].vt
      /\ [link[s] EXCEPT !.state = x].lease = link[s].lease
  BY <1>1 DEF Link
<1> HIDE DEF Link
<1>3. link'[s] = [link[s] EXCEPT !.state = x]
  BY DEF TypeOK
<1> QED
  BY <1>1, <1>2, <1>3, HandoffAssumption DEF Moved, TypeOK

\* What the receiver and the sender of a message make of it.
LEMMA Moves ==
  ASSUME TypeOK, Holders, NEW d \in Daemon
  PROVE  /\ Accept(d) => Moved(d, Taken(link[d]))
         /\ Ack(d) => Moved(d, AckOf(link[d]))
         /\ AcceptFails(d) => Moved(d, "void")
         /\ GiveUp(d) /\ LinkOf(d, to[d]) =>
               Moved(to[d], IF link[to[d]].state = "sent" THEN "late"
                                                          ELSE "void")
<1>1. ASSUME Accept(d)
      PROVE  Moved(d, Taken(link[d]))
  BY <1>1, Assigned DEF Accept, Pending, Taken
<1>2. ASSUME Ack(d)
      PROVE  Moved(d, AckOf(link[d]))
  <2>1. link[d] # None /\ link[d] \in Link
    BY <1>2 DEF Ack, Holders, TypeOK
  <2>2. AckOf(link[d]) \in {"sent", "late", "taken", "acked", "void"}
    BY <2>1 DEF AckOf, Link
  <2> QED BY <1>2, <2>1, <2>2, Assigned DEF Ack
<1>3. ASSUME AcceptFails(d)
      PROVE  Moved(d, "void")
  BY <1>3, Assigned DEF AcceptFails, Pending
<1>4. ASSUME GiveUp(d), LinkOf(d, to[d])
      PROVE  Moved(to[d], IF link[to[d]].state = "sent" THEN "late" ELSE "void")
  <2>1. to[d] \in Daemon /\ link[to[d]] # None
    BY <1>4 DEF LinkOf, TypeOK
  <2> QED BY <1>4, <2>1, Assigned DEF GiveUp
<1> QED BY <1>1, <1>2, <1>3, <1>4

\* The socket of d, which ends, keeps its message if that is acked, and the
\* others keep theirs.
Buried(d) ==
    /\ d \in Daemon
    /\ link' \in [Daemon -> Link \cup {None}]
    /\ \A e \in Daemon : link'[e] # None => link'[e] = link[e]
    /\ \A e \in Daemon \ {d} : link'[e] = link[e]
    /\ link'[d] # None => link[d].state = "acked"

\* Whoever ends leaves an ack behind, and nothing else.
LEMMA Burials ==
  ASSUME TypeOK, NEW d \in Daemon
  PROVE  /\ BindRefused(d) \/ BindInUse(d) \/ Crash(d) \/ Exit(d) => Buried(d)
         /\ SignalKills(d) => Buried(ctl)
<1>1. ASSUME NEW e \in Daemon, link' = [link EXCEPT ![e] = Remains(link[e])]
      PROVE  Buried(e)
  <2>1. Remains(link[e]) \in Link \cup {None}
    BY DEF Remains, TypeOK
  <2>2. /\ link' \in [Daemon -> Link \cup {None}]
        /\ \A f \in Daemon \ {e} : link'[f] = link[f]
        /\ link'[e] = Remains(link[e])
    BY <1>1, <2>1 DEF TypeOK
  <2> QED BY <2>2 DEF Buried, Remains
<1>2. ASSUME BindRefused(d) \/ BindInUse(d) \/ Crash(d) \/ Exit(d)
      PROVE  Buried(d)
  BY <1>1, <1>2 DEF BindRefused, BindInUse, Crash, Exit, Dies
<1>3. ASSUME SignalKills(d)
      PROVE  Buried(ctl)
  BY <1>1, <1>3 DEF SignalKills, Answers, TypeOK
<1> QED BY <1>2, <1>3

\* What a predecessor sends is a message.
LEMMA Sending ==
  ASSUME TypeOK, NEW d \in Daemon
  PROVE  /\ Payload(d) \in Link
         /\ Payload(d).from = d
         /\ Payload(d).ptys = batch[d]
         /\ Payload(d).vt = vt[d]
         /\ Payload(d).lease = lease[d] \cap batch[d]
         /\ Payload(d).state = "sent"
BY DEF Payload, Link, TypeOK

-----------------------------------------------------------------------------
(* In any weather *)

\* Every step keeps the types.
LEMMA TypeStep == IndInv /\ [Next]_vars => TypeOK'
<1> SUFFICES ASSUME IndInv, [Next]_vars PROVE TypeOK'
  OBVIOUS
<1> USE HandoffAssumption DEF IndInv
<1>1. CASE \E d \in Daemon :
              StartFresh(d) \/ StartUpgrade(d) \/ Rendezvous(d) \/
                NoPredecessor(d) \/ HandoffTimeout(d) \/ Waited(d) \/
                BindCheck(d) \/ BindUnlink(d) \/ Bind(d) \/
                HandlerInstalled(d)
  BY <1>1, ZenonT(60)
  DEF StartFresh, StartUpgrade, Rendezvous, NoPredecessor, HandoffTimeout,
      Waited, BindCheck, BindUnlink, Bind, HandlerInstalled, socketVars,
      handVars, ptyVars, TypeOK, Mode, Starting
<1>2. ASSUME NEW d \in Daemon, AskPredecessor(d)
      PROVE  TypeOK'
  <2>1. ctl \in Daemon
    BY <1>2 DEF AskPredecessor, Answers, TypeOK
  <2> QED
    BY <1>2, <2>1
    DEF AskPredecessor, socketVars, ptyVars, TypeOK, Mode, Starting
<1>3. ASSUME NEW d \in Daemon, SignalKills(d)
      PROVE  TypeOK'
  <2>1. ctl \in Daemon /\ link' \in [Daemon -> Link \cup {None}]
    BY <1>3, Burials DEF Buried
  <2> QED
    BY <1>3, <2>1
    DEF SignalKills, socketVars, handVars, TypeOK, Mode, Starting
<1>4. ASSUME NEW d \in Daemon, Accept(d)
      PROVE  TypeOK'
  <2>1. /\ link[d].ptys \in SUBSET Pty
        /\ link[d].vt \in [Pty -> SUBSET Chunk]
        /\ link[d].lease \in SUBSET Pty
    BY <1>4 DEF Accept, Pending, TypeOK, Link
  <2>2. link' \in [Daemon -> Link \cup {None}]
    BY <1>4, Moves DEF Moved
  <2> QED
    BY <1>4, <2>1, <2>2
    DEF Accept, socketVars, handVars, TypeOK, Mode, Starting
<1>5. ASSUME NEW d \in Daemon, Ack(d)
      PROVE  TypeOK'
  <2>1. link' \in [Daemon -> Link \cup {None}]
    BY <1>5, Moves DEF Moved
  <2> QED
    BY <1>5, <2>1 DEF Ack, handVars, ptyVars, TypeOK, Mode, Starting
<1>6. ASSUME NEW d \in Daemon, AcceptFails(d)
      PROVE  TypeOK'
  <2>1. link' \in [Daemon -> Link \cup {None}]
    BY <1>6, Moves DEF Moved
  <2> QED
    BY <1>6, <2>1 DEF AcceptFails, handVars, ptyVars, TypeOK, Mode, Starting
<1>7. ASSUME NEW d \in Daemon, BindRefused(d) \/ BindInUse(d)
      PROVE  TypeOK'
  <2>1. link' \in [Daemon -> Link \cup {None}]
    BY <1>7, Burials DEF Buried
  <2> QED
    BY <1>7, <2>1, ZenonT(60)
    DEF BindRefused, BindInUse, Dies, socketVars, TypeOK, Mode, Starting
<1>8. ASSUME NEW d \in Daemon, Crash(d)
      PROVE  TypeOK'
  <2>1. link' \in [Daemon -> Link \cup {None}]
    BY <1>8, Burials DEF Buried
  <2> QED BY <1>8, <2>1 DEF Crash, Dies, socketVars, TypeOK, Mode, Starting
<1>9. ASSUME NEW d \in Daemon, Collect(d)
      PROVE  TypeOK'
  BY <1>9 DEF Collect, socketVars, ptyVars, TypeOK, Mode, Starting
<1>10. ASSUME NEW d \in Daemon, SendFails(d)
       PROVE  TypeOK'
  BY <1>10 DEF SendFails, socketVars, ptyVars, TypeOK, Mode, Starting
<1>11. ASSUME NEW d \in Daemon, Send(d)
       PROVE  TypeOK'
  <2>1. mig \in Daemon
    BY <1>11 DEF Send, TypeOK
  <2>2. link' \in [Daemon -> Link \cup {None}]
    BY <1>11, Sending DEF Send, TypeOK
  <2> QED
    BY <1>11, <2>1, <2>2 DEF Send, socketVars, ptyVars, TypeOK
<1>12. ASSUME NEW d \in Daemon, GiveUp(d)
       PROVE  TypeOK'
  <2>1. link' \in [Daemon -> Link \cup {None}]
    <3>1. CASE LinkOf(d, to[d])
      BY <1>12, <3>1, Moves DEF Moved
    <3>2. CASE ~LinkOf(d, to[d])
      BY <1>12, <3>2 DEF GiveUp, TypeOK
    <3> QED BY <3>1, <3>2
  <2> QED
    BY <1>12, <2>1 DEF GiveUp, socketVars, ptyVars, TypeOK
<1>13. ASSUME NEW d \in Daemon, Exit(d)
       PROVE  TypeOK'
  <2>1. link' \in [Daemon -> Link \cup {None}]
    BY <1>13, Burials DEF Buried
  <2> QED BY <1>13, <2>1 DEF Exit, Dies, socketVars, TypeOK, Mode, Starting
<1>14. ASSUME NEW d \in Daemon, NEW p \in Pty,
              Open(d, p) \/ Close(d, p) \/ Reopen(d, p)
       PROVE  TypeOK'
  <2>1. CASE Open(d, p)
    BY <2>1 DEF Open, socketVars, handVars, TypeOK, Mode, Starting
  <2>2. CASE Close(d, p)
    BY <2>2 DEF Close, socketVars, handVars, TypeOK, Mode, Starting
  <2>3. CASE Reopen(d, p)
    BY <2>3 DEF Reopen, socketVars, handVars, TypeOK, Mode, Starting
  <2> QED BY <1>14, <2>1, <2>2, <2>3
<1>15. ASSUME NEW d \in Daemon, NEW p \in Pty, Read(d, p)
       PROVE  TypeOK'
  <2>1. read[p] + 1 \in Chunk /\ read[p] + 1 \in 0..MaxChunks
    BY <1>15 DEF Read, TypeOK, Chunk
  <2>2. vt' \in [Daemon -> [Pty -> SUBSET Chunk]]
    BY <1>15, <2>1 DEF Read, TypeOK
  <2> QED
    BY <1>15, <2>1, <2>2 DEF Read, socketVars, handVars, TypeOK
<1>16. CASE UNCHANGED vars
  BY <1>16 DEF vars, TypeOK, Mode, Starting
<1> QED
  BY <1>1, <1>2, <1>3, <1>4, <1>5, <1>6, <1>7, <1>8, <1>9, <1>10, <1>11,
     <1>12, <1>13, <1>14, <1>15, <1>16
  DEF Next, Startup, HandOff, Requests

\* hand_off goes on only in a daemon that serves.
LEMMA HandingStep == IndInv /\ [Next]_vars => Handing'
<1> SUFFICES ASSUME IndInv, [Next]_vars PROVE Handing'
  OBVIOUS
<1> USE HandoffAssumption DEF IndInv
<1>1. CASE \E d \in Daemon :
              StartFresh(d) \/ StartUpgrade(d) \/ Rendezvous(d) \/
                NoPredecessor(d) \/ AskPredecessor(d) \/ Ack(d) \/
                AcceptFails(d) \/ HandoffTimeout(d) \/ Waited(d) \/
                BindCheck(d) \/ BindUnlink(d) \/ Bind(d) \/
                HandlerInstalled(d)
  BY <1>1
  DEF StartFresh, StartUpgrade, Rendezvous, NoPredecessor, AskPredecessor,
      Ack, AcceptFails, HandoffTimeout, Waited, BindCheck, BindUnlink, Bind,
      HandlerInstalled, socketVars, handVars, ptyVars, Handing, TypeOK
<1>2. ASSUME NEW d \in Daemon, SignalKills(d)
      PROVE  Handing'
  BY <1>2 DEF SignalKills, socketVars, handVars, Handing, TypeOK, Answers
<1>3. ASSUME NEW d \in Daemon, Accept(d)
      PROVE  Handing'
  BY <1>3 DEF Accept, socketVars, handVars, Handing, TypeOK
<1>4. CASE \E d \in Daemon : BindRefused(d) \/ BindInUse(d)
  BY <1>4, ZenonT(60)
  DEF BindRefused, BindInUse, Dies, socketVars, Handing, TypeOK
<1>5. ASSUME NEW d \in Daemon, Crash(d)
      PROVE  Handing'
  BY <1>5 DEF Crash, Dies, socketVars, Handing, TypeOK
<1>6. CASE \E d \in Daemon : Collect(d) \/ SendFails(d) \/ Send(d) \/ GiveUp(d)
  BY <1>6
  DEF Collect, SendFails, Send, GiveUp, socketVars, ptyVars, Handing, TypeOK
<1>7. ASSUME NEW d \in Daemon, Exit(d)
      PROVE  Handing'
  BY <1>7 DEF Exit, Dies, socketVars, Handing, TypeOK
<1>8. CASE \E d \in Daemon, p \in Pty :
              Open(d, p) \/ Close(d, p) \/ Reopen(d, p) \/ Read(d, p)
  BY <1>8
  DEF Open, Close, Reopen, Read, socketVars, handVars, Handing, TypeOK
<1>9. CASE UNCHANGED vars
  BY <1>9 DEF vars, Handing, TypeOK
<1> QED
  BY <1>1, <1>2, <1>3, <1>4, <1>5, <1>6, <1>7, <1>8, <1>9
  DEF Next, Startup, HandOff, Requests

\* Every message goes on standing for what its sender and its receiver do.
LEMMA MessagesStep == IndInv /\ [Next]_vars => Messages'
<1> SUFFICES ASSUME IndInv, [Next]_vars PROVE Messages'
  OBVIOUS
<1> USE HandoffAssumption DEF IndInv
<1> SUFFICES ASSUME NEW s \in Daemon, link'[s] # None PROVE Message(s)'
  BY DEF Messages
<1>a. link[s] # None => Message(s) /\ link[s].from \in Daemon
  BY DEF Messages, TypeOK, Link
<1>1. CASE \E d \in Daemon : StartFresh(d) \/ StartUpgrade(d) \/ Rendezvous(d)
  BY <1>1, <1>a
  DEF StartFresh, StartUpgrade, Rendezvous, socketVars, handVars, ptyVars,
      Message, Outlasting, Server, Pending, Holding, Adopting, Standing, TypeOK
<1>2. ASSUME NEW d \in Daemon, NoPredecessor(d)
      PROVE  Message(s)'
  <2>1. s # d /\ link'[s] = link[s]
    BY <1>2 DEF NoPredecessor, TypeOK
  <2> QED
    BY <1>2, <1>a, <2>1
    DEF NoPredecessor, handVars, ptyVars, TypeOK, Message, Outlasting, Server,
        Pending, Standing
<1>3. CASE \E d \in Daemon : AskPredecessor(d)
  BY <1>3, <1>a
  DEF AskPredecessor, socketVars, ptyVars, Message, Outlasting, Server,
      Pending, Holding, Adopting, Standing, TypeOK
<1>4. ASSUME NEW d \in Daemon, SignalKills(d)
      PROVE  Message(s)'
  <2>1. ctl \in Daemon
    BY <1>4 DEF SignalKills, Answers, TypeOK
  <2>2. link'[s] = link[s] /\ (s = ctl => link[s].state = "acked")
    BY <1>4, Burials DEF Buried
  <2>3. link[s].state \in Standing => link[s].from # ctl
    BY <1>4, <1>a, <2>1, <2>2
    DEF SignalKills, Message, Outlasting, Server, Handing, Standing
  <2> QED
    BY <1>4, <1>a, <2>1, <2>2, <2>3
    DEF SignalKills, handVars, TypeOK, Message, Outlasting, Server, Pending,
        Adopting, Holding, Standing
<1>5. ASSUME NEW d \in Daemon, Accept(d)
      PROVE  Message(s)'
  <2>1. Moved(d, Taken(link[d]))
    BY <1>5, Moves
  <2>2. CASE s = d
    BY <1>5, <1>a, <2>1, <2>2
    DEF Moved, Accept, Taken, handVars, TypeOK, Message, Outlasting, Server,
        Pending, Standing
  <2>3. CASE s # d
    BY <1>5, <1>a, <2>1, <2>3
    DEF Moved, Accept, handVars, TypeOK, Message, Outlasting, Server, Pending,
        Standing
  <2> QED BY <2>2, <2>3
<1>6. ASSUME NEW d \in Daemon, Ack(d)
      PROVE  Message(s)'
  <2>1. Moved(d, AckOf(link[d]))
    BY <1>6, Moves
  <2>2. CASE s = d
    BY <1>6, <1>a, <2>1, <2>2
    DEF Moved, Ack, AckOf, handVars, ptyVars, TypeOK, Message, Outlasting,
        Server, Pending, Adopting, Holding, Standing
  <2>3. CASE s # d
    BY <1>6, <1>a, <2>1, <2>3
    DEF Moved, Ack, handVars, ptyVars, TypeOK, Message, Outlasting, Server,
        Pending, Standing
  <2> QED BY <2>2, <2>3
<1>7. ASSUME NEW d \in Daemon, AcceptFails(d)
      PROVE  Message(s)'
  <2>1. Moved(d, "void")
    BY <1>7, Moves
  <2>2. CASE s = d
    BY <1>7, <1>a, <2>1, <2>2
    DEF Moved, AcceptFails, handVars, ptyVars, TypeOK, Message, Outlasting,
        Server, Pending, Standing
  <2>3. CASE s # d
    BY <1>7, <1>a, <2>1, <2>3
    DEF Moved, AcceptFails, handVars, ptyVars, TypeOK, Message, Outlasting,
        Server, Pending, Standing
  <2> QED BY <2>2, <2>3
<1>8. ASSUME NEW d \in Daemon, HandoffTimeout(d)
      PROVE  Message(s)'
  <2>1. s # d /\ link'[s] = link[s]
    BY <1>8 DEF HandoffTimeout, TypeOK
  <2> QED
    BY <1>8, <1>a, <2>1
    DEF HandoffTimeout, handVars, ptyVars, TypeOK, Message, Outlasting,
        Server, Pending, Standing
<1>9. CASE \E d \in Daemon :
              Waited(d) \/ BindCheck(d) \/ BindUnlink(d) \/ Bind(d) \/
                HandlerInstalled(d)
  BY <1>9, <1>a
  DEF Waited, BindCheck, BindUnlink, Bind, HandlerInstalled, socketVars,
      handVars, ptyVars, Message, Outlasting, Server, Pending, Holding,
      Adopting, Standing, TypeOK
<1>10. ASSUME NEW d \in Daemon, BindRefused(d)
       PROVE  Message(s)'
  <2>1. link'[s] = link[s] /\ (s = d => link[s].state = "acked")
    BY <1>10, Burials DEF Buried
  <2>2. link[s].state \in Standing => link[s].from # d
    BY <1>10, <1>a, <2>1
    DEF BindRefused, Message, Outlasting, Server, Handing, Starting, Standing
  <2> QED
    BY <1>10, <1>a, <2>1, <2>2
    DEF BindRefused, Dies, TypeOK, Message, Outlasting, Server, Pending,
        Standing
<1>11. ASSUME NEW d \in Daemon, BindInUse(d)
       PROVE  Message(s)'
  <2>1. link'[s] = link[s] /\ (s = d => link[s].state = "acked")
    BY <1>11, Burials DEF Buried
  <2>2. link[s].state \in Standing => link[s].from # d
    BY <1>11, <1>a, <2>1
    DEF BindInUse, Message, Outlasting, Server, Handing, Starting, Standing
  <2> QED
    BY <1>11, <1>a, <2>1, <2>2
    DEF BindInUse, Dies, TypeOK, Message, Outlasting, Server, Pending, Standing
<1>12. ASSUME NEW d \in Daemon, Crash(d)
       PROVE  Message(s)'
  <2>1. link'[s] = link[s] /\ (s = d => link[s].state = "acked")
    BY <1>12, Burials DEF Buried
  <2>2. link[s].state \in Standing => link[s].from # d
    BY <1>12, <1>a, <2>1
    DEF Crash, Message, Outlasting, Server, Handing, Starting, Standing
  <2> QED
    BY <1>12, <1>a, <2>1, <2>2
    DEF Crash, Dies, TypeOK, Message, Outlasting, Server, Pending, Standing
<1>13. ASSUME NEW d \in Daemon, Collect(d)
       PROVE  Message(s)'
  <2>1. link[s].state \in Standing => link[s].from # d
    BY <1>13, <1>a DEF Collect, Message, Outlasting, Server, Handing, Standing
  <2> QED
    BY <1>13, <1>a, <2>1
    DEF Collect, socketVars, ptyVars, TypeOK, Message, Outlasting, Server,
        Pending, Standing
<1>14. ASSUME NEW d \in Daemon, SendFails(d)
       PROVE  Message(s)'
  <2>1. link[s].state \in Standing => link[s].from # d
    BY <1>14, <1>a
    DEF SendFails, Message, Outlasting, Server, Handing, Standing
  <2> QED
    BY <1>14, <1>a, <2>1
    DEF SendFails, socketVars, ptyVars, TypeOK, Message, Outlasting, Server,
        Pending, Standing
<1>15. ASSUME NEW d \in Daemon, Send(d)
       PROVE  Message(s)'
  <2>1. /\ mig \in Daemon
        /\ mig # d
    BY <1>15 DEF Send, TypeOK, Handing
  <2>2. CASE s = mig /\ link[s] = None
    <3>1. link'[s] = Payload(d)
      BY <1>15, <2>1, <2>2 DEF Send, TypeOK
    <3> QED
      BY <1>15, <2>1, <2>2, <3>1, Sending
      DEF Send, socketVars, TypeOK, Message, Outlasting, Server, Pending,
          Adopting, Standing
  <2>3. CASE ~(s = mig /\ link[s] = None)
    <3>1. link'[s] = link[s]
      BY <1>15, <2>1, <2>3 DEF Send, TypeOK
    <3>2. link[s].state \in Standing => link[s].from # d
      BY <1>15, <1>a, <3>1
      DEF Send, Message, Outlasting, Server, Handing, Standing
    <3> QED
      BY <1>15, <1>a, <3>1, <3>2
      DEF Send, socketVars, ptyVars, TypeOK, Message, Outlasting, Server,
          Pending, Standing
  <2> QED BY <2>2, <2>3
<1>16. ASSUME NEW d \in Daemon, GiveUp(d)
       PROVE  Message(s)'
  <2>1. CASE LinkOf(d, to[d]) /\ s = to[d]
    <3>1. Moved(s, IF link[s].state = "sent" THEN "late" ELSE "void")
      BY <1>16, <2>1, Moves
    <3> QED
      BY <1>16, <1>a, <3>1
      DEF Moved, GiveUp, TypeOK, Message, Outlasting, Server, Pending, Standing
  <2>2. CASE ~(LinkOf(d, to[d]) /\ s = to[d])
    <3>1. link'[s] = link[s]
      <4>1. CASE LinkOf(d, to[d])
        BY <1>16, <2>2, <4>1, Moves DEF Moved
      <4>2. CASE ~LinkOf(d, to[d])
        BY <1>16, <4>2 DEF GiveUp
      <4> QED BY <4>1, <4>2
    <3>2. link[s].state \in Standing => link[s].from # d
      BY <1>16, <1>a, <2>2, <3>1
      DEF GiveUp, LinkOf, Message, Outlasting, Server, Handing, Standing
    <3> QED
      BY <1>16, <1>a, <3>1, <3>2
      DEF GiveUp, socketVars, ptyVars, TypeOK, Message, Outlasting, Server,
          Pending, Standing
  <2> QED BY <2>1, <2>2
<1>17. ASSUME NEW d \in Daemon, Exit(d)
       PROVE  Message(s)'
  <2>1. link'[s] = link[s] /\ (s = d => link[s].state = "acked")
    BY <1>17, Burials DEF Buried
  <2>2. link[s].state \in Standing /\ link[s].from = d =>
           link[s].state = "acked"
    BY <1>17, <1>a, <2>1
    DEF Exit, Acked, Message, Outlasting, Server, Handing, Standing
  <2> QED
    BY <1>17, <1>a, <2>1, <2>2
    DEF Exit, Dies, TypeOK, Message, Outlasting, Server, Pending, Standing
<1>18. ASSUME NEW d \in Daemon, NEW p \in Pty, Open(d, p)
       PROVE  Message(s)'
  BY <1>18, <1>a
  DEF Open, socketVars, handVars, Message, Outlasting, Server, Pending,
      Holding, Adopting, Standing, TypeOK, Admits, Serves
<1>19. CASE \/ \E d \in Daemon, p \in Pty :
                  Close(d, p) \/ Reopen(d, p) \/ Read(d, p)
            \/ UNCHANGED vars
  BY <1>19, <1>a
  DEF Close, Reopen, Read, socketVars, handVars, vars, Message, Outlasting,
      Server, Pending, Holding, Adopting, Standing, TypeOK
<1> QED
  BY <1>1, <1>2, <1>3, <1>4, <1>5, <1>6, <1>7, <1>8, <1>9, <1>10, <1>11,
     <1>12, <1>13, <1>14, <1>15, <1>16, <1>17, <1>18, <1>19
  DEF Next, Startup, HandOff, Requests

\* Only a daemon that has adopted or serves comes to hold ptys.
LEMMA HoldersStep == IndInv /\ [Next]_vars => Holders'
<1> SUFFICES ASSUME IndInv, [Next]_vars PROVE Holders'
  OBVIOUS
<1> USE HandoffAssumption DEF IndInv
<1>1. CASE \E d \in Daemon : StartFresh(d) \/ StartUpgrade(d) \/ Rendezvous(d)
  BY <1>1, ZenonT(60)
  DEF StartFresh, StartUpgrade, Rendezvous, socketVars, handVars, ptyVars,
      Holders, Holding, TypeOK
<1>2. CASE \E d \in Daemon : NoPredecessor(d) \/ HandoffTimeout(d)
  BY <1>2, ZenonT(60)
  DEF NoPredecessor, HandoffTimeout, handVars, ptyVars, Holders, Holding,
      TypeOK
<1>3. CASE \E d \in Daemon : AskPredecessor(d) \/ Waited(d) \/ BindCheck(d) \/
                BindUnlink(d) \/ Bind(d) \/ HandlerInstalled(d)
  BY <1>3, ZenonT(60)
  DEF AskPredecessor, Waited, BindCheck, BindUnlink, Bind, HandlerInstalled,
      socketVars, handVars, ptyVars, Holders, Holding, TypeOK
<1>4. ASSUME NEW d \in Daemon, SignalKills(d)
      PROVE  Holders'
  <2>1. ctl \in Daemon
    BY <1>4 DEF SignalKills, Answers, TypeOK
  <2> QED BY <1>4, <2>1 DEF SignalKills, Holders, Holding, TypeOK
<1>5. ASSUME NEW d \in Daemon, Accept(d)
      PROVE  Holders'
  <2>1. Moved(d, Taken(link[d]))
    BY <1>5, Moves
  <2> QED BY <1>5, <2>1 DEF Moved, Accept, Holders, Holding, TypeOK
<1>6. ASSUME NEW d \in Daemon, Ack(d)
      PROVE  Holders'
  BY <1>6 DEF Ack, ptyVars, Holders, Holding, TypeOK
<1>7. ASSUME NEW d \in Daemon, AcceptFails(d)
      PROVE  Holders'
  BY <1>7 DEF AcceptFails, handVars, ptyVars, Holders, Holding, TypeOK
<1>8. ASSUME NEW d \in Daemon, BindRefused(d)
      PROVE  Holders'
  BY <1>8 DEF BindRefused, Dies, socketVars, Holders, Holding, TypeOK
<1>9. ASSUME NEW d \in Daemon, BindInUse(d)
      PROVE  Holders'
  BY <1>9 DEF BindInUse, Dies, socketVars, Holders, Holding, TypeOK
<1>10. ASSUME NEW d \in Daemon, Crash(d)
       PROVE  Holders'
  BY <1>10 DEF Crash, Dies, socketVars, Holders, Holding, TypeOK
<1>11. CASE \/ \E d \in Daemon : Collect(d) \/ SendFails(d)
            \/ \E d \in Daemon, p \in Pty :
                  Close(d, p) \/ Reopen(d, p) \/ Read(d, p)
            \/ UNCHANGED vars
  BY <1>11
  DEF Collect, SendFails, Close, Reopen, Read, socketVars, handVars,
      ptyVars, vars, Holders, Holding, TypeOK
<1>12. ASSUME NEW d \in Daemon, Send(d)
       PROVE  Holders'
  <2>1. mig \in Daemon
    BY <1>12 DEF Send, TypeOK
  <2>2. \A e \in Daemon : link[e] # None => link'[e] # None
    BY <1>12, <2>1 DEF Send, TypeOK
  <2> QED BY <1>12, <2>2 DEF Send, ptyVars, Holders, TypeOK
<1>13. ASSUME NEW d \in Daemon, GiveUp(d)
       PROVE  Holders'
  <2>1. \A e \in Daemon : link[e] # None => link'[e] # None
    BY <1>13, Moves, ZenonT(60) DEF Moved, GiveUp
  <2> QED BY <1>13, <2>1 DEF GiveUp, ptyVars, Holders, TypeOK
<1>14. ASSUME NEW d \in Daemon, Exit(d)
       PROVE  Holders'
  BY <1>14 DEF Exit, Dies, socketVars, Holders, Holding, TypeOK
<1>15. ASSUME NEW d \in Daemon, NEW p \in Pty, Open(d, p)
       PROVE  Holders'
  BY <1>15
  DEF Open, socketVars, handVars, Holders, Holding, TypeOK, Admits, Serves
<1> QED
  BY <1>1, <1>2, <1>3, <1>4, <1>5, <1>6, <1>7, <1>8, <1>9, <1>10, <1>11,
     <1>12, <1>13, <1>14, <1>15
  DEF Next, Startup, HandOff, Requests

\* Output and shells come from reads and opens alone.
LEMMA InventStep == IndInv /\ [Next]_vars => NothingInvented'
<1> SUFFICES ASSUME IndInv, [Next]_vars PROVE NothingInvented'
  OBVIOUS
<1> USE HandoffAssumption DEF IndInv
<1>1. CASE \E d \in Daemon :
              StartFresh(d) \/ StartUpgrade(d) \/ Rendezvous(d) \/
                AskPredecessor(d) \/ Waited(d) \/ BindCheck(d) \/
                BindUnlink(d) \/ Bind(d) \/ HandlerInstalled(d)
  BY <1>1
  DEF StartFresh, StartUpgrade, Rendezvous, AskPredecessor, Waited,
      BindCheck, BindUnlink, Bind, HandlerInstalled, socketVars, handVars,
      ptyVars, NothingInvented, TypeOK
<1>2. CASE \E d \in Daemon : NoPredecessor(d) \/ HandoffTimeout(d)
  BY <1>2, ZenonT(60)
  DEF NoPredecessor, HandoffTimeout, handVars, ptyVars, NothingInvented,
      TypeOK
<1>3. ASSUME NEW d \in Daemon, SignalKills(d)
      PROVE  NothingInvented'
  <2>1. ctl \in Daemon
    BY <1>3 DEF SignalKills, Answers, TypeOK
  <2>2. Buried(ctl)
    BY <1>3, Burials
  <2> QED BY <1>3, <2>1, <2>2 DEF Buried, SignalKills, NothingInvented, TypeOK
<1>4. ASSUME NEW d \in Daemon, Accept(d)
      PROVE  NothingInvented'
  <2>1. Moved(d, Taken(link[d]))
    BY <1>4, Moves
  <2> QED BY <1>4, <2>1 DEF Moved, Accept, NothingInvented, TypeOK
<1>5. ASSUME NEW d \in Daemon, Ack(d)
      PROVE  NothingInvented'
  <2>1. Moved(d, AckOf(link[d]))
    BY <1>5, Moves
  <2> QED BY <1>5, <2>1 DEF Moved, Ack, ptyVars, NothingInvented, TypeOK
<1>6. ASSUME NEW d \in Daemon, AcceptFails(d)
      PROVE  NothingInvented'
  <2>1. Moved(d, "void")
    BY <1>6, Moves
  <2> QED
    BY <1>6, <2>1
    DEF Moved, AcceptFails, ptyVars, NothingInvented, TypeOK
<1>7. ASSUME NEW d \in Daemon, BindRefused(d)
      PROVE  NothingInvented'
  BY <1>7, Burials
  DEF Buried, BindRefused, Dies, socketVars, NothingInvented, TypeOK
<1>8. ASSUME NEW d \in Daemon, BindInUse(d)
      PROVE  NothingInvented'
  BY <1>8, Burials
  DEF Buried, BindInUse, Dies, socketVars, NothingInvented, TypeOK
<1>9. ASSUME NEW d \in Daemon, Crash(d)
      PROVE  NothingInvented'
  BY <1>9, Burials
  DEF Buried, Crash, Dies, socketVars, NothingInvented, TypeOK
<1>10. CASE \/ \E d \in Daemon : Collect(d) \/ SendFails(d)
            \/ UNCHANGED vars
  BY <1>10
  DEF Collect, SendFails, socketVars, ptyVars, vars, NothingInvented, TypeOK
<1>11. ASSUME NEW d \in Daemon, Send(d)
       PROVE  NothingInvented'
  <2>1. mig \in Daemon /\ batch[d] \subseteq table[d]
    BY <1>11 DEF Send, Handing, TypeOK
  <2>2. \A e \in Daemon : link'[e] = link[e] \/ link'[e] = Payload(d)
    BY <1>11, <2>1 DEF Send, TypeOK
  <2>3. \A e \in Daemon : link'[e] # None =>
           /\ link'[e].ptys \subseteq born
           /\ link'[e].lease \subseteq born
           /\ \A p \in Pty : link'[e].vt[p] \subseteq 1..read[p]
    <3> SUFFICES ASSUME NEW e \in Daemon, link'[e] # None
                 PROVE  /\ link'[e].ptys \subseteq born
                        /\ link'[e].lease \subseteq born
                        /\ \A p \in Pty : link'[e].vt[p] \subseteq 1..read[p]
      OBVIOUS
    <3>1. CASE link'[e] = link[e]
      BY <3>1 DEF NothingInvented
    <3>2. CASE link'[e] = Payload(d)
      BY <2>1, <3>2, Sending DEF NothingInvented
    <3> QED BY <2>2, <3>1, <3>2
  <2> QED
    BY <1>11, <2>3 DEF Send, ptyVars, NothingInvented
<1>12. ASSUME NEW d \in Daemon, GiveUp(d)
       PROVE  NothingInvented'
  <2>1. \A e \in Daemon : link'[e] # None =>
           /\ link[e] # None
           /\ link'[e].ptys = link[e].ptys
           /\ link'[e].vt = link[e].vt
           /\ link'[e].lease = link[e].lease
    BY <1>12, Moves, ZenonT(60) DEF Moved, GiveUp
  <2> QED BY <1>12, <2>1 DEF GiveUp, ptyVars, NothingInvented
<1>13. ASSUME NEW d \in Daemon, Exit(d)
       PROVE  NothingInvented'
  BY <1>13, Burials
  DEF Buried, Exit, Dies, socketVars, NothingInvented, TypeOK
<1>14. ASSUME NEW d \in Daemon, NEW p \in Pty, Open(d, p)
       PROVE  NothingInvented'
  BY <1>14 DEF Open, socketVars, handVars, NothingInvented, TypeOK
<1>15. ASSUME NEW d \in Daemon, NEW p \in Pty, Close(d, p)
       PROVE  NothingInvented'
  BY <1>15 DEF Close, socketVars, handVars, NothingInvented, TypeOK
<1>16. ASSUME NEW d \in Daemon, NEW p \in Pty, Reopen(d, p)
       PROVE  NothingInvented'
  BY <1>16 DEF Reopen, socketVars, handVars, NothingInvented, TypeOK
<1>17. ASSUME NEW d \in Daemon, NEW p \in Pty, Read(d, p)
       PROVE  NothingInvented'
  <2>1. read[p] \in 0..MaxChunks /\ read'[p] = read[p] + 1
    BY <1>17 DEF Read, TypeOK
  <2>2. \A q \in Pty : 1..read[q] \subseteq 1..read'[q]
    BY <1>17, <2>1 DEF Read, TypeOK
  <2>3. \A e \in Daemon, q \in Pty : vt'[e][q] \subseteq 1..read'[q]
    <3> SUFFICES ASSUME NEW e \in Daemon, NEW q \in Pty
                 PROVE  vt'[e][q] \subseteq 1..read'[q]
      OBVIOUS
    <3>1. CASE e = d /\ q = p
      <4>1. vt'[e][q] = vt[d][p] \cup {read[p] + 1}
        BY <1>17, <3>1 DEF Read, TypeOK
      <4> QED BY <2>1, <2>2, <3>1, <4>1 DEF NothingInvented, TypeOK
    <3>2. CASE ~(e = d /\ q = p)
      <4>1. vt'[e][q] = vt[e][q]
        BY <1>17, <3>2 DEF Read, TypeOK
      <4> QED BY <2>2, <4>1 DEF NothingInvented
    <3> QED BY <3>1, <3>2
  <2>4. \A e \in Daemon, q \in Pty : link[e] # None =>
           link[e].vt[q] \subseteq 1..read'[q]
    BY <2>2 DEF NothingInvented
  <2>5. \A q \in Pty : q \notin born => read'[q] = 0
    BY <1>17 DEF Read, NothingInvented, TypeOK
  <2> QED BY <1>17, <2>3, <2>4, <2>5 DEF Read, NothingInvented
<1> QED
  BY <1>1, <1>2, <1>3, <1>4, <1>5, <1>6, <1>7, <1>8, <1>9, <1>10, <1>11,
     <1>12, <1>13, <1>14, <1>15, <1>16, <1>17
  DEF Next, Startup, HandOff, Requests

\* The message that e has sent shows what e shows.
Shows(e) == \A p \in link[to[e]].ptys : link[to[e]].vt[p] = vt[e][p]

\* A message that its sender waits for goes on showing the sender's screens.
LEMMA SnapshotStep == IndInv /\ [Next]_vars => SnapshotIsCurrent'
<1> SUFFICES ASSUME IndInv, [Next]_vars PROVE SnapshotIsCurrent'
  OBVIOUS
<1> USE HandoffAssumption DEF IndInv
<1> SUFFICES ASSUME NEW e \in Daemon, (hand[e] = "sent" /\ LinkOf(e, to[e]))'
             PROVE  Shows(e)'
  BY DEF SnapshotIsCurrent, Shows
<1>a. ASSUME hand[e] = "sent", LinkOf(e, to[e])
      PROVE  Shows(e) /\ link[to[e]].ptys = batch[e]
  <2>1. to[e] \in Daemon /\ mode[e] = "serving"
    BY <1>a DEF LinkOf, Handing, TypeOK
  <2>2. Message(to[e])
    BY <1>a, <2>1 DEF LinkOf, Messages
  <2> QED
    BY <1>a, <2>1, <2>2
    DEF SnapshotIsCurrent, Shows, LinkOf, Message, Standing
<1>b. hand[e] # "idle" => mode[e] = "serving"
  BY DEF Handing
<1>c. to[e] \in Daemon \cup {None}
  BY DEF TypeOK
<1>1. CASE \/ \E d \in Daemon :
                 StartFresh(d) \/ StartUpgrade(d) \/ Rendezvous(d) \/
                AskPredecessor(d) \/ Waited(d) \/ BindCheck(d) \/
                BindUnlink(d) \/ Bind(d) \/ HandlerInstalled(d)
           \/ \E d \in Daemon, p \in Pty :
                 Close(d, p) \/ Reopen(d, p) \/ Open(d, p)
           \/ UNCHANGED vars
  BY <1>1, <1>a
  DEF StartFresh, StartUpgrade, Rendezvous, AskPredecessor, Waited,
      BindCheck, BindUnlink, Bind, HandlerInstalled, Close, Reopen, Open,
      socketVars, handVars, ptyVars, vars, LinkOf, Shows, TypeOK
<1>2. ASSUME NEW d \in Daemon, NoPredecessor(d)
      PROVE  Shows(e)'
  BY <1>2, <1>a, <1>c
  DEF NoPredecessor, handVars, ptyVars, LinkOf, Shows, TypeOK
<1>3. ASSUME NEW d \in Daemon, SignalKills(d)
      PROVE  Shows(e)'
  <2>1. ctl \in Daemon
    BY <1>3 DEF SignalKills, Answers, TypeOK
  <2>2. Buried(ctl)
    BY <1>3, Burials
  <2> QED
    BY <1>3, <1>a, <1>c, <2>1, <2>2
    DEF Buried, SignalKills, handVars, LinkOf, Shows, TypeOK
<1>4. ASSUME NEW d \in Daemon, Accept(d)
      PROVE  Shows(e)'
  <2>1. Moved(d, Taken(link[d]))
    BY <1>4, Moves
  <2> QED
    BY <1>4, <1>a, <1>b, <1>c, <2>1
    DEF Moved, Accept, Taken, handVars, Pending, LinkOf, Shows, TypeOK
<1>5. ASSUME NEW d \in Daemon, Ack(d)
      PROVE  Shows(e)'
  <2>1. Moved(d, AckOf(link[d]))
    BY <1>5, Moves
  <2> QED
    BY <1>5, <1>a, <1>b, <1>c, <2>1
    DEF Moved, Ack, AckOf, handVars, ptyVars, LinkOf, Shows, TypeOK
<1>6. ASSUME NEW d \in Daemon, AcceptFails(d)
      PROVE  Shows(e)'
  <2>1. Moved(d, "void")
    BY <1>6, Moves
  <2> QED
    BY <1>6, <1>a, <1>b, <1>c, <2>1
    DEF Moved, AcceptFails, handVars, ptyVars, LinkOf, Shows, TypeOK
<1>7. ASSUME NEW d \in Daemon, HandoffTimeout(d)
      PROVE  Shows(e)'
  BY <1>7, <1>a, <1>c
  DEF HandoffTimeout, handVars, ptyVars, LinkOf, Shows, TypeOK
<1>8. ASSUME NEW d \in Daemon, BindRefused(d)
      PROVE  Shows(e)'
  <2>1. /\ e # d /\ hand[e] = "sent"
        /\ UNCHANGED <<to, vt>>
    BY <1>8 DEF BindRefused, Dies, TypeOK
  <2>2. LinkOf(e, to[e]) /\ link'[to[e]] = link[to[e]]
    BY <1>8, <1>c, <2>1, Burials DEF Buried, LinkOf
  <2> QED BY <1>a, <2>1, <2>2 DEF Shows
<1>9. ASSUME NEW d \in Daemon, BindInUse(d)
      PROVE  Shows(e)'
  <2>1. /\ e # d /\ hand[e] = "sent"
        /\ UNCHANGED <<to, vt>>
    BY <1>9 DEF BindInUse, Dies, TypeOK
  <2>2. LinkOf(e, to[e]) /\ link'[to[e]] = link[to[e]]
    BY <1>9, <1>c, <2>1, Burials DEF Buried, LinkOf
  <2> QED BY <1>a, <2>1, <2>2 DEF Shows
<1>10. ASSUME NEW d \in Daemon, Crash(d)
       PROVE  Shows(e)'
  <2>1. /\ e # d /\ hand[e] = "sent"
        /\ UNCHANGED <<to, vt>>
    BY <1>10 DEF Crash, Dies, TypeOK
  <2>2. LinkOf(e, to[e]) /\ link'[to[e]] = link[to[e]]
    BY <1>10, <1>c, <2>1, Burials DEF Buried, LinkOf
  <2> QED BY <1>a, <2>1, <2>2 DEF Shows
<1>11. ASSUME NEW d \in Daemon, Collect(d)
       PROVE  Shows(e)'
  BY <1>11, <1>a DEF Collect, socketVars, ptyVars, LinkOf, Shows, TypeOK
<1>12. ASSUME NEW d \in Daemon, SendFails(d)
       PROVE  Shows(e)'
  BY <1>12, <1>a DEF SendFails, socketVars, ptyVars, LinkOf, Shows, TypeOK
<1>13. ASSUME NEW d \in Daemon, Send(d)
       PROVE  Shows(e)'
  <2>1. mig \in Daemon
    BY <1>13 DEF Send, TypeOK
  <2>2. CASE e = d
    <3>1. to'[e] = mig
      BY <1>13, <2>2 DEF Send, TypeOK
    <3>2. CASE link[mig] = None
      <4>1. link'[mig] = Payload(d)
        BY <1>13, <2>1, <3>2 DEF Send, TypeOK
      <4> QED BY <1>13, <2>2, <3>1, <4>1, Sending DEF Send, Shows, ptyVars
    <3>3. CASE link[mig] # None
      <4>1. link'[mig] = link[mig]
        BY <1>13, <2>1, <3>3 DEF Send, TypeOK
      <4> QED
        BY <1>13, <2>1, <2>2, <3>1, <3>3, <4>1
        DEF Send, LinkOf, Messages, Message, Handing, Standing
    <3> QED BY <3>2, <3>3
  <2>3. CASE e # d
    <3>1. to'[e] = to[e] /\ hand'[e] = hand[e]
      BY <1>13, <2>3 DEF Send, TypeOK
    <3>2. link'[to[e]] = link[to[e]] \/ link'[to[e]] = Payload(d)
      BY <1>13, <1>c, <2>1, <3>1 DEF Send, LinkOf, TypeOK
    <3> QED
      BY <1>13, <1>a, <2>3, <3>1, <3>2, Sending
      DEF Send, LinkOf, Shows, ptyVars
  <2> QED BY <2>2, <2>3
<1>14. ASSUME NEW d \in Daemon, GiveUp(d)
       PROVE  Shows(e)'
  <2>1. hand'[e] = hand[e] /\ e # d
    BY <1>14 DEF GiveUp, TypeOK
  <2>2. link'[to[e]] = link[to[e]]
    <3>1. CASE LinkOf(d, to[d])
      <4>1. Moved(to[d], IF link[to[d]].state = "sent" THEN "late" ELSE "void")
        BY <1>14, <3>1, Moves
      <4> QED BY <1>14, <1>c, <2>1, <4>1 DEF GiveUp, LinkOf, Moved
    <3>2. CASE ~LinkOf(d, to[d])
      BY <1>14, <3>2 DEF GiveUp
    <3> QED BY <3>1, <3>2
  <2> QED
    BY <1>14, <1>a, <2>1, <2>2 DEF GiveUp, LinkOf, Shows, ptyVars
<1>15. ASSUME NEW d \in Daemon, Exit(d)
       PROVE  Shows(e)'
  <2>1. /\ e # d /\ hand[e] = "sent"
        /\ UNCHANGED <<to, vt>>
    BY <1>15 DEF Exit, Dies, TypeOK
  <2>2. LinkOf(e, to[e]) /\ link'[to[e]] = link[to[e]]
    BY <1>15, <1>c, <2>1, Burials DEF Buried, LinkOf
  <2> QED BY <1>a, <2>1, <2>2 DEF Shows
<1>16. ASSUME NEW d \in Daemon, NEW p \in Pty, Read(d, p)
       PROVE  Shows(e)'
  <2>1. /\ hand[e] = "sent" /\ LinkOf(e, to[e])
        /\ UNCHANGED <<to, link>>
    BY <1>16 DEF Read, handVars, LinkOf
  <2>2. \A q \in batch[e] : vt'[e][q] = vt[e][q]
    BY <1>16, <2>1 DEF Read, Frozen, TypeOK
  <2> QED BY <1>a, <2>1, <2>2 DEF Shows
<1> QED
  BY <1>1, <1>2, <1>3, <1>4, <1>5, <1>6, <1>7, <1>8, <1>9, <1>10, <1>11,
     <1>12, <1>13, <1>14, <1>15, <1>16
  DEF Next, Startup, HandOff, Requests

-----------------------------------------------------------------------------
(* As long as no rival is started and no successor deserts *)

\* A daemon exits when the only process that is starting waits for it, with
\* all the ptys of the batch.
LEMMA ExitsToSuccessor ==
  ASSUME IndInv, Quiet, NEW d \in Daemon, Exit(d)
  PROVE  /\ to[d] \in Daemon \ {d}
         /\ link[to[d]] # None
         /\ link[to[d]].state = "acked"
         /\ link[to[d]].from = d
         /\ mode[d] = "serving"
         /\ mode[to[d]] \in Waiting
         /\ \A e \in Daemon : mode[e] \in Starting => e = to[d]
         /\ \A e \in Daemon : mode[e] \in Server => e = d
         /\ table[to[d]] = batch[d]
         /\ link[to[d]].ptys = batch[d]
<1> USE DEF IndInv
<1>1. /\ to[d] \in Daemon
      /\ link[to[d]] # None
      /\ link[to[d]].state = "acked"
      /\ link[to[d]].from = d
      /\ mode[d] = "serving"
      /\ hand[d] = "sent"
  BY DEF Exit, Acked, LinkOf, TypeOK, Handing
<1>2. Message(to[d])
  BY <1>1 DEF Messages
<1>3. to[d] # d /\ \A e \in Daemon : mode[e] \in Server => e = d
  BY <1>1, <1>2 DEF Message, Calm, Quiet, Orderly, ServerOwns, Server
<1>4. mode[to[d]] \in Waiting
  BY <1>1 DEF Calm, Quiet, Awaited, Waiting
<1>5. \A e \in Daemon : mode[e] \in Starting => e = to[d]
  BY <1>1, <1>4 DEF Calm, Quiet, Orderly, OneStarting, Starting, Waiting
<1>6. table[to[d]] = batch[d] /\ link[to[d]].ptys = batch[d]
  BY <1>1, <1>2, <1>4 DEF Message, Standing, Server, Waiting
<1> QED BY <1>1, <1>3, <1>4, <1>5, <1>6

\* The weather of a behaviour does not change.
LEMMA SameWeather == [Next]_vars => weather' = weather
BY ZenonT(60)
DEF Next, Startup, HandOff, Requests, StartFresh, StartUpgrade, Rendezvous,
    NoPredecessor, AskPredecessor, SignalKills, Accept, Ack, AcceptFails,
    HandoffTimeout, Waited, BindCheck, BindRefused, BindUnlink, Bind,
    BindInUse, HandlerInstalled, Crash, Collect, SendFails, Send, GiveUp,
    Exit, Open, Close, Reopen, Read, vars

\* Without rivals, daemons go on starting and serving one at a time.
LEMMA OrderlyStep ==
  IndInv /\ [Next]_vars => (Quiet => Orderly)'
<1> SUFFICES ASSUME IndInv, [Next]_vars
             PROVE  (Quiet => Orderly)'
  OBVIOUS
<1> USE HandoffAssumption DEF IndInv
<1> SUFFICES ASSUME Quiet PROVE Orderly'
  BY SameWeather DEF Quiet
<1>a. Orderly
  BY DEF Calm, Quiet
<1>1. ASSUME NEW d \in Daemon, StartFresh(d)
      PROVE  Orderly'
  BY <1>1, <1>a
  DEF StartFresh, socketVars, handVars, ptyVars, Orderly, OneStarting,
      ServerOwns, PathFree, MeetsPredecessor, ServerStays, Starting, Server,
      Settling, TypeOK, MayStart, Quiet
<1>2. ASSUME NEW d \in Daemon, StartUpgrade(d)
      PROVE  Orderly'
  BY <1>2, <1>a
  DEF StartUpgrade, socketVars, handVars, ptyVars, Orderly, OneStarting,
      ServerOwns, PathFree, MeetsPredecessor, ServerStays, Starting, Server,
      Settling, TypeOK, MayStart, Quiet
<1>3. ASSUME NEW d \in Daemon, Rendezvous(d)
      PROVE  Orderly'
  BY <1>3, <1>a
  DEF Rendezvous, handVars, ptyVars, Orderly, OneStarting, ServerOwns,
      PathFree, MeetsPredecessor, ServerStays, Starting, Server, Settling,
      TypeOK
<1>4. ASSUME NEW d \in Daemon, NoPredecessor(d)
      PROVE  Orderly'
  BY <1>4, <1>a
  DEF NoPredecessor, handVars, ptyVars, Orderly, OneStarting, ServerOwns,
      PathFree, MeetsPredecessor, ServerStays, Starting, Server, Settling,
      TypeOK
<1>5. ASSUME NEW d \in Daemon, AskPredecessor(d)
      PROVE  Orderly'
  BY <1>5, <1>a
  DEF AskPredecessor, socketVars, ptyVars, Orderly, OneStarting, ServerOwns,
      PathFree, MeetsPredecessor, ServerStays, Starting, Server, Settling,
      TypeOK, Answers
<1>6. ASSUME NEW d \in Daemon, SignalKills(d)
      PROVE  Orderly'
  <2>1. ctl \in Daemon
    BY <1>6 DEF SignalKills, Answers, TypeOK
  <2> QED BY <1>6, <1>a, <2>1 DEF SignalKills, Orderly, OneStarting, Starting
<1>7. ASSUME NEW d \in Daemon, Accept(d)
      PROVE  Orderly'
  BY <1>7, <1>a
  DEF Accept, socketVars, handVars, Orderly, OneStarting, ServerOwns,
      PathFree, MeetsPredecessor, ServerStays, Starting, Server, Settling,
      TypeOK
<1>8. ASSUME NEW d \in Daemon, Ack(d)
      PROVE  Orderly'
  BY <1>8, <1>a
  DEF Ack, handVars, ptyVars, Orderly, OneStarting, ServerOwns, PathFree,
      MeetsPredecessor, ServerStays, Starting, Server, Settling, TypeOK
<1>9. ASSUME NEW d \in Daemon, AcceptFails(d)
      PROVE  Orderly'
  BY <1>9, <1>a
  DEF AcceptFails, handVars, ptyVars, Orderly, OneStarting, ServerOwns,
      PathFree, MeetsPredecessor, ServerStays, Starting, Server, Settling,
      TypeOK
<1>10. ASSUME NEW d \in Daemon, HandoffTimeout(d)
       PROVE  Orderly'
  BY <1>10, <1>a
  DEF HandoffTimeout, handVars, ptyVars, Orderly, OneStarting, ServerOwns,
      PathFree, MeetsPredecessor, ServerStays, Starting, Server, Settling,
      TypeOK
<1>11. ASSUME NEW d \in Daemon, Waited(d)
       PROVE  Orderly'
  BY <1>11, <1>a
  DEF Waited, socketVars, handVars, ptyVars, Orderly, OneStarting,
      ServerOwns, PathFree, MeetsPredecessor, ServerStays, Starting, Server,
      Settling, TypeOK
<1>12. ASSUME NEW d \in Daemon, BindCheck(d)
       PROVE  Orderly'
  BY <1>12, <1>a
  DEF BindCheck, socketVars, handVars, ptyVars, Orderly, OneStarting,
      ServerOwns, PathFree, MeetsPredecessor, ServerStays, Starting, Server,
      Settling, TypeOK, Answers
<1>13. ASSUME NEW d \in Daemon, BindRefused(d)
       PROVE  Orderly'
  BY <1>13, <1>a
  DEF BindRefused, Dies, socketVars, Orderly, OneStarting, ServerOwns,
      PathFree, MeetsPredecessor, ServerStays, Starting, Server, Settling,
      TypeOK
<1>14. ASSUME NEW d \in Daemon, BindUnlink(d)
       PROVE  Orderly'
  BY <1>14, <1>a
  DEF BindUnlink, handVars, ptyVars, Orderly, OneStarting, ServerOwns,
      PathFree, MeetsPredecessor, ServerStays, Starting, Server, Settling,
      TypeOK
<1>15. ASSUME NEW d \in Daemon, Bind(d)
       PROVE  Orderly'
  BY <1>15, <1>a
  DEF Bind, handVars, ptyVars, Orderly, OneStarting, ServerOwns, PathFree,
      MeetsPredecessor, ServerStays, Starting, Server, Settling, TypeOK
<1>16. ASSUME NEW d \in Daemon, BindInUse(d)
       PROVE  Orderly'
  BY <1>16, <1>a
  DEF BindInUse, Dies, socketVars, Orderly, OneStarting, ServerOwns,
      PathFree, MeetsPredecessor, ServerStays, Starting, Server, Settling,
      TypeOK
<1>17. ASSUME NEW d \in Daemon, HandlerInstalled(d)
       PROVE  Orderly'
  BY <1>17, <1>a
  DEF HandlerInstalled, socketVars, handVars, ptyVars, Orderly, OneStarting,
      ServerOwns, PathFree, MeetsPredecessor, ServerStays, Starting, Server,
      Settling, TypeOK
<1>18. ASSUME NEW d \in Daemon, Crash(d)
       PROVE  Orderly'
  BY <1>18, <1>a
  DEF Crash, Dies, socketVars, Orderly, OneStarting, ServerOwns, PathFree,
      MeetsPredecessor, ServerStays, Starting, Server, Settling, TypeOK
<1>19. CASE \/ \E d \in Daemon :
                  Collect(d) \/ SendFails(d) \/ Send(d) \/ GiveUp(d)
            \/ \E d \in Daemon, p \in Pty :
                  Open(d, p) \/ Close(d, p) \/ Reopen(d, p) \/ Read(d, p)
            \/ UNCHANGED vars
  BY <1>19, <1>a
  DEF Collect, SendFails, Send, GiveUp, Open, Close, Reopen, Read,
      socketVars, handVars, ptyVars, vars, Orderly, OneStarting, ServerOwns,
      PathFree, MeetsPredecessor, ServerStays, Starting, Server, Settling,
      TypeOK
<1>20. ASSUME NEW d \in Daemon, Exit(d)
       PROVE  Orderly'
  <2>1. \A e \in Daemon : mode[e] \in Starting => e = to[d]
    BY <1>20, ExitsToSuccessor
  <2>2. mode[to[d]] \in Waiting
    BY <1>20, ExitsToSuccessor
  <2> QED
    BY <1>20, <1>a, <2>1, <2>2
    DEF Exit, Dies, socketVars, Orderly, OneStarting, ServerOwns, PathFree,
        MeetsPredecessor, ServerStays, Starting, Server, Settling, Waiting,
        TypeOK
<1> QED
  BY <1>1, <1>2, <1>3, <1>4, <1>5, <1>6, <1>7, <1>8, <1>9, <1>10, <1>11,
     <1>12, <1>13, <1>14, <1>15, <1>16, <1>17, <1>18, <1>19, <1>20
  DEF Next, Startup, HandOff, Requests

\* Without rivals, a successor goes on having its message from the daemon it
\* signalled.
LEMMA FromStep ==
  IndInv /\ [Next]_vars => (Quiet => FromPredecessor)'
<1> SUFFICES ASSUME IndInv, [Next]_vars
             PROVE  (Quiet => FromPredecessor)'
  OBVIOUS
<1> USE HandoffAssumption DEF IndInv
<1> SUFFICES ASSUME Quiet,
                    NEW s \in Daemon, mode'[s] \in Settling,
                    link'[s] # None, link'[s].state \in Standing
             PROVE  link'[s].from = pred'[s]
  BY SameWeather DEF Quiet, FromPredecessor
<1>a. Orderly /\ FromPredecessor
  BY DEF Calm, Quiet
<1>b. link[s] # None => Message(s) /\ link[s].from \in Daemon
  BY DEF Messages, TypeOK, Link
<1>1. CASE \E d \in Daemon : StartFresh(d) \/ StartUpgrade(d) \/ Rendezvous(d)
  BY <1>1, <1>a
  DEF StartFresh, StartUpgrade, Rendezvous, socketVars, handVars, ptyVars,
      FromPredecessor, Settling, TypeOK
<1>2. ASSUME NEW d \in Daemon, NoPredecessor(d)
      PROVE  link'[s].from = pred'[s]
  BY <1>2, <1>a
  DEF NoPredecessor, handVars, ptyVars, FromPredecessor, Settling, TypeOK
<1>3. ASSUME NEW d \in Daemon, AskPredecessor(d)
      PROVE  link'[s].from = pred'[s]
  <2>1. CASE s = d
    <3>1. hand[link[s].from] = "sent"
      BY <1>3, <1>b, <2>1
      DEF AskPredecessor, Message, Outlasting, Holding, Standing
    <3>2. ctl = link[s].from
      BY <1>3, <1>a, <1>b, <2>1, <3>1
      DEF AskPredecessor, Handing, Orderly, ServerOwns, Server
    <3> QED BY <1>3, <2>1, <3>2 DEF AskPredecessor, TypeOK
  <2>2. CASE s # d
    BY <1>3, <1>a, <2>2
    DEF AskPredecessor, FromPredecessor, Settling, TypeOK
  <2> QED BY <2>1, <2>2
<1>4. ASSUME NEW d \in Daemon, SignalKills(d)
      PROVE  link'[s].from = pred'[s]
  <2>1. ctl \in Daemon
    BY <1>4 DEF SignalKills, Answers, TypeOK
  <2> QED BY <1>4, <1>a, <2>1 DEF SignalKills, Orderly, OneStarting, Starting
<1>5. ASSUME NEW d \in Daemon, Accept(d)
      PROVE  link'[s].from = pred'[s]
  <2>1. Moved(d, Taken(link[d]))
    BY <1>5, Moves
  <2> QED
    BY <1>5, <1>a, <2>1
    DEF Moved, Accept, Taken, Pending, FromPredecessor, Settling,
        Standing, TypeOK
<1>6. ASSUME NEW d \in Daemon, Ack(d)
      PROVE  link'[s].from = pred'[s]
  <2>1. Moved(d, AckOf(link[d]))
    BY <1>6, Moves
  <2> QED
    BY <1>6, <1>a, <2>1
    DEF Moved, Ack, AckOf, FromPredecessor, Settling, Standing, TypeOK
<1>7. ASSUME NEW d \in Daemon, AcceptFails(d)
      PROVE  link'[s].from = pred'[s]
  <2>1. Moved(d, "void")
    BY <1>7, Moves
  <2> QED
    BY <1>7, <1>a, <2>1
    DEF Moved, AcceptFails, FromPredecessor, Settling, Standing, TypeOK
<1>8. ASSUME NEW d \in Daemon, HandoffTimeout(d)
      PROVE  link'[s].from = pred'[s]
  BY <1>8, <1>a
  DEF HandoffTimeout, handVars, ptyVars, FromPredecessor, Settling, TypeOK
<1>9. CASE \E d \in Daemon :
              Waited(d) \/ BindCheck(d) \/ BindUnlink(d) \/ Bind(d) \/
                HandlerInstalled(d)
  BY <1>9, <1>a
  DEF Waited, BindCheck, BindUnlink, Bind, HandlerInstalled, socketVars,
      handVars, ptyVars, FromPredecessor, Settling, TypeOK
<1>10. ASSUME NEW d \in Daemon, BindRefused(d)
       PROVE  link'[s].from = pred'[s]
  BY <1>10, <1>a, Burials
  DEF Buried, BindRefused, Dies, socketVars, FromPredecessor, Settling, TypeOK
<1>11. ASSUME NEW d \in Daemon, BindInUse(d)
       PROVE  link'[s].from = pred'[s]
  BY <1>11, <1>a, Burials
  DEF Buried, BindInUse, Dies, socketVars, FromPredecessor, Settling, TypeOK
<1>12. ASSUME NEW d \in Daemon, Crash(d)
       PROVE  link'[s].from = pred'[s]
  BY <1>12, <1>a, Burials
  DEF Buried, Crash, Dies, socketVars, FromPredecessor, Settling, TypeOK
<1>13. CASE \/ \E d \in Daemon : Collect(d) \/ SendFails(d)
            \/ \E d \in Daemon, p \in Pty :
                  Open(d, p) \/ Close(d, p) \/ Reopen(d, p) \/ Read(d, p)
            \/ UNCHANGED vars
  BY <1>13, <1>a
  DEF Collect, SendFails, Open, Close, Reopen, Read, socketVars, handVars,
      ptyVars, vars, FromPredecessor, Settling, TypeOK
<1>14. ASSUME NEW d \in Daemon, Send(d)
       PROVE  link'[s].from = pred'[s]
  <2>1. mig \in Daemon
    BY <1>14 DEF Send, TypeOK
  <2>2. CASE s = mig /\ link[s] = None
    <3>1. link'[s] = Payload(d)
      BY <1>14, <2>1, <2>2 DEF Send, TypeOK
    <3>2. d = pred[s]
      BY <1>14, <1>a
      DEF Send, socketVars, Handing, Orderly, MeetsPredecessor, Server
    <3> QED BY <1>14, <3>1, <3>2, Sending DEF Send
  <2>3. CASE ~(s = mig /\ link[s] = None)
    <3>1. link'[s] = link[s]
      BY <1>14, <2>1, <2>3 DEF Send, TypeOK
    <3> QED BY <1>14, <1>a, <3>1 DEF Send, FromPredecessor
  <2> QED BY <2>2, <2>3
<1>15. ASSUME NEW d \in Daemon, GiveUp(d)
       PROVE  link'[s].from = pred'[s]
  <2>1. CASE LinkOf(d, to[d])
    <3>1. Moved(to[d], IF link[to[d]].state = "sent" THEN "late" ELSE "void")
      BY <1>15, <2>1, Moves
    <3> QED BY <1>15, <1>a, <3>1 DEF GiveUp, Moved, FromPredecessor, Standing
  <2>2. CASE ~LinkOf(d, to[d])
    BY <1>15, <1>a, <2>2 DEF GiveUp, FromPredecessor
  <2> QED BY <2>1, <2>2
<1>16. ASSUME NEW d \in Daemon, Exit(d)
       PROVE  link'[s].from = pred'[s]
  BY <1>16, <1>a, Burials
  DEF Buried, Exit, Dies, socketVars, FromPredecessor, Settling, TypeOK
<1> QED
  BY <1>1, <1>2, <1>3, <1>4, <1>5, <1>6, <1>7, <1>8, <1>9, <1>10, <1>11,
     <1>12, <1>13, <1>14, <1>15, <1>16
  DEF Next, Startup, HandOff, Requests

\* ... and one that has acked goes on waiting for it.
LEMMA AwaitedStep == IndInv /\ [Next]_vars => (Quiet => Awaited)'
<1> SUFFICES ASSUME IndInv, [Next]_vars PROVE (Quiet => Awaited)'
  OBVIOUS
<1> USE HandoffAssumption DEF IndInv
<1> SUFFICES ASSUME Quiet, NEW s \in Daemon, link'[s] # None,
                    link'[s].state = "acked", mode'[s] # "waiting"
             PROVE  mode'[link'[s].from] = "dead"
  BY SameWeather DEF Quiet, Awaited
<1>a. Orderly /\ FromPredecessor /\ Awaited
  BY DEF Calm
<1>b. link[s] # None => Message(s) /\ link[s].from \in Daemon
  BY DEF Messages, TypeOK, Link
<1>1. ASSUME NEW d \in Daemon,
             \/ StartFresh(d) \/ StartUpgrade(d) \/ Rendezvous(d)
             \/ AskPredecessor(d)
      PROVE  mode'[link'[s].from] = "dead"
  <2>1. link' = link /\ \A e \in Daemon \ {d} : mode'[e] = mode[e]
    BY <1>1
    DEF StartFresh, StartUpgrade, Rendezvous, AskPredecessor, TypeOK
  <2>2. mode[d] \in {"off", "rendezvous", "asking"}
    BY <1>1 DEF StartFresh, StartUpgrade, Rendezvous, AskPredecessor
  <2>3. mode[s] # "waiting"
    BY <2>1, <2>2
  <2> QED BY <1>a, <1>b, <2>1, <2>2, <2>3 DEF Awaited
<1>2. ASSUME NEW d \in Daemon,
             \/ BindCheck(d) \/ BindUnlink(d) \/ Bind(d)
             \/ HandlerInstalled(d)
      PROVE  mode'[link'[s].from] = "dead"
  <2>1. link' = link /\ \A e \in Daemon \ {d} : mode'[e] = mode[e]
    BY <1>2 DEF BindCheck, BindUnlink, Bind, HandlerInstalled, TypeOK
  <2>2. mode[d] \in {"checking", "binding", "unlinked", "bound"}
    BY <1>2 DEF BindCheck, BindUnlink, Bind, HandlerInstalled
  <2> QED BY <1>a, <1>b, <2>1, <2>2 DEF Awaited
<1>3. ASSUME NEW d \in Daemon, NoPredecessor(d) \/ HandoffTimeout(d)
      PROVE  mode'[link'[s].from] = "dead"
  <2>1. /\ s # d /\ link'[s] = link[s]
        /\ \A e \in Daemon \ {d} : mode'[e] = mode[e]
    BY <1>3 DEF NoPredecessor, HandoffTimeout, TypeOK
  <2>2. mode[d] \in Adopting
    BY <1>3 DEF NoPredecessor, HandoffTimeout, Adopting
  <2> QED BY <1>a, <1>b, <2>1, <2>2 DEF Awaited, Adopting
<1>4. ASSUME NEW d \in Daemon, SignalKills(d)
      PROVE  mode'[link'[s].from] = "dead"
  <2>1. ctl \in Daemon
    BY <1>4 DEF SignalKills, Answers, TypeOK
  <2> QED BY <1>4, <1>a, <2>1 DEF SignalKills, Orderly, OneStarting, Starting
<1>5. ASSUME NEW d \in Daemon, Accept(d) \/ Ack(d) \/ AcceptFails(d)
      PROVE  mode'[link'[s].from] = "dead"
  <2>1. /\ s # d /\ link'[s] = link[s]
        /\ \A e \in Daemon \ {d} : mode'[e] = mode[e]
    <3>1. CASE Accept(d)
      BY <3>1, Moves DEF Moved, Accept, Taken, TypeOK
    <3>2. CASE Ack(d)
      BY <3>2, Moves DEF Moved, Ack, TypeOK
    <3>3. CASE AcceptFails(d)
      BY <3>3, Moves DEF Moved, AcceptFails, TypeOK
    <3> QED BY <1>5, <3>1, <3>2, <3>3
  <2>2. mode[d] \in {"accepting", "adopted"}
    BY <1>5 DEF Accept, Ack, AcceptFails
  <2> QED BY <1>a, <1>b, <2>1, <2>2 DEF Awaited
<1>6. ASSUME NEW d \in Daemon, Waited(d)
      PROVE  mode'[link'[s].from] = "dead"
  <2>1. link' = link /\ \A e \in Daemon \ {d} : mode'[e] = mode[e]
    BY <1>6 DEF Waited, TypeOK
  <2>2. mode[d] = "waiting"
    BY <1>6 DEF Waited
  <2>3. CASE s = d
    <3>1. link[s].from = pred[s] /\ link[s].from # s
      BY <1>a, <1>b, <2>1, <2>2, <2>3
      DEF FromPredecessor, Settling, Standing, Message
    <3>2. ASSUME hand[pred[s]] = "sent", to[pred[s]] = s
          PROVE  mode[pred[s]] = "dead"
      BY <1>6, <2>1, <2>3, <3>1, <3>2 DEF Waited, Acked, LinkOf, Quiet
    <3>3. mode[pred[s]] = "dead"
      BY <1>b, <2>1, <3>1, <3>2 DEF Message, Standing
    <3> QED BY <1>b, <2>1, <2>3, <3>1, <3>3
  <2>4. CASE s # d
    BY <1>a, <1>b, <2>1, <2>2, <2>4 DEF Awaited
  <2> QED BY <2>3, <2>4
<1>7. ASSUME NEW d \in Daemon,
             BindRefused(d) \/ BindInUse(d) \/ Crash(d) \/ Exit(d)
      PROVE  mode'[link'[s].from] = "dead"
  <2>1. /\ link'[s] = link[s]
        /\ mode'[d] = "dead"
        /\ \A e \in Daemon \ {d} : mode'[e] = mode[e]
    BY <1>7, Burials
    DEF Buried, BindRefused, BindInUse, Crash, Exit, Dies, TypeOK
  <2>2. s = d => mode[s] # "waiting"
    <3>1. CASE BindRefused(d) \/ BindInUse(d)
      BY <3>1 DEF BindRefused, BindInUse
    <3>2. CASE Crash(d)
      BY <3>2, Burials DEF Buried, Crash, Dispensable, Quiet
    <3>3. CASE Exit(d)
      BY <3>3 DEF Exit, Handing
    <3> QED BY <1>7, <3>1, <3>2, <3>3
  <2> QED BY <1>a, <1>b, <2>1, <2>2 DEF Awaited
<1>8. ASSUME NEW d \in Daemon, Send(d)
      PROVE  mode'[link'[s].from] = "dead"
  <2>1. link'[s] = link[s] /\ mode' = mode
    BY <1>8, Sending DEF Send, TypeOK
  <2> QED BY <1>a, <2>1 DEF Awaited
<1>9. ASSUME NEW d \in Daemon, GiveUp(d)
      PROVE  mode'[link'[s].from] = "dead"
  <2>1. link'[s] = link[s] /\ mode' = mode
    BY <1>9, Moves DEF Moved, GiveUp
  <2> QED BY <1>a, <2>1 DEF Awaited
<1>10. CASE \/ \E d \in Daemon : Collect(d) \/ SendFails(d)
            \/ \E d \in Daemon, p \in Pty :
                  Open(d, p) \/ Close(d, p) \/ Reopen(d, p) \/ Read(d, p)
            \/ UNCHANGED vars
  BY <1>10, <1>a
  DEF Collect, SendFails, Open, Close, Reopen, Read, vars, Awaited
<1> QED
  BY <1>1, <1>2, <1>3, <1>4, <1>5, <1>6, <1>7, <1>8, <1>9, <1>10
  DEF Next, Startup, HandOff, Requests

-----------------------------------------------------------------------------
(* Shells, output and leases *)

\* Where nobody stalls and no rival starts, nobody gives up on anybody.
LEMMA LateStep == IndInv /\ [Next]_vars => NobodyLate'
<1> SUFFICES ASSUME IndInv, [Next]_vars PROVE NobodyLate'
  OBVIOUS
<1> USE HandoffAssumption DEF IndInv
<1> SUFFICES ASSUME weather \subseteq {"busy"}, NEW s \in Daemon
             PROVE  OnTime(s)'
  BY SameWeather DEF NobodyLate
<1>a. Orderly /\ FromPredecessor /\ OnTime(s)
  BY DEF Calm, Quiet, NobodyLate
<1>b. link[s] # None => Message(s) /\ link[s].from \in Daemon
  BY DEF Messages, TypeOK, Link
<1>1. ASSUME NEW d \in Daemon, StartFresh(d)
      PROVE  OnTime(s)'
  BY <1>1, <1>a
  DEF StartFresh, socketVars, handVars, ptyVars, OnTime, Server, TypeOK,
      Holders, Holding
<1>2. ASSUME NEW d \in Daemon, StartUpgrade(d)
      PROVE  OnTime(s)'
  BY <1>2, <1>a
  DEF StartUpgrade, socketVars, handVars, ptyVars, OnTime, Server, TypeOK,
      Holders, Holding
<1>3. CASE \E d \in Daemon :
              Rendezvous(d) \/ AskPredecessor(d) \/ BindCheck(d) \/
                BindUnlink(d)
  BY <1>3, <1>a
  DEF Rendezvous, AskPredecessor, BindCheck, BindUnlink, socketVars,
      handVars, ptyVars, OnTime, Server, TypeOK
<1>4. ASSUME NEW d \in Daemon, NoPredecessor(d)
      PROVE  OnTime(s)'
  BY <1>4, <1>a
  DEF NoPredecessor, handVars, ptyVars, OnTime, Server, TypeOK, Holders,
      Holding
<1>5. ASSUME NEW d \in Daemon, SignalKills(d)
      PROVE  OnTime(s)'
  <2>1. ctl \in Daemon
    BY <1>5 DEF SignalKills, Answers, TypeOK
  <2> QED BY <1>5, <1>a, <2>1 DEF SignalKills, Orderly, OneStarting, Starting
<1>6. ASSUME NEW d \in Daemon, Accept(d)
      PROVE  OnTime(s)'
  <2>1. Moved(d, Taken(link[d]))
    BY <1>6, Moves
  <2> QED
    BY <1>6, <1>a, <2>1
    DEF Moved, Accept, Taken, Pending, OnTime, Server, TypeOK
<1>7. ASSUME NEW d \in Daemon, Ack(d)
      PROVE  OnTime(s)'
  <2>1. Moved(d, AckOf(link[d]))
    BY <1>7, Moves
  <2> QED
    BY <1>7, <1>a, <2>1
    DEF Moved, Ack, AckOf, ptyVars, OnTime, Server, TypeOK
<1>8. ASSUME NEW d \in Daemon, AcceptFails(d)
      PROVE  OnTime(s)'
  <2>1. Moved(d, "void")
    BY <1>8, Moves
  <2> QED
    BY <1>8, <1>a, <2>1, ZenonT(60)
    DEF Moved, AcceptFails, ptyVars, OnTime, Holders, Holding, Server,
        TypeOK
<1>9. ASSUME NEW d \in Daemon, HandoffTimeout(d)
      PROVE  OnTime(s)'
  BY <1>9, <1>a
  DEF HandoffTimeout, handVars, ptyVars, OnTime, Server, TypeOK, Holders,
      Holding
<1>10. ASSUME NEW d \in Daemon, Waited(d)
       PROVE  OnTime(s)'
  <2>1. CASE s = d /\ table[s] # {}
    <3>1. link[s] # None /\ link[s].state = "acked" /\ link[s].from = pred[s]
      BY <1>10, <1>a, <2>1
      DEF Waited, OnTime, FromPredecessor, Settling, Standing
    <3>2. mode[pred[s]] = "dead"
      <4>1. CASE hand[pred[s]] = "sent" /\ to[pred[s]] = s
        BY <1>10, <2>1, <3>1, <4>1, HandoffAssumption
        DEF Waited, Acked, LinkOf
      <4> QED BY <1>b, <3>1, <4>1 DEF Message, Standing
    <3>3. \A e \in Daemon : mode[e] \notin Server
      BY <1>10, <1>a, <2>1, <3>2
      DEF Waited, Orderly, MeetsPredecessor, Settling, Server
    <3> QED
      BY <1>10, <1>a, <2>1, <3>1, <3>3
      DEF Waited, ptyVars, OnTime, Server, TypeOK
  <2>2. CASE ~(s = d /\ table[s] # {})
    BY <1>10, <1>a, <2>2 DEF Waited, ptyVars, OnTime, Server, TypeOK
  <2> QED BY <2>1, <2>2
<1>11. ASSUME NEW d \in Daemon, BindRefused(d)
       PROVE  OnTime(s)'
  BY <1>11, <1>a, Burials
  DEF Buried, BindRefused, Dies, socketVars, OnTime, Server, TypeOK
<1>12. ASSUME NEW d \in Daemon, Bind(d)
       PROVE  OnTime(s)'
  BY <1>12, <1>a
  DEF Bind, handVars, ptyVars, OnTime, Server, TypeOK, Orderly, OneStarting,
      Starting
<1>13. ASSUME NEW d \in Daemon, BindInUse(d)
       PROVE  OnTime(s)'
  BY <1>13, <1>a, Burials
  DEF Buried, BindInUse, Dies, socketVars, OnTime, Server, TypeOK
<1>14. ASSUME NEW d \in Daemon, HandlerInstalled(d)
       PROVE  OnTime(s)'
  BY <1>14, <1>a
  DEF HandlerInstalled, socketVars, handVars, ptyVars, OnTime, Server,
      TypeOK, Orderly, OneStarting, Starting
<1>15. ASSUME NEW d \in Daemon, Crash(d)
       PROVE  OnTime(s)'
  BY <1>15, <1>a, Burials
  DEF Buried, Crash, Dies, socketVars, OnTime, Server, TypeOK
<1>16. CASE \/ \E d \in Daemon : Collect(d) \/ SendFails(d)
            \/ \E d \in Daemon, p \in Pty :
                  Close(d, p) \/ Reopen(d, p) \/ Read(d, p)
            \/ UNCHANGED vars
  BY <1>16, <1>a
  DEF Collect, SendFails, Close, Reopen, Read, socketVars, handVars,
      ptyVars, vars, OnTime, Server, TypeOK
<1>17. ASSUME NEW d \in Daemon, Send(d)
       PROVE  OnTime(s)'
  <2>1. mig \in Daemon
    BY <1>17 DEF Send, TypeOK
  <2>2. CASE s = mig /\ link[s] = None
    <3>1. link'[s] = Payload(d)
      BY <1>17, <2>1, <2>2 DEF Send, TypeOK
    <3> QED BY <1>17, <2>2, <3>1, Sending DEF Send, socketVars, OnTime
  <2>3. CASE ~(s = mig /\ link[s] = None)
    <3>1. link'[s] = link[s]
      BY <1>17, <2>1, <2>3 DEF Send, TypeOK
    <3> QED BY <1>17, <1>a, <3>1 DEF Send, ptyVars, OnTime
  <2> QED BY <2>2, <2>3
<1>18. ASSUME NEW d \in Daemon, GiveUp(d)
       PROVE  OnTime(s)'
  <2>1. link' = link
    <3>1. CASE LinkOf(d, to[d])
      <4>1. to[d] \in Daemon /\ Message(to[d])
        BY <3>1 DEF LinkOf, Messages, TypeOK
      <4> QED
        BY <1>18, <3>1, <4>1
        DEF GiveUp, Acked, Answerable, LinkOf, Message, Pending, Adopting
    <3>2. CASE ~LinkOf(d, to[d])
      BY <1>18, <3>2 DEF GiveUp
    <3> QED BY <3>1, <3>2
  <2> QED BY <1>18, <1>a, <2>1 DEF GiveUp, ptyVars, OnTime
<1>19. ASSUME NEW d \in Daemon, Exit(d)
       PROVE  OnTime(s)'
  BY <1>19, <1>a, Burials
  DEF Buried, Exit, Dies, socketVars, OnTime, Server, TypeOK
<1>20. ASSUME NEW d \in Daemon, NEW p \in Pty, Open(d, p)
       PROVE  OnTime(s)'
  BY <1>20, <1>a
  DEF Open, socketVars, handVars, OnTime, Server, TypeOK, Admits, Serves
<1> QED
  BY <1>1, <1>2, <1>3, <1>4, <1>5, <1>6, <1>7, <1>8, <1>9, <1>10, <1>11,
     <1>12, <1>13, <1>14, <1>15, <1>16, <1>17, <1>18, <1>19, <1>20
  DEF Next, Startup, HandOff, Requests

\* Where nobody stalls, a predecessor gives up only on a connection that is
\* gone.
LEMMA GivesUpOnNobody ==
  ASSUME IndInv, weather \subseteq {"busy"}, NEW d \in Daemon, GiveUp(d)
  PROVE  ~LinkOf(d, to[d]) /\ link' = link
<1> SUFFICES ASSUME LinkOf(d, to[d]) PROVE FALSE
  BY DEF GiveUp
<1>1. to[d] \in Daemon /\ Message(to[d])
  BY DEF IndInv, LinkOf, Messages, TypeOK
<1> QED
  BY <1>1 DEF GiveUp, Acked, Answerable, LinkOf, Message, Pending, Adopting

\* Where nobody stalls, a successor that holds ptys while somebody serves has
\* them from the server, which waits for it.
LEMMA AdoptedFromServer ==
  ASSUME IndInv, weather \subseteq {"busy"}, NEW x \in Daemon, NEW y \in Daemon,
         mode[x] \in Server, mode[y] \notin Server, table[y] # {}
  PROVE  /\ hand[x] = "sent"
         /\ to[x] = y
         /\ batch[x] = table[y]
         /\ link[y] # None
         /\ link[y].state \in {"taken", "acked"}
         /\ link[y].from = x
         /\ link[y].ptys = table[y]
<1> USE DEF IndInv
<1>1. Orderly /\ FromPredecessor /\ OnTime(y)
  BY DEF Calm, Quiet, NobodyLate
<1>2. mode[y] \in {"adopted", "waiting"}
  BY <1>1 DEF Holders, Orderly, PathFree, OnTime, Holding, Server
<1>3. link[y] # None /\ link[y].state \in {"taken", "acked"}
  BY <1>1, <1>2 DEF OnTime, Holders
<1>4. link[y].from = x
  BY <1>1, <1>2, <1>3
  DEF Orderly, MeetsPredecessor, FromPredecessor, Settling, Standing
<1>5. Message(y)
  BY <1>3 DEF Messages
<1> QED BY <1>2, <1>3, <1>4, <1>5 DEF Message, Server, Standing

\* Where nobody stalls, two daemons hold a pty only between the moment the
\* successor adopts it and the exit of the predecessor.
LEMMA TwoHolders ==
  ASSUME IndInv, weather \subseteq {"busy"}, NEW d \in Daemon, NEW e \in Daemon,
         d # e, NEW p \in table[d] \cap table[e]
  PROVE  Handed(d, p) \/ Handed(e, p)
<1>1. ASSUME NEW x \in Daemon, NEW y \in Daemon, p \in table[y],
             mode[x] \in Server, mode[y] \notin Server
      PROVE  Handed(x, p)
  BY <1>1, AdoptedFromServer, HandoffAssumption DEF Handed, LinkOf
<1>2. mode[d] \in Holding /\ mode[e] \in Holding
  BY DEF IndInv, Holders
<1>3. mode[d] \in Server <=> mode[e] \notin Server
  BY <1>2
  DEF IndInv, Calm, Quiet, Orderly, OneStarting, ServerOwns, Holding, Server,
      Starting
<1> QED BY <1>1, <1>3

\* Where nobody stalls and no rival starts, output stays complete.
LEMMA OutputStep == IndInv /\ [Next]_vars => OutputKept'
<1> SUFFICES ASSUME IndInv, [Next]_vars PROVE OutputKept'
  OBVIOUS
<1> USE HandoffAssumption DEF IndInv
<1> SUFFICES ASSUME weather \subseteq {"busy"}, NEW e \in Daemon,
                    NEW p \in table'[e], ~Handed(e, p)'
             PROVE  vt'[e][p] = 1..read'[p]
  BY SameWeather DEF OutputKept
<1>a. p \in table[e] /\ ~Handed(e, p) => vt[e][p] = 1..read[p]
  BY DEF OutputKept
<1>b. Orderly /\ \A s \in Daemon : OnTime(s)
  BY DEF Calm, Quiet, NobodyLate
<1>c. /\ to[e] \in Daemon \cup {None}
      /\ hand[e] # "idle" => mode[e] = "serving"
      /\ LinkOf(e, to[e]) => Message(to[e])
  BY DEF TypeOK, Handing, LinkOf, Messages
<1> HIDE DEF IndInv
<1>d. IndInv
  OBVIOUS
<1>1. CASE \/ \E d \in Daemon :
                 StartFresh(d) \/ StartUpgrade(d) \/ Rendezvous(d) \/
                AskPredecessor(d) \/ Waited(d) \/ BindCheck(d) \/
                BindUnlink(d) \/ Bind(d) \/ HandlerInstalled(d)
           \/ \E d \in Daemon, q \in Pty : Close(d, q) \/ Reopen(d, q)
           \/ UNCHANGED vars
  BY <1>1, <1>a
  DEF StartFresh, StartUpgrade, Rendezvous, AskPredecessor, Waited,
      BindCheck, BindUnlink, Bind, HandlerInstalled, Close, Reopen,
      socketVars, handVars, ptyVars, vars, Handed, LinkOf
<1>2. ASSUME NEW d \in Daemon, NoPredecessor(d)
      PROVE  vt'[e][p] = 1..read'[p]
  <2>1. Handed(e, p) => Handed(e, p)'
    BY <1>2, <1>c, <1>d
    DEF NoPredecessor, handVars, Handed, LinkOf, Message, Outlasting,
        Holding, IndInv, TypeOK
  <2> QED BY <1>2, <1>a, <2>1 DEF NoPredecessor, ptyVars
<1>3. ASSUME NEW d \in Daemon, SignalKills(d)
      PROVE  vt'[e][p] = 1..read'[p]
  <2>1. ctl \in Daemon
    BY <1>3, <1>d DEF SignalKills, Answers, IndInv, TypeOK
  <2> QED BY <1>3, <1>b, <2>1 DEF SignalKills, Orderly, OneStarting, Starting
<1>4. ASSUME NEW d \in Daemon, Accept(d)
      PROVE  vt'[e][p] = 1..read'[p]
  <2> DEFINE f == link[d].from
  <2>1. Moved(d, "taken") /\ link[d].state = "sent" /\ link[d] # None
    BY <1>4, <1>b, <1>d, Moves DEF IndInv, Accept, Pending, Taken, OnTime
  <2>2. CASE e = d
    <3>1. f \in Daemon /\ Message(d)
      BY <1>d, <2>1 DEF IndInv, Messages, TypeOK, Link
    <3>2. /\ hand[f] = "sent" /\ to[f] = d
          /\ link[d].ptys = batch[f] /\ batch[f] \subseteq table[f]
      BY <1>d, <2>1, <3>1 DEF Message, Standing, IndInv, Handing
    <3>3. p \in link[d].ptys /\ vt'[e] = link[d].vt /\ read' = read
      BY <1>4, <1>d, <2>2 DEF Accept, IndInv, TypeOK
    <3>4. link[d].vt[p] = vt[f][p]
      BY <1>d, <2>1, <3>1, <3>2, <3>3, HandoffAssumption
      DEF IndInv, SnapshotIsCurrent, LinkOf
    <3>5. vt[f][p] = 1..read[p]
      BY <1>d, <2>1, <3>1, <3>2, <3>3 DEF IndInv, OutputKept, Handed
    <3> QED BY <3>3, <3>4, <3>5
  <2>3. CASE e # d
    <3>1. Handed(e, p) => Handed(e, p)'
      BY <1>4, <1>c, <2>1, <2>3 DEF Moved, Accept, handVars, Handed, LinkOf
    <3> QED BY <1>4, <1>a, <1>d, <2>3, <3>1 DEF Accept, IndInv, TypeOK
  <2> QED BY <2>2, <2>3
<1>5. ASSUME NEW d \in Daemon, Ack(d)
      PROVE  vt'[e][p] = 1..read'[p]
  <2>1. Moved(d, AckOf(link[d]))
    BY <1>5, <1>d, Moves DEF IndInv
  <2>2. Handed(e, p) => Handed(e, p)'
    BY <1>5, <1>b, <1>c, <2>1
    DEF Moved, Ack, AckOf, handVars, Handed, LinkOf, OnTime
  <2> QED BY <1>5, <1>a, <2>2 DEF Ack, ptyVars
<1>6. ASSUME NEW d \in Daemon, AcceptFails(d)
      PROVE  vt'[e][p] = 1..read'[p]
  <2>1. Moved(d, "void")
    BY <1>6, <1>d, Moves DEF IndInv
  <2>2. Handed(e, p) => Handed(e, p)'
    BY <1>6, <1>b, <1>c, <2>1
    DEF Moved, AcceptFails, handVars, Handed, LinkOf, OnTime, Pending
  <2> QED BY <1>6, <1>a, <2>2 DEF AcceptFails, ptyVars
<1>7. ASSUME NEW d \in Daemon, HandoffTimeout(d)
      PROVE  vt'[e][p] = 1..read'[p]
  <2>1. Handed(e, p) => Handed(e, p)'
    BY <1>7, <1>c, <1>d
    DEF HandoffTimeout, handVars, Handed, LinkOf, Message, Outlasting,
        Holding, IndInv, TypeOK
  <2> QED BY <1>7, <1>a, <2>1 DEF HandoffTimeout, ptyVars
<1>8. ASSUME NEW d \in Daemon, BindRefused(d)
      PROVE  vt'[e][p] = 1..read'[p]
  <2>1. e # d /\ p \in table[e] /\ UNCHANGED <<vt, read>>
    BY <1>8, <1>d DEF BindRefused, Dies, IndInv, TypeOK
  <2>2. to[e] # d => (Handed(e, p) => Handed(e, p)')
    BY <1>8, <1>c, <1>d, <2>1, Burials
    DEF Buried, BindRefused, Dies, Handed, LinkOf, IndInv, TypeOK
  <2>3. CASE to[e] = d /\ Handed(e, p)
    <3>1. link[d].state \in {"taken", "acked"} /\ p \in table[d]
      BY <1>8, <1>c, <1>d, <2>3
      DEF BindRefused, Handed, LinkOf, Message, Standing, Server, IndInv,
          Handing
    <3> QED
      BY <1>8, <1>b, <1>d, <3>1
      DEF BindRefused, Answers, OnTime, Server, IndInv, TypeOK
  <2> QED BY <1>a, <2>1, <2>2, <2>3
<1>9. ASSUME NEW d \in Daemon, BindInUse(d)
      PROVE  vt'[e][p] = 1..read'[p]
  <2>1. e # d /\ p \in table[e] /\ UNCHANGED <<vt, read>>
    BY <1>9, <1>d DEF BindInUse, Dies, IndInv, TypeOK
  <2>2. to[e] # d => (Handed(e, p) => Handed(e, p)')
    BY <1>9, <1>c, <1>d, <2>1, Burials
    DEF Buried, BindInUse, Dies, Handed, LinkOf, IndInv, TypeOK
  <2>3. CASE to[e] = d /\ Handed(e, p)
    BY <1>9, <1>b, <1>c, <2>3 DEF BindInUse, Handed, Orderly, PathFree, Server
  <2> QED BY <1>a, <2>1, <2>2, <2>3
<1>10. ASSUME NEW d \in Daemon, Crash(d)
       PROVE  vt'[e][p] = 1..read'[p]
  <2>1. e # d /\ p \in table[e] /\ UNCHANGED <<vt, read>>
    BY <1>10, <1>d DEF Crash, Dies, IndInv, TypeOK
  <2>2. to[e] # d => (Handed(e, p) => Handed(e, p)')
    BY <1>10, <1>c, <1>d, <2>1, Burials
    DEF Buried, Crash, Dies, Handed, LinkOf, IndInv, TypeOK
  <2>3. CASE to[e] = d /\ Handed(e, p)
    <3>1. link[d].state = "taken" /\ p \in table[d] /\ mode[e] = "serving"
      BY <1>10, <1>c, <1>d, <2>3
      DEF Crash, Dispensable, Starting, Handed, LinkOf, Message, Standing,
          IndInv, Handing
    <3>2. hand[d] = "idle" /\ mode[d] = "adopted"
      BY <1>10, <1>c, <1>d, <2>3, <3>1
      DEF Crash, Handed, LinkOf, Message, Starting, IndInv, Handing
    <3>3. vt[d][p] = 1..read[p]
      BY <1>10, <1>d, <3>1, <3>2 DEF IndInv, OutputKept, Handed
    <3>4. PICK x \in Daemon \ {d} :
             p \in table[x] /\ vt[d][p] \subseteq vt[x][p]
      BY <1>10, <3>1 DEF Crash, Dispensable
    <3>5. x = e
      <4>1. Handed(x, p)
        BY <1>d, <3>1, <3>2, <3>4, TwoHolders DEF Handed
      <4>2. mode[x] = "serving"
        BY <1>d, <4>1 DEF Handed, IndInv, Handing
      <4> QED BY <1>b, <3>1, <4>2 DEF Orderly, ServerOwns, Server
    <3>6. vt[e][p] \subseteq 1..read[p]
      BY <1>d, <2>1 DEF IndInv, NothingInvented, TypeOK
    <3> QED BY <2>1, <3>3, <3>4, <3>5, <3>6
  <2> QED BY <1>a, <2>1, <2>2, <2>3
<1>11. ASSUME NEW d \in Daemon, Collect(d)
       PROVE  vt'[e][p] = 1..read'[p]
  BY <1>11, <1>a, <1>d
  DEF Collect, socketVars, ptyVars, Handed, LinkOf, IndInv, TypeOK
<1>12. ASSUME NEW d \in Daemon, SendFails(d)
       PROVE  vt'[e][p] = 1..read'[p]
  BY <1>12, <1>a, <1>d
  DEF SendFails, socketVars, ptyVars, Handed, LinkOf, IndInv, TypeOK
<1>13. ASSUME NEW d \in Daemon, Send(d)
       PROVE  vt'[e][p] = 1..read'[p]
  <2>1. mig \in Daemon
    BY <1>13, <1>d DEF Send, IndInv, TypeOK
  <2>2. Handed(e, p) => Handed(e, p)'
    BY <1>13, <1>c, <1>d, <2>1 DEF Send, Handed, LinkOf, IndInv, TypeOK
  <2> QED BY <1>13, <1>a, <2>2 DEF Send, ptyVars
<1>14. ASSUME NEW d \in Daemon, GiveUp(d)
       PROVE  vt'[e][p] = 1..read'[p]
  <2>1. ~LinkOf(d, to[d]) /\ link' = link
    BY <1>14, <1>d, GivesUpOnNobody
  <2>2. Handed(e, p) => Handed(e, p)'
    BY <1>14, <1>d, <2>1 DEF GiveUp, Handed, LinkOf, IndInv, TypeOK
  <2> QED BY <1>14, <1>a, <2>2 DEF GiveUp, ptyVars
<1>15. ASSUME NEW d \in Daemon, Exit(d)
       PROVE  vt'[e][p] = 1..read'[p]
  <2>1. e # d /\ p \in table[e] /\ UNCHANGED <<vt, read>>
    BY <1>15, <1>d DEF Exit, Dies, IndInv, TypeOK
  <2>2. to[e] # d => (Handed(e, p) => Handed(e, p)')
    BY <1>15, <1>c, <1>d, <2>1, Burials
    DEF Buried, Exit, Dies, Handed, LinkOf, IndInv, TypeOK
  <2>3. CASE to[e] = d /\ Handed(e, p)
    BY <1>15, <1>b, <1>c, <1>d, <2>1, <2>3
    DEF Exit, Handed, Orderly, ServerOwns, Server, IndInv, Handing
  <2> QED BY <1>a, <2>1, <2>2, <2>3
<1>16. ASSUME NEW d \in Daemon, NEW q \in Pty, Open(d, q)
       PROVE  vt'[e][p] = 1..read'[p]
  <2>1. Handed(e, p) => Handed(e, p)'
    BY <1>16 DEF Open, handVars, Handed, LinkOf
  <2>2. CASE p \in table[e]
    BY <1>16, <1>a, <2>1, <2>2 DEF Open
  <2>3. CASE p \notin table[e]
    <3>1. p \in Pty /\ p \notin born
      BY <1>16, <1>d, <2>3 DEF Open, IndInv, TypeOK
    <3>2. read[p] = 0 /\ vt[e][p] \subseteq 1..read[p]
      BY <1>d, <3>1 DEF IndInv, NothingInvented
    <3> QED BY <1>16, <3>2 DEF Open
  <2> QED BY <2>2, <2>3
<1>17. ASSUME NEW d \in Daemon, NEW q \in Pty, Read(d, q)
       PROVE  vt'[e][p] = 1..read'[p]
  <2>1. Handed(e, p) => Handed(e, p)'
    BY <1>17 DEF Read, handVars, Handed, LinkOf
  <2>2. p \in table[e] /\ p \in Pty /\ table' = table
    BY <1>17, <1>d DEF Read, IndInv, TypeOK
  <2>3. vt[e][p] = 1..read[p]
    BY <1>a, <2>1, <2>2
  <2>4. CASE q # p
    BY <1>17, <1>d, <2>2, <2>3, <2>4 DEF Read, IndInv, TypeOK
  <2>5. CASE q = p
    <3>1. ~Handed(d, q)
      BY <1>17 DEF Read, Frozen, Handed
    <3>2. d = e
      BY <1>17, <1>d, <2>1, <2>2, <2>5, <3>1, TwoHolders DEF Read
    <3>3. vt'[e][p] = 1..read[p] \cup {read[p] + 1} /\ read'[p] = read[p] + 1
      BY <1>17, <1>d, <2>2, <2>3, <2>5, <3>2 DEF Read, IndInv, TypeOK
    <3>4. read[p] \in Nat
      BY <1>d, <2>2, HandoffAssumption DEF IndInv, TypeOK
    <3> QED BY <3>3, <3>4
  <2> QED BY <2>4, <2>5
<1> QED
  BY <1>1, <1>2, <1>3, <1>4, <1>5, <1>6, <1>7, <1>8, <1>9, <1>10, <1>11,
     <1>12, <1>13, <1>14, <1>15, <1>16, <1>17
  DEF Next, Startup, HandOff, Requests

\* A daemon that crashes while it starts, as long as no rival does, is the only
\* one that starts, and leaves no pty behind unless there is a server.
LEMMA CrashesAlone ==
  ASSUME IndInv, Quiet, NEW d \in Daemon, Crash(d)
  PROVE  /\ \A e \in Daemon : mode[e] \in Starting => e = d
         /\ table[d] # {} => \E e \in Daemon \ {d} : mode[e] \in Server
         /\ mode[d] \in Server => table[d] = {}
<1> USE DEF IndInv
<1>1. \A e \in Daemon : mode[e] \in Starting => e = d
  BY DEF Crash, Calm, Quiet, Orderly, OneStarting
<1>2. \A e \in Daemon \ {d} : table[e] # {} => mode[e] \in Server
  BY <1>1 DEF Holders, Holding, Starting, Server
<1>3. table[d] # {} => \E e \in Daemon \ {d} : mode[e] \in Server
  BY <1>2 DEF Crash, Dispensable, Quiet
<1>4. mode[d] \in Server => table[d] = {}
  BY <1>3 DEF Calm, Quiet, Orderly, ServerOwns
<1> QED BY <1>1, <1>3, <1>4

\* Without rivals and requests during a handoff, no shell is lost.
LEMMA ShellsStep == IndInv /\ [Next]_vars => ShellsKept'
<1> SUFFICES ASSUME IndInv, [Next]_vars PROVE ShellsKept'
  OBVIOUS
<1> USE HandoffAssumption DEF IndInv
<1> SUFFICES ASSUME weather \subseteq {"stall"} PROVE Kept'
  BY SameWeather DEF ShellsKept
<1>a. Kept
  BY DEF ShellsKept
<1>b. Orderly /\ Quiet
  BY DEF Calm, Quiet
<1>1. ASSUME NEW d \in Daemon, StartFresh(d)
      PROVE  Kept'
  BY <1>1, <1>a
  DEF StartFresh, socketVars, handVars, ptyVars, Kept, NoServer, Server,
      Waiting, TypeOK
<1>2. ASSUME NEW d \in Daemon, StartUpgrade(d)
      PROVE  Kept'
  BY <1>2, <1>a
  DEF StartUpgrade, socketVars, handVars, ptyVars, Kept, NoServer, Server,
      Waiting, TypeOK
<1>3. ASSUME NEW d \in Daemon, Rendezvous(d)
      PROVE  Kept'
  BY <1>3, <1>a
  DEF Rendezvous, handVars, ptyVars, Kept, NoServer, Server, Waiting, TypeOK
<1>4. ASSUME NEW d \in Daemon, NoPredecessor(d)
      PROVE  Kept'
  BY <1>4, <1>a
  DEF NoPredecessor, handVars, ptyVars, Kept, NoServer, Server, Waiting,
      TypeOK
<1>5. ASSUME NEW d \in Daemon, AskPredecessor(d)
      PROVE  Kept'
  BY <1>5, <1>a
  DEF AskPredecessor, socketVars, ptyVars, Kept, NoServer, Server, Waiting,
      TypeOK
<1>6. ASSUME NEW d \in Daemon, SignalKills(d)
      PROVE  Kept'
  <2>1. ctl \in Daemon
    BY <1>6 DEF SignalKills, Answers, TypeOK
  <2> QED BY <1>6, <1>b, <2>1 DEF SignalKills, Orderly, OneStarting, Starting
<1>7. ASSUME NEW d \in Daemon, Accept(d)
      PROVE  Kept'
  BY <1>7, <1>a, <1>b
  DEF Accept, socketVars, handVars, Kept, NoServer, Server, Waiting, TypeOK,
      Handing
<1>8. ASSUME NEW d \in Daemon, Ack(d)
      PROVE  Kept'
  BY <1>8, <1>a
  DEF Ack, handVars, ptyVars, Kept, NoServer, Server, Waiting, TypeOK
<1>9. ASSUME NEW d \in Daemon, AcceptFails(d)
      PROVE  Kept'
  BY <1>9, <1>a
  DEF AcceptFails, handVars, ptyVars, Kept, NoServer, Server, Waiting,
      TypeOK
<1>10. ASSUME NEW d \in Daemon, HandoffTimeout(d)
       PROVE  Kept'
  BY <1>10, <1>a
  DEF HandoffTimeout, handVars, ptyVars, Kept, NoServer, Server, Waiting,
      TypeOK
<1>11. ASSUME NEW d \in Daemon, Waited(d)
       PROVE  Kept'
  BY <1>11, <1>a
  DEF Waited, socketVars, handVars, ptyVars, Kept, NoServer, Server,
      Waiting, TypeOK
<1>12. ASSUME NEW d \in Daemon, BindCheck(d)
       PROVE  Kept'
  BY <1>12, <1>a
  DEF BindCheck, socketVars, handVars, ptyVars, Kept, NoServer, Server,
      Waiting, TypeOK
<1>13. ASSUME NEW d \in Daemon, BindRefused(d)
       PROVE  Kept'
  <2>1. ctl \in Daemon \ {d} /\ mode[ctl] \in Server
    BY <1>13 DEF BindRefused, Answers, Server, TypeOK
  <2>2. ~NoServer'
    BY <1>13, <2>1 DEF BindRefused, Dies, NoServer, TypeOK
  <2> QED BY <1>13, <1>a, <2>2 DEF BindRefused, Dies, Kept, Server, TypeOK
<1>14. ASSUME NEW d \in Daemon, BindUnlink(d)
       PROVE  Kept'
  BY <1>14, <1>a
  DEF BindUnlink, handVars, ptyVars, Kept, NoServer, Server, Waiting, TypeOK
<1>15. ASSUME NEW d \in Daemon, Bind(d)
       PROVE  Kept'
  <2>1. NoServer
    BY <1>15, <1>b DEF Bind, Orderly, PathFree, NoServer
  <2>2. born \subseteq table[d]
    BY <1>15, <1>a, <1>b, <2>1
    DEF Bind, Kept, Orderly, OneStarting, Starting, Waiting
  <2>3. ~NoServer'
    BY <1>15 DEF Bind, NoServer, Server, TypeOK
  <2> QED
    BY <1>15, <1>a, <2>2, <2>3
    DEF Bind, handVars, ptyVars, Kept, Server, TypeOK
<1>16. ASSUME NEW d \in Daemon, BindInUse(d)
       PROVE  Kept'
  BY <1>16, <1>a, <1>b
  DEF BindInUse, Dies, socketVars, Kept, NoServer, Server, Waiting, TypeOK,
      Orderly, PathFree
<1>17. ASSUME NEW d \in Daemon, HandlerInstalled(d)
       PROVE  Kept'
  BY <1>17, <1>a
  DEF HandlerInstalled, socketVars, handVars, ptyVars, Kept, NoServer,
      Server, Waiting, TypeOK
<1>18. ASSUME NEW d \in Daemon, Crash(d)
       PROVE  Kept'
  <2>1. /\ \A e \in Daemon : hand'[e] # "idle" => batch'[e] = table'[e]
        /\ \A e \in Daemon : mode'[e] \in Server => born \subseteq table'[e]
    BY <1>18, <1>a DEF Crash, Dies, Kept, Server, TypeOK
  <2>2. ASSUME NoServer', NEW p \in born
        PROVE  \E s \in Daemon : p \in table'[s] /\ mode'[s] \in Waiting
    <3>1. table[d] = {}
      BY <1>18, <1>b, <2>2, CrashesAlone
      DEF Crash, Dies, NoServer, Server, TypeOK
    <3>2. NoServer
      BY <1>18, <1>a, <2>2, <3>1 DEF Crash, Dies, NoServer, Kept, TypeOK
    <3>3. PICK s \in Daemon : p \in table[s] /\ mode[s] \in Waiting
      BY <1>a, <2>2, <3>2 DEF Kept
    <3> QED BY <1>18, <3>1, <3>3 DEF Crash, Dies, TypeOK
  <2> QED BY <1>18, <2>1, <2>2 DEF Crash, Kept
<1>19. ASSUME NEW d \in Daemon, Collect(d)
       PROVE  Kept'
  BY <1>19, <1>a
  DEF Collect, socketVars, ptyVars, Kept, NoServer, Server, Waiting, TypeOK
<1>20. CASE \/ \E d \in Daemon : SendFails(d) \/ Send(d) \/ GiveUp(d)
            \/ \E d \in Daemon, p \in Pty :
                  Close(d, p) \/ Reopen(d, p) \/ Read(d, p)
            \/ UNCHANGED vars
  BY <1>20, <1>a, ZenonT(60)
  DEF SendFails, Send, GiveUp, Close, Reopen, Read, socketVars, handVars,
      ptyVars, vars, Kept, NoServer, Server, Waiting, TypeOK
<1>21. ASSUME NEW d \in Daemon, Exit(d)
       PROVE  Kept'
  <2>1. /\ to[d] \in Daemon \ {d}
        /\ mode[to[d]] \in Waiting
        /\ table[to[d]] = batch[d]
        /\ mode[d] = "serving"
        /\ \A e \in Daemon : mode[e] \in Server => e = d
    BY <1>21, <1>b, ExitsToSuccessor
  <2>2. born \subseteq table[to[d]]
    BY <1>21, <1>a, <2>1 DEF Exit, Kept, Server
  <2>3. table'[to[d]] = table[to[d]] /\ mode'[to[d]] = mode[to[d]]
    BY <1>21, <2>1 DEF Exit, Dies, TypeOK
  <2>4. /\ \A e \in Daemon : hand'[e] # "idle" => batch'[e] = table'[e]
        /\ \A e \in Daemon : mode'[e] \in Server => born \subseteq table'[e]
    BY <1>21, <1>a DEF Exit, Dies, Kept, Server, TypeOK
  <2> QED BY <1>21, <2>1, <2>2, <2>3, <2>4 DEF Exit, Kept
<1>22. ASSUME NEW d \in Daemon, NEW p \in Pty, Open(d, p)
       PROVE  Kept'
  <2>1. mode[d] \in Server /\ hand[d] = "idle"
    BY <1>22 DEF Open, Admits, Serves, Server
  <2>2. \A e \in Daemon : mode[e] \in Server => e = d
    BY <1>22, <1>b, <2>1 DEF Orderly, ServerOwns
  <2>3. ~NoServer'
    BY <1>22, <2>1 DEF Open, NoServer
  <2> QED
    BY <1>22, <1>a, <2>1, <2>2, <2>3 DEF Open, handVars, Kept, TypeOK
<1> QED
  BY <1>1, <1>2, <1>3, <1>4, <1>5, <1>6, <1>7, <1>8, <1>9, <1>10, <1>11,
     <1>12, <1>13, <1>14, <1>15, <1>16, <1>17, <1>18, <1>19, <1>20, <1>21,
     <1>22
  DEF Next, Startup, HandOff, Requests

\* Without rivals and requests during a handoff, leases stay right.
LEMMA LeasesStep == IndInv /\ [Next]_vars => LeasesKept'
<1> SUFFICES ASSUME IndInv, [Next]_vars PROVE LeasesKept'
  OBVIOUS
<1> USE HandoffAssumption DEF IndInv
<1> SUFFICES ASSUME weather \subseteq {"stall"} PROVE Armed'
  BY SameWeather DEF LeasesKept
<1>a. Armed
  BY DEF LeasesKept
<1>b. Orderly /\ Quiet
  BY DEF Calm, Quiet
<1>c. \A s \in Daemon : link[s] # None => Message(s) /\ link[s].from \in Daemon
  BY DEF Messages, TypeOK, Link
<1>1. ASSUME NEW d \in Daemon, StartFresh(d)
      PROVE  Armed'
  BY <1>1, <1>a, ZenonT(60)
  DEF StartFresh, socketVars, handVars, ptyVars, Armed, LeasesRight,
      LeasesSent, NoServer, Server, Waiting, TypeOK, Holders, Holding
<1>2. ASSUME NEW d \in Daemon, StartUpgrade(d)
      PROVE  Armed'
  BY <1>2, <1>a
  DEF StartUpgrade, socketVars, handVars, ptyVars, Armed, LeasesRight,
      LeasesSent, NoServer, Server, Waiting, TypeOK
<1>3. ASSUME NEW d \in Daemon, Rendezvous(d)
      PROVE  Armed'
  BY <1>3, <1>a
  DEF Rendezvous, handVars, ptyVars, Armed, LeasesRight, LeasesSent,
      NoServer, Server, Waiting, TypeOK
<1>4. ASSUME NEW d \in Daemon, NoPredecessor(d)
      PROVE  Armed'
  BY <1>4, <1>a, ZenonT(60)
  DEF NoPredecessor, handVars, ptyVars, Armed, LeasesRight, LeasesSent,
      NoServer, Server, Waiting, TypeOK, Holders, Holding
<1>5. ASSUME NEW d \in Daemon, AskPredecessor(d)
      PROVE  Armed'
  BY <1>5, <1>a
  DEF AskPredecessor, socketVars, ptyVars, Armed, LeasesRight, LeasesSent,
      NoServer, Server, Waiting, TypeOK
<1>6. ASSUME NEW d \in Daemon, SignalKills(d)
      PROVE  Armed'
  <2>1. ctl \in Daemon
    BY <1>6 DEF SignalKills, Answers, TypeOK
  <2> QED BY <1>6, <1>b, <2>1 DEF SignalKills, Orderly, OneStarting, Starting
<1>7. ASSUME NEW d \in Daemon, Accept(d)
      PROVE  Armed'
  <2>1. Moved(d, Taken(link[d])) /\ Pending(d)
    BY <1>7, Moves DEF Accept
  <2>2. table'[d] = link[d].ptys /\ lease'[d] = link[d].lease
    BY <1>7 DEF Accept, TypeOK
  <2>3. ASSUME NEW s \in Daemon, link'[s] # None, link'[s].state \in Standing,
               hand'[link'[s].from] = "sent"
        PROVE  LeasesSent(s)'
    <3>1. CASE s = d
      BY <1>7, <1>a, <2>1, <2>2, <2>3, <3>1
      DEF Accept, handVars, Moved, Pending, Taken, Armed, LeasesSent, Standing
    <3>2. CASE s # d
      BY <1>7, <1>a, <2>1, <2>3, <3>2
      DEF Accept, handVars, Moved, Armed, LeasesSent, TypeOK
    <3> QED BY <3>1, <3>2
  <2> QED
    BY <1>7, <1>a, <2>3
    DEF Accept, Armed, LeasesRight, NoServer, Server, Waiting, TypeOK
<1>8. ASSUME NEW d \in Daemon, Ack(d)
      PROVE  Armed'
  <2>1. Moved(d, AckOf(link[d]))
    BY <1>8, Moves
  <2>2. ~NoServer'
    BY <1>8, <1>b
    DEF Ack, NoServer, Server, Orderly, ServerStays, TypeOK
  <2>3. ASSUME NEW s \in Daemon, link'[s] # None, link'[s].state \in Standing,
               hand'[link'[s].from] = "sent"
        PROVE  LeasesSent(s)'
    BY <1>8, <1>a, <1>c, <2>1, <2>3
    DEF Ack, AckOf, handVars, ptyVars, Moved, Message, Pending, Adopting,
        Armed, LeasesSent, Standing
  <2> QED
    BY <1>8, <1>a, <2>2, <2>3
    DEF Ack, ptyVars, Armed, LeasesRight, Server, TypeOK
<1>9. ASSUME NEW d \in Daemon, AcceptFails(d)
      PROVE  Armed'
  <2>1. Moved(d, "void")
    BY <1>9, Moves
  <2>2. table[d] = {}
    BY <1>9 DEF AcceptFails, Holders, Holding
  <2> QED
    BY <1>9, <1>a, <2>1, <2>2
    DEF AcceptFails, handVars, ptyVars, Moved, Armed, LeasesRight, LeasesSent,
        NoServer, Server, Waiting, Standing, TypeOK
<1>10. ASSUME NEW d \in Daemon, HandoffTimeout(d)
       PROVE  Armed'
  BY <1>10, <1>a, ZenonT(60)
  DEF HandoffTimeout, handVars, ptyVars, Armed, LeasesRight, LeasesSent,
      NoServer, Server, Waiting, TypeOK, Holders, Holding
<1>11. ASSUME NEW d \in Daemon, Waited(d)
       PROVE  Armed'
  BY <1>11, <1>a
  DEF Waited, socketVars, handVars, ptyVars, Armed, LeasesRight, LeasesSent,
      NoServer, Server, Waiting, TypeOK
<1>12. ASSUME NEW d \in Daemon, BindCheck(d)
       PROVE  Armed'
  BY <1>12, <1>a
  DEF BindCheck, socketVars, handVars, ptyVars, Armed, LeasesRight,
      LeasesSent, NoServer, Server, Waiting, TypeOK
<1>13. ASSUME NEW d \in Daemon, BindRefused(d)
       PROVE  Armed'
  <2>1. ctl \in Daemon \ {d} /\ mode[ctl] \in Server
    BY <1>13 DEF BindRefused, Answers, Server, TypeOK
  <2>2. ~NoServer'
    BY <1>13, <2>1 DEF BindRefused, Dies, NoServer, TypeOK
  <2>3. \A s \in Daemon : link'[s] # None => link'[s] = link[s]
    BY <1>13, Burials DEF Buried
  <2> QED
    BY <1>13, <1>a, <1>c, <2>2, <2>3
    DEF BindRefused, Dies, Armed, LeasesRight, LeasesSent, Server, TypeOK
<1>14. ASSUME NEW d \in Daemon, BindUnlink(d)
       PROVE  Armed'
  BY <1>14, <1>a
  DEF BindUnlink, handVars, ptyVars, Armed, LeasesRight, LeasesSent,
      NoServer, Server, Waiting, TypeOK
<1>15. ASSUME NEW d \in Daemon, Bind(d)
       PROVE  Armed'
  <2>1. NoServer
    BY <1>15, <1>b DEF Bind, Orderly, PathFree, NoServer
  <2>2. LeasesRight(d)
    BY <1>15, <1>a, <2>1 DEF Bind, Armed, Waiting
  <2>3. ~NoServer'
    BY <1>15 DEF Bind, NoServer, Server, TypeOK
  <2> QED
    BY <1>15, <1>a, <2>2, <2>3
    DEF Bind, handVars, ptyVars, Armed, LeasesRight, LeasesSent, Server,
        TypeOK
<1>16. ASSUME NEW d \in Daemon, BindInUse(d)
       PROVE  Armed'
  BY <1>16, <1>a, <1>b, Burials
  DEF Buried, BindInUse, Dies, socketVars, Armed, LeasesRight, LeasesSent,
      NoServer, Server, Waiting, TypeOK, Orderly, PathFree
<1>17. ASSUME NEW d \in Daemon, HandlerInstalled(d)
       PROVE  Armed'
  BY <1>17, <1>a
  DEF HandlerInstalled, socketVars, handVars, ptyVars, Armed, LeasesRight,
      LeasesSent, NoServer, Server, Waiting, TypeOK
<1>18. ASSUME NEW d \in Daemon, Crash(d)
       PROVE  Armed'
  <2>1. \A e \in Daemon : mode[e] \in Starting => e = d
    BY <1>18, <1>b, CrashesAlone
  <2>2. \A e \in Daemon : mode'[e] \notin Waiting
    BY <1>18, <2>1 DEF Crash, Dies, Waiting, Starting, TypeOK
  <2>3. \A s \in Daemon : link'[s] # None => link'[s] = link[s]
    BY <1>18, Burials DEF Buried
  <2> QED
    BY <1>18, <1>a, <1>c, <2>2, <2>3
    DEF Crash, Dies, Armed, LeasesRight, LeasesSent, Server, TypeOK
<1>19. ASSUME NEW d \in Daemon, Collect(d)
       PROVE  Armed'
  BY <1>19, <1>a
  DEF Collect, socketVars, ptyVars, Armed, LeasesRight, LeasesSent,
      NoServer, Server, Waiting, TypeOK
<1>20. ASSUME NEW d \in Daemon, SendFails(d)
       PROVE  Armed'
  BY <1>20, <1>a
  DEF SendFails, socketVars, ptyVars, Armed, LeasesRight, LeasesSent,
      NoServer, Server, Waiting, TypeOK
<1>21. ASSUME NEW d \in Daemon, Send(d)
       PROVE  Armed'
  <2>1. mig \in Daemon /\ mode[d] = "serving" /\ batch[d] \subseteq table[d]
    BY <1>21 DEF Send, Handing, TypeOK
  <2>2. LeasesRight(d)
    BY <1>a, <2>1 DEF Armed, Server
  <2>3. ASSUME NEW s \in Daemon, link'[s] # None, link'[s].state \in Standing,
               hand'[link'[s].from] = "sent"
        PROVE  LeasesSent(s)'
    <3>1. CASE s = mig /\ link[s] = None
      <4>1. link'[s] = Payload(d)
        BY <1>21, <2>1, <3>1 DEF Send, TypeOK
      <4> QED
        BY <1>21, <2>1, <2>2, <4>1, Sending
        DEF Send, ptyVars, LeasesSent, LeasesRight
    <3>2. CASE ~(s = mig /\ link[s] = None)
      <4>1. link'[s] = link[s]
        BY <1>21, <2>1, <3>2 DEF Send, TypeOK
      <4>2. hand[link[s].from] = "sent"
        BY <1>21, <1>c, <2>1, <2>3, <4>1 DEF Send, Message, Standing, TypeOK
      <4> QED
        BY <1>21, <1>a, <2>3, <4>1, <4>2 DEF Send, ptyVars, Armed, LeasesSent
    <3> QED BY <3>1, <3>2
  <2> QED
    BY <1>21, <1>a, <2>3 DEF Send, ptyVars, Armed, LeasesRight, NoServer
<1>22. ASSUME NEW d \in Daemon, GiveUp(d)
       PROVE  Armed'
  <2>1. ASSUME NEW s \in Daemon, link'[s] # None, link'[s].state \in Standing,
               hand'[link'[s].from] = "sent"
        PROVE  LeasesSent(s)'
    <3>1. link'[s] = link[s]
      <4>1. CASE LinkOf(d, to[d])
        BY <1>22, <2>1, <4>1, Moves DEF Moved, Standing
      <4>2. CASE ~LinkOf(d, to[d])
        BY <1>22, <4>2 DEF GiveUp
      <4> QED BY <4>1, <4>2
    <3>2. hand[link[s].from] = "sent"
      BY <1>22, <1>c, <2>1, <3>1 DEF GiveUp, TypeOK
    <3> QED
      BY <1>22, <1>a, <2>1, <3>1, <3>2 DEF GiveUp, ptyVars, Armed, LeasesSent
  <2> QED
    BY <1>22, <1>a, <2>1 DEF GiveUp, ptyVars, Armed, LeasesRight, NoServer
<1>23. ASSUME NEW d \in Daemon, Exit(d)
       PROVE  Armed'
  <2>1. /\ to[d] \in Daemon \ {d}
        /\ link[to[d]] # None
        /\ link[to[d]].state = "acked"
        /\ link[to[d]].from = d
        /\ mode[d] = "serving"
        /\ \A e \in Daemon : mode[e] \in Starting => e = to[d]
        /\ \A e \in Daemon : mode[e] \in Server => e = d
        /\ table[to[d]] = batch[d]
        /\ link[to[d]].ptys = batch[d]
    BY <1>23, <1>b, ExitsToSuccessor
  <2>2. LeasesSent(to[d])
    BY <1>23, <1>a, <2>1 DEF Exit, Armed, Standing
  <2>3. LeasesRight(to[d])
    BY <2>1, <2>2 DEF LeasesSent, LeasesRight
  <2>4. \A s \in Daemon : mode'[s] \in Waiting => LeasesRight(s)'
    BY <1>23, <2>1, <2>3
    DEF Exit, Dies, LeasesRight, Waiting, Starting, TypeOK
  <2>5. \A e \in Daemon : mode'[e] \notin Server
    BY <1>23, <2>1 DEF Exit, Dies, Server, TypeOK
  <2>6. \A s \in Daemon : link'[s] # None => link'[s] = link[s]
    BY <1>23, Burials DEF Buried
  <2> QED
    BY <1>23, <1>a, <1>c, <2>4, <2>5, <2>6
    DEF Exit, Dies, Armed, LeasesSent, TypeOK
<1>24. ASSUME NEW d \in Daemon, NEW p \in Pty, Open(d, p)
       PROVE  Armed'
  <2>1. mode[d] \in Server
    BY <1>24 DEF Open, Admits, Serves, Server
  <2>2. p \notin lease[d] /\ p \notin wanted
    BY <1>24 DEF Open, NothingInvented
  <2>3. ~NoServer'
    BY <1>24, <2>1 DEF Open, NoServer
  <2> QED
    BY <1>24, <1>a, <1>b, <2>1, <2>2, <2>3
    DEF Open, handVars, Armed, LeasesRight, LeasesSent, TypeOK
<1>25. ASSUME NEW d \in Daemon, NEW p \in Pty, Close(d, p)
       PROVE  Armed'
  <2>1. mode[d] \in Server /\ hand[d] = "idle"
    BY <1>25 DEF Close, Admits, Serves, Server
  <2>2. \A e \in Daemon : mode[e] \in Server => e = d
    BY <1>b, <2>1 DEF Orderly, ServerOwns
  <2>3. \A e \in Daemon : hand[e] # "sent"
    BY <2>1, <2>2 DEF Handing, Server
  <2>4. ~NoServer'
    BY <1>25, <2>1 DEF Close, NoServer
  <2>5. LeasesRight(d)'
    BY <1>25, <1>a, <2>1 DEF Close, Armed, LeasesRight, TypeOK
  <2> QED
    BY <1>25, <1>c, <2>2, <2>3, <2>4, <2>5 DEF Close, handVars, Armed, TypeOK
<1>26. ASSUME NEW d \in Daemon, NEW p \in Pty, Reopen(d, p)
       PROVE  Armed'
  <2>1. mode[d] \in Server /\ hand[d] = "idle"
    BY <1>26 DEF Reopen, Admits, Serves, Server
  <2>2. \A e \in Daemon : mode[e] \in Server => e = d
    BY <1>b, <2>1 DEF Orderly, ServerOwns
  <2>3. \A e \in Daemon : hand[e] # "sent"
    BY <2>1, <2>2 DEF Handing, Server
  <2>4. ~NoServer'
    BY <1>26, <2>1 DEF Reopen, NoServer
  <2>5. LeasesRight(d)'
    BY <1>26, <1>a, <2>1 DEF Reopen, Armed, LeasesRight, TypeOK
  <2> QED
    BY <1>26, <1>c, <2>2, <2>3, <2>4, <2>5 DEF Reopen, handVars, Armed, TypeOK
<1>27. CASE \/ \E d \in Daemon, p \in Pty : Read(d, p)
            \/ UNCHANGED vars
  BY <1>27, <1>a
  DEF Read, socketVars, handVars, vars, Armed, LeasesRight, LeasesSent,
      NoServer, Server, Waiting, TypeOK
<1> QED
  BY <1>1, <1>2, <1>3, <1>4, <1>5, <1>6, <1>7, <1>8, <1>9, <1>10, <1>11,
     <1>12, <1>13, <1>14, <1>15, <1>16, <1>17, <1>18, <1>19, <1>20, <1>21,
     <1>22, <1>23, <1>24, <1>25, <1>26, <1>27
  DEF Next, Startup, HandOff, Requests

-----------------------------------------------------------------------------
(* The inductive invariant *)

\* The first daemon, serving no terminal yet, satisfies all of it.
LEMMA IndInit == Init => IndInv
<1> SUFFICES ASSUME Init PROVE IndInv
  OBVIOUS
<1> USE HandoffAssumption DEF Init
<1>1. TypeOK
  BY DEF TypeOK, Mode, Starting
<1>2. Handing /\ Messages /\ Holders /\ SnapshotIsCurrent
  BY DEF Handing, Messages, Holders, SnapshotIsCurrent
<1>3. NothingInvented
  BY DEF NothingInvented
<1>4. Calm
  BY DEF Calm, Quiet, Orderly, OneStarting, ServerOwns, PathFree,
      MeetsPredecessor, ServerStays, FromPredecessor, Awaited, Starting,
      Server, Settling
<1>5. NobodyLate /\ OutputKept
  BY DEF NobodyLate, OnTime, OutputKept
<1>6. ShellsKept
  BY DEF ShellsKept, Kept
<1>7. LeasesKept
  BY DEF LeasesKept, Armed, LeasesRight, Server
<1> QED BY <1>1, <1>2, <1>3, <1>4, <1>5, <1>6, <1>7 DEF IndInv

\* Every behaviour of the daemons, whoever is started, stalls, crashes or is
\* asked for what at any moment, satisfies the inductive invariant.
THEOREM Inductive == Spec => []IndInv
<1>1. IndInv /\ [Next]_vars => IndInv'
  <2>1. IndInv /\ [Next]_vars => Calm'
    BY OrderlyStep, FromStep, AwaitedStep DEF Calm, Quiet
  <2> QED
    BY <2>1, TypeStep, HandingStep, MessagesStep, HoldersStep, InventStep,
       SnapshotStep, LateStep, OutputStep, ShellsStep, LeasesStep
    DEF IndInv
<1> QED BY <1>1, IndInit, PTL DEF Spec

-----------------------------------------------------------------------------
(* The properties *)

\* What hand_off sends stays the predecessor's screen until it gives up or
\* exits, and an ack tells it that its whole batch is in the successor's table,
\* in any weather and for any number of daemons.
THEOREM HandoffsAreExact == Spec => []HandoffIsExact
<1>1. IndInv => HandoffIsExact
  <2> SUFFICES ASSUME IndInv PROVE AckMeansAdopted
    BY DEF IndInv, HandoffIsExact
  <2> SUFFICES ASSUME NEW d \in Daemon, hand[d] = "sent", Acked(d)
               PROVE  \/ batch[d] \subseteq table[to[d]]
                      \/ ~Quiet /\ mode[to[d]] = "dead"
    BY DEF AckMeansAdopted, Quiet
  <2>1. to[d] \in Daemon /\ mode[d] = "serving"
    BY DEF IndInv, Acked, LinkOf, Handing, TypeOK
  <2>2. Message(to[d])
    BY <2>1 DEF IndInv, Acked, LinkOf, Messages
  <2>3. Quiet => mode[to[d]] # "dead"
    BY <2>1 DEF IndInv, Calm, Awaited, Acked, LinkOf
  <2> QED BY <2>1, <2>2, <2>3 DEF Acked, LinkOf, Message, Standing
<1> QED BY <1>1, Inductive, PTL

\* Upgrades that fail, crash, are refused or complete, in any number, take no
\* shell, no output and no lease from the users of the terminals.
THEOREM UpgradesKeepTerminals == Spec => []TerminalsSurvive
<1>1. IndInv => TerminalsSurvive
  <2> SUFFICES ASSUME IndInv PROVE TerminalsSurvive
    OBVIOUS
  <2>1. NoShellLost
    BY DEF IndInv, ShellsKept, Kept, NoServer, NoShellLost, Held
  <2>2. Lossless
    BY DEF IndInv, OutputKept, Handed, Lossless
  <2>3. LeaseSurvives
    BY
    DEF IndInv, LeasesKept, Armed, LeasesRight, LeaseSurvives, Serves, Server
  <2> QED BY <2>1, <2>2, <2>3 DEF TerminalsSurvive
<1> QED BY <1>1, Inductive, PTL

\* The daemon that answers is the only reader of its terminals until it hands
\* them over, unless a process stalls or deserts or rivals start.
THEOREM TerminalsHaveOneReader == Spec => []NoSecondReader
<1>1. IndInv => NoSecondReader
  <2> SUFFICES ASSUME IndInv, weather \subseteq {"busy"}, NEW d \in Daemon,
                      NEW e \in Daemon, Serves(d), hand[d] = "idle", e # d,
                      NEW p \in table[d] \cap table[e]
               PROVE  FALSE
    BY DEF NoSecondReader
  <2>1. Handed(e, p)
    BY TwoHolders DEF Handed
  <2>2. mode[e] = "serving" /\ mode[d] \in Server
    BY <2>1 DEF IndInv, Handed, Handing, Serves, Server
  <2> QED BY <2>2 DEF IndInv, Calm, Quiet, Orderly, ServerOwns, Server
<1> QED BY <1>1, Inductive, PTL

\* What is left of `the loser exits on "already running"`: unless rivals start
\* or a successor deserts, two daemons are never past their bind.
THEOREM OneServerWhenCalm ==
  Spec => [](Quiet => OneServer)
<1>1. IndInv => (Quiet => OneServer)
  BY DEF IndInv, Calm, Quiet, Orderly, ServerOwns, Server, OneServer
<1> QED BY <1>1, Inductive, PTL

-----------------------------------------------------------------------------
(* Terminals, implemented *)

\* The terminals that Promise is about, in terms of what this module counts.
Mapped ==
    /\ {p \in Pty : Readers(p) # {}} = IF Good THEN born ELSE {}
    /\ \A p \in Pty : UNION {vt[d][p] : d \in Latest(p)} =
                         IF Good THEN 1..read[p] ELSE {}
    /\ {p \in Pty : \E d \in Latest(p) : p \in lease[d]} =
          IF Good THEN wanted ELSE {}

\* In good weather each shell has a reader that has missed nothing.
LEMMA FullReader ==
  ASSUME IndInv, Good, NEW p \in born
  PROVE  \E d \in Daemon : p \in table[d] /\ vt[d][p] = 1..read[p]
<1> USE DEF IndInv, Good
<1>1. PICK d \in Daemon : p \in table[d]
  BY DEF ShellsKept, Kept, NoServer
<1>2. CASE ~Handed(d, p)
  BY <1>1, <1>2 DEF OutputKept
<1>3. CASE Handed(d, p)
  <2> DEFINE s == to[d]
  <2>1. /\ s \in Daemon /\ mode[d] = "serving"
        /\ link[s] # None /\ link[s].from = d
    BY <1>3 DEF Handed, LinkOf, Handing, TypeOK
  <2>2. Message(s)
    BY <2>1 DEF Messages
  <2>3. p \in table[s]
    <3>1. mode[s] # "dead"
      BY <1>3, <2>1, <2>2
      DEF Calm, Quiet, Awaited, Message, Pending, Adopting, Handed, LinkOf
    <3> QED BY <1>3, <2>1, <2>2, <3>1 DEF Handed, LinkOf, Message, Standing
  <2>4. hand[s] = "idle"
    BY <2>1, <2>2
    DEF Message, Handing, Calm, Quiet, Orderly, ServerOwns, Server
  <2> QED BY <2>1, <2>3, <2>4 DEF OutputKept, Handed
<1> QED BY <1>2, <1>3

\* In good weather every reader has the leases the users armed.
LEMMA ReaderLeases ==
  ASSUME IndInv, Good, NEW d \in Daemon, table[d] # {}
  PROVE  LeasesRight(d)
<1> USE DEF IndInv, Good
<1>1. Armed
  BY DEF LeasesKept
<1>2. CASE mode[d] \in Server
  BY <1>1, <1>2 DEF Armed
<1>3. CASE mode[d] \notin Server /\ NoServer
  <2>1. mode[d] \in Waiting
    BY <1>3
    DEF Holders, Holding, Waiting, Calm, Quiet, Orderly, ServerStays, NoServer,
        Server
  <2> QED BY <1>1, <1>3, <2>1 DEF Armed
<1>4. CASE mode[d] \notin Server /\ ~NoServer
  <2>1. PICK x \in Daemon : mode[x] \in Server
    BY <1>4 DEF NoServer
  <2>2. /\ hand[x] = "sent"
        /\ link[d] # None
        /\ link[d].state \in {"taken", "acked"}
        /\ link[d].from = x
        /\ link[d].ptys = table[d]
    BY <1>4, <2>1, AdoptedFromServer
  <2> QED BY <1>1, <2>2 DEF Armed, LeasesSent, LeasesRight, Standing
<1> QED BY <1>2, <1>3, <1>4

\* What the users see is what was started, read, and closed.
LEMMA Mapping == IndInv => Mapped
<1> SUFFICES ASSUME IndInv PROVE Mapped
  OBVIOUS
<1>1. CASE ~Good
  <2>1. \A p \in Pty : Readers(p) = {} /\ Latest(p) = {}
    BY <1>1 DEF Readers, Latest
  <2> QED BY <1>1, <2>1 DEF Mapped
<1>2. CASE Good
  <2>1. born \subseteq Pty /\ wanted \subseteq born
    BY DEF IndInv, TypeOK, NothingInvented
  <2>2. \A p \in Pty : Readers(p) # {} <=> p \in born
    BY <1>2, <2>1, FullReader DEF Readers, IndInv, NothingInvented
  <2>3. \A p \in Pty \ born : Latest(p) = {} /\ read[p] = 0
    BY <2>2 DEF Latest, IndInv, NothingInvented
  <2>4. ASSUME NEW p \in born
        PROVE  /\ \E d \in Daemon : d \in Latest(p)
               /\ \A d \in Latest(p) : d \in Daemon /\ p \in table[d]
               /\ \A d \in Latest(p) : vt[d][p] = 1..read[p]
    <3>1. PICK x \in Daemon : p \in table[x] /\ vt[x][p] = 1..read[p]
      BY <1>2, FullReader
    <3>2. \A d \in Daemon : vt[d][p] \subseteq 1..read[p]
      BY <2>1 DEF IndInv, NothingInvented
    <3>3. x \in Latest(p)
      BY <1>2, <3>1, <3>2 DEF Latest, Readers
    <3>4. \A d \in Latest(p) : d \in Daemon /\ p \in table[d]
      BY DEF Latest, Readers
    <3>5. \A d \in Latest(p) : vt[x][p] \subseteq vt[d][p]
      BY <1>2, <3>1 DEF Latest, Readers
    <3> QED BY <3>1, <3>2, <3>3, <3>4, <3>5
  <2>5. \A p \in Pty : UNION {vt[d][p] : d \in Latest(p)} = 1..read[p]
    <3> SUFFICES ASSUME NEW p \in Pty
                 PROVE  UNION {vt[d][p] : d \in Latest(p)} = 1..read[p]
      OBVIOUS
    <3>1. CASE p \in born
      <4>1. {vt[d][p] : d \in Latest(p)} = {1..read[p]}
        BY <2>4, <3>1
      <4> QED BY <4>1
    <3>2. CASE p \notin born
      BY <2>3, <3>2
    <3> QED BY <3>1, <3>2
  <2>6. \A p \in Pty : (\E d \in Latest(p) : p \in lease[d]) <=> p \in wanted
    <3> SUFFICES ASSUME NEW p \in Pty
                 PROVE  (\E d \in Latest(p) : p \in lease[d]) <=> p \in wanted
      OBVIOUS
    <3>1. CASE p \in born
      BY <1>2, <2>4, <3>1, ReaderLeases DEF LeasesRight
    <3>2. CASE p \notin born
      BY <2>1, <2>3, <3>2
    <3> QED BY <3>1, <3>2
  <2> QED BY <1>2, <2>1, <2>2, <2>5, <2>6 DEF Mapped
<1> QED BY <1>1, <1>2

\* Nobody opens, reads or closes a terminal but the requests and read loops.
LEMMA UserSteps ==
  ASSUME [Next]_vars
  PROVE  \/ UNCHANGED <<born, read, wanted>>
         \/ \E d \in Daemon, p \in Pty :
               Open(d, p) \/ Close(d, p) \/ Reopen(d, p) \/ Read(d, p)
<1>1. CASE UNCHANGED vars
  BY <1>1 DEF vars
<1>2. ASSUME NEW d \in Daemon, StartFresh(d) \/ StartUpgrade(d) \/ Crash(d)
      PROVE  UNCHANGED <<born, read, wanted>>
  BY <1>2 DEF StartFresh, StartUpgrade, Crash, ptyVars
<1>3. ASSUME NEW d \in Daemon, Startup(d)
      PROVE  UNCHANGED <<born, read, wanted>>
  <2>1. CASE \/ Rendezvous(d) \/ NoPredecessor(d) \/ AskPredecessor(d)
             \/ SignalKills(d) \/ Accept(d) \/ Ack(d) \/ AcceptFails(d)
             \/ HandoffTimeout(d)
    BY <2>1
    DEF Rendezvous, NoPredecessor, AskPredecessor, SignalKills, Accept, Ack,
        AcceptFails, HandoffTimeout, ptyVars
  <2>2. CASE \/ Waited(d) \/ BindCheck(d) \/ BindRefused(d) \/ BindUnlink(d)
             \/ Bind(d) \/ BindInUse(d) \/ HandlerInstalled(d)
    BY <2>2
    DEF Waited, BindCheck, BindRefused, BindUnlink, Bind, BindInUse,
        HandlerInstalled, ptyVars
  <2> QED BY <1>3, <2>1, <2>2 DEF Startup
<1>4. ASSUME NEW d \in Daemon, HandOff(d)
      PROVE  UNCHANGED <<born, read, wanted>>
  BY <1>4 DEF HandOff, Collect, SendFails, Send, GiveUp, Exit, ptyVars
<1> QED BY <1>1, <1>2, <1>3, <1>4 DEF Next, Requests

\* A step of the daemons is a step of the terminals that Promise describes, or
\* none that their users see.
LEMMA Refines ==
  IndInv /\ Mapped /\ Mapped' /\ [Next]_vars => [Promise!Next]_(Promise!vars)
<1> SUFFICES ASSUME IndInv, Mapped, Mapped', [Next]_vars
             PROVE  [Promise!Next]_(Promise!vars)
  OBVIOUS
<1>1. Good' <=> Good
  BY SameWeather DEF Good
<1> DEFINE open == {p \in Pty : Readers(p) # {}}
           shown == [p \in Pty |-> UNION {vt[d][p] : d \in Latest(p)}]
           closed == {p \in Pty : \E d \in Latest(p) : p \in lease[d]}
<1>2. shown = [p \in Pty |-> IF Good THEN 1..read[p] ELSE {}]
  BY DEF Mapped
<1>3. shown' = [p \in Pty |-> IF Good THEN 1..read'[p] ELSE {}]
  BY <1>1 DEF Mapped
<1>4. /\ open = IF Good THEN born ELSE {}
      /\ open' = IF Good THEN born' ELSE {}
      /\ closed = IF Good THEN wanted ELSE {}
      /\ closed' = IF Good THEN wanted' ELSE {}
  BY <1>1 DEF Mapped
<1> SUFFICES \/ open' = open /\ shown' = shown /\ closed' = closed
             \/ Promise!Next
  BY DEF Promise!vars
<1>5. CASE ~Good \/ UNCHANGED <<born, read, wanted>>
  BY <1>2, <1>3, <1>4, <1>5
<1>6. CASE Good /\ \E d \in Daemon, p \in Pty :
               Open(d, p) \/ Close(d, p) \/ Reopen(d, p) \/ Read(d, p)
  <2>1. PICK d \in Daemon, p \in Pty :
               Open(d, p) \/ Close(d, p) \/ Reopen(d, p) \/ Read(d, p)
    BY <1>6
  <2>2. table[d] \subseteq born
    BY DEF IndInv, NothingInvented
  <2>3. CASE Open(d, p)
    <3>1. /\ p \notin open /\ open' = open \cup {p}
          /\ shown' = shown /\ closed' = closed
      BY <1>2, <1>3, <1>4, <1>6, <2>3 DEF Open
    <3> QED BY <3>1 DEF Promise!Next, Promise!Open
  <2>4. CASE Close(d, p)
    <3>1. /\ p \in open /\ closed' = closed \cup {p}
          /\ shown' = shown /\ open' = open
      BY <1>2, <1>3, <1>4, <1>6, <2>2, <2>4 DEF Close
    <3> QED BY <3>1 DEF Promise!Next, Promise!Close
  <2>5. CASE Reopen(d, p)
    <3>1. p \in open /\ closed' = closed \ {p} /\ shown' = shown /\ open' = open
      BY <1>2, <1>3, <1>4, <1>6, <2>2, <2>5 DEF Reopen
    <3> QED BY <3>1 DEF Promise!Next, Promise!Reopen
  <2>6. CASE Read(d, p)
    <3>1. p \in open /\ closed' = closed /\ open' = open
      BY <1>4, <1>6, <2>2, <2>6 DEF Read
    <3>2. read[p] \in Nat /\ read[p] + 1 \in 1..MaxChunks
      BY <2>6, HandoffAssumption DEF Read, IndInv, TypeOK
    <3>3. shown[p] = 1..((read[p] + 1) - 1)
      BY <1>2, <1>6, <3>2
    <3>4. shown' = [shown EXCEPT ![p] = 1..(read[p] + 1)]
      BY <1>2, <1>3, <1>6, <2>6 DEF Read, IndInv, TypeOK
    <3> HIDE DEF open, shown, closed
    <3>5. \E n \in 1..MaxChunks :
             /\ shown[p] = 1..(n - 1)
             /\ shown' = [shown EXCEPT ![p] = 1..n]
      BY <3>2, <3>3, <3>4
    <3> USE DEF open, shown, closed
    <3> QED BY <3>1, <3>5 DEF Promise!Next, Promise!Show
  <2> QED BY <2>1, <2>3, <2>4, <2>5, <2>6
<1> QED BY <1>5, <1>6, UserSteps

\* A chain of upgrades of any length, crashed, refused, failed or completed, is
\* invisible in good weather: the terminals behave as those of one daemon that
\* is never replaced.
THEOREM UpgradesAreInvisible == Spec => Transparent
<1>1. Init /\ Mapped => Promise!Init
  <2> SUFFICES ASSUME Init, Mapped PROVE Promise!Init
    OBVIOUS
  <2>1. \A p \in Pty : UNION {vt[d][p] : d \in Latest(p)} = {}
    <3>1. \A p \in Pty : 1..read[p] = {}
      BY DEF Init
    <3> QED BY <3>1 DEF Mapped
  <2>2. /\ {p \in Pty : Readers(p) # {}} = {}
        /\ {p \in Pty : \E d \in Latest(p) : p \in lease[d]} = {}
    BY DEF Init, Mapped
  <2> QED BY <2>1, <2>2 DEF Promise!Init
<1> QED
  BY <1>1, Inductive, Mapping, Refines, PTL
  DEF Spec, Transparent, Promise!Spec
=============================================================================
