-------------------------------- MODULE Attach --------------------------------
(***************************************************************************)
(* One pty and the clients that attach to it: the read loop and the reap   *)
(* of crates/muxd/src/manager.rs, and the connection handlers of           *)
(* handle_open in crates/muxd/src/server.rs.                               *)
(*                                                                         *)
(* The shell's output is a sequence of chunks, numbered 1, 2, ...; the     *)
(* daemon's VT has been fed the first `vt` of them.  A rendered dump is    *)
(* the VT's state after some number of chunks, and repaints the whole      *)
(* screen.  Every message in a client's channel is stamped with the number *)
(* of chunks a correct screen shows once the message has been forwarded.   *)
(*                                                                         *)
(* A step is what the code does under one hold of the terminal lock, or    *)
(* between two awaits.  A handler is one connection: it obtains the        *)
(* session, attaches once under a fresh ClientId, and ends.                *)
(***************************************************************************)
EXTENDS Naturals, Sequences

CONSTANTS
    Client,      \* connections (and their ClientIds)
    MaxChunks,   \* bound on the shell's output
    Depth,       \* CLIENT_CHANNEL_DEPTH
    Resizers,    \* the clients that may resize before their first live output
    Nobody

ASSUME AttachAssumption ==
    /\ MaxChunks \in Nat
    /\ Depth \in Nat \ {0}
    /\ Resizers \subseteq Client
    /\ Nobody \notin Client

VARIABLES
    listed,     \* the manager's table holds the session
    vt,         \* chunks fed to the daemon's VT
    loop,       \* where the read_loop/reap task is
    sendTo,     \* the client that task is sending to
    hasExited,  \* PtySession.exited
    killed,     \* kill_session: "no", "pending" (unlisted), "done"
    slot,       \* PtySession.client
    foreground, \* PtySession.foreground is known
    nameTo,     \* the client a tell_foreground is sending to
    hpc,        \* where each handler is
    chan,       \* each client's mpsc channel
    got,        \* chunks each client's screen shows
    torn,       \* a chunk was applied to a screen it does not continue
    live,       \* handle_open's live_output
    told,       \* the Exit event was forwarded
    redump,     \* a handler's rendered dump on its way to the slot's client
    redumped,   \* clients a re-dump was ever meant for
    latest,     \* the last client to attach
    dropped     \* clients detached because a send to them failed

readVars    == <<vt, loop, sendTo>>
nameVars    == <<foreground, nameTo>>
clientVars  == <<got, torn, live, told>>
dumpVars    == <<redump, redumped>>
historyVars == <<latest, dropped>>
attachVars == <<listed, vt, loop, sendTo, hasExited, killed, slot, foreground,
                nameTo, hpc, chan, got, torn, live, told, redump, redumped,
                latest, dropped>>

Message == [kind : {"out", "dump", "name", "exit"}, n : 0..MaxChunks]
Msg(kind, n) == [kind |-> kind, n |-> n]

Redump == [n : 0..MaxChunks, to : Client \cup {Nobody}]

LoopState == {"reading", "sending", "waiting", "taking", "telling",
              "removing", "done"}

AttachTypeOK ==
    /\ listed \in BOOLEAN
    /\ vt \in 0..MaxChunks
    /\ loop \in LoopState
    /\ sendTo \in Client \cup {Nobody}
    /\ hasExited \in BOOLEAN
    /\ killed \in {"no", "pending", "done"}
    /\ slot \in Client \cup {Nobody}
    /\ foreground \in BOOLEAN
    /\ nameTo \in Client \cup {Nobody}
    /\ hpc \in [Client -> {"idle", "holding", "attached", "ended"}]
    /\ chan \in [Client -> Seq(Message)]
    /\ got \in [Client -> 0..MaxChunks]
    /\ torn \in [Client -> BOOLEAN]
    /\ live \in [Client -> BOOLEAN]
    /\ told \in [Client -> BOOLEAN]
    /\ redump \in [Client -> Redump \cup {Nobody}]
    /\ redumped \subseteq Client
    /\ latest \in Client \cup {Nobody}
    /\ dropped \subseteq Client

AttachInit ==
    /\ listed = TRUE
    /\ vt = 0
    /\ loop = "reading"
    /\ sendTo = Nobody
    /\ hasExited = FALSE
    /\ killed = "no"
    /\ slot = Nobody
    /\ foreground = FALSE
    /\ nameTo = Nobody
    /\ hpc = [c \in Client |-> "idle"]
    /\ chan = [c \in Client |-> <<>>]
    /\ got = [c \in Client |-> 0]
    /\ torn = [c \in Client |-> FALSE]
    /\ live = [c \in Client |-> FALSE]
    /\ told = [c \in Client |-> FALSE]
    /\ redump = [c \in Client |-> Nobody]
    /\ redumped = {}
    /\ latest = Nobody
    /\ dropped = {}

-----------------------------------------------------------------------------
(* Channels and the slot *)

\* The number of chunks c's screen will show once its channel is forwarded.
Sent(c) == IF chan[c] = <<>> THEN got[c] ELSE chan[c][Len(chan[c])].n

\* A send to c succeeds at once: the receiver exists and there is room.
Accepts(c) == hpc[c] = "attached" /\ Len(chan[c]) < Depth

\* No sender is left: the slot, the read loop, a foreground report and the
\* resizing handlers each hold at most one clone.
ChannelClosed(c) ==
    /\ slot # c
    /\ sendTo # c
    /\ nameTo # c
    /\ \A h \in Client : redump[h] # Nobody => redump[h].to # c

\* Mutant of Released: detach() clears the slot whoever is in it.
ReleasedBlindly(c) == Nobody

\* detach(): the slot after client c gave it up; another client keeps it.
Released(c) == IF slot = c THEN Nobody ELSE slot

-----------------------------------------------------------------------------
(* Connection handlers *)

\* open_terminal(): a handler gets the session from the table.  Open and Reopen
\* do so even when it has exited.
Acquire(c) ==
    /\ hpc[c] = "idle"
    /\ listed
    /\ hpc' = [hpc EXCEPT ![c] = "holding"]
    /\ UNCHANGED <<listed, readVars, hasExited, killed, slot, nameVars, chan,
                   clientVars, dumpVars, historyVars>>

\* attach_on(): under one terminal lock the client takes the slot, evicting
\* whoever was there, and the dump is rendered; handle_open writes it first.
AttachOn(c) ==
    /\ hpc[c] = "holding"
    /\ hpc' = [hpc EXCEPT ![c] = "attached"]
    /\ slot' = c
    /\ got' = [got EXCEPT ![c] = vt]
    /\ chan' = [chan EXCEPT ![c] =
                   IF foreground THEN <<Msg("name", vt)>> ELSE <<>>]
    /\ latest' = c
    /\ UNCHANGED <<listed, readVars, hasExited, killed, nameVars, torn, live,
                   told, dumpVars, dropped>>

\* handle_open's forward: one message from the channel to the client.  Output
\* and a dump are the same message to it, and both end the re-dump window.
Forward(c) ==
    LET m == Head(chan[c]) IN
    /\ hpc[c] = "attached"
    /\ chan[c] # <<>>
    /\ chan' = [chan EXCEPT ![c] = Tail(@)]
    /\ \/ /\ m.kind = "out"
          /\ torn' = [torn EXCEPT ![c] = @ \/ m.n # got[c] + 1]
          /\ got' = [got EXCEPT ![c] = m.n]
          /\ live' = [live EXCEPT ![c] = TRUE]
          /\ UNCHANGED told
       \/ /\ m.kind = "dump"
          /\ torn' = [torn EXCEPT ![c] = FALSE]
          /\ got' = [got EXCEPT ![c] = m.n]
          /\ live' = [live EXCEPT ![c] = TRUE]
          /\ UNCHANGED told
       \/ /\ m.kind = "exit"
          /\ told' = [told EXCEPT ![c] = TRUE]
          /\ UNCHANGED <<got, torn, live>>
       \/ /\ m.kind = "name"
          /\ UNCHANGED clientVars
    /\ UNCHANGED <<listed, readVars, hasExited, killed, slot, nameVars, hpc,
                   dumpVars, historyVars>>

\* The handler of c returns: its ClientGuard detaches c, its channel's receiver
\* and a re-dump it was sending are dropped.
End(c) ==
    /\ hpc' = [hpc EXCEPT ![c] = "ended"]
    /\ slot' = Released(c)
    /\ chan' = [chan EXCEPT ![c] = <<>>]
    /\ redump' = [redump EXCEPT ![c] = Nobody]
    /\ UNCHANGED <<listed, readVars, hasExited, killed, nameVars, clientVars,
                   redumped, historyVars>>

\* Mutant of ChannelEnd: handle_open joins forward and receive instead of
\* selecting the first to end, so it waits for the client to hang up.
ChannelEndJoined(c) == FALSE /\ End(c)

\* forward sees the channel closed, after everything in it was forwarded.
ChannelEnd(c) ==
    /\ hpc[c] = "attached"
    /\ chan[c] = <<>>
    /\ ChannelClosed(c)
    /\ End(c)

\* The client hangs up, or a write to it or to the pty fails.
Disconnect(c) ==
    /\ hpc[c] = "attached"
    /\ End(c)

\* resize() until live output: the dump is rendered under the terminal lock...
Resize(c) ==
    /\ c \in Resizers
    /\ hpc[c] = "attached"
    /\ ~live[c]
    /\ redump[c] = Nobody
    /\ redump' = [redump EXCEPT ![c] = [n |-> vt, to |-> Nobody]]
    /\ UNCHANGED <<listed, readVars, hasExited, killed, slot, nameVars, hpc,
                   chan, clientVars, redumped, historyVars>>

\* ... then the sender of whoever is in the slot is cloned...
RedumpTarget(c) ==
    /\ redump[c] # Nobody
    /\ redump[c].to = Nobody
    /\ redump' = [redump EXCEPT ![c] =
                     IF slot = Nobody THEN Nobody ELSE [@ EXCEPT !.to = slot]]
    /\ redumped' = redumped \cup ({slot} \ {Nobody})
    /\ UNCHANGED <<listed, readVars, hasExited, killed, slot, nameVars, hpc,
                   chan, clientVars, historyVars>>

\* ... and the dump is queued there, however long that takes.
RedumpSend(c) ==
    LET to == redump[c].to IN
    /\ redump[c] # Nobody
    /\ to # Nobody
    /\ \/ /\ Accepts(to)
          /\ chan' = [chan EXCEPT ![to] = Append(@, Msg("dump", redump[c].n))]
       \/ /\ hpc[to] = "ended"
          /\ UNCHANGED chan
    /\ redump' = [redump EXCEPT ![c] = Nobody]
    /\ UNCHANGED <<listed, readVars, hasExited, killed, slot, nameVars, hpc,
                   clientVars, redumped, historyVars>>

-----------------------------------------------------------------------------
(* The read loop and the reap *)

\* Read a chunk, feed the VT and resolve the client under one terminal lock.
ReadChunk ==
    /\ loop = "reading"
    /\ vt < MaxChunks
    /\ vt' = vt + 1
    /\ sendTo' = slot
    /\ loop' = IF slot = Nobody THEN "reading" ELSE "sending"
    /\ UNCHANGED <<listed, hasExited, killed, slot, nameVars, hpc, chan,
                   clientVars, dumpVars, historyVars>>

SendChunk ==
    /\ loop = "sending"
    /\ Accepts(sendTo)
    /\ chan' = [chan EXCEPT ![sendTo] = Append(@, Msg("out", vt))]
    /\ loop' = "reading"
    /\ sendTo' = Nobody
    /\ UNCHANGED <<listed, vt, hasExited, killed, slot, nameVars, hpc,
                   clientVars, dumpVars, historyVars>>

\* Mutant of SlowClient: the chunk is skipped and the client stays attached.
SlowClientSkipped ==
    /\ loop = "sending"
    /\ ~Accepts(sendTo)
    /\ loop' = "reading"
    /\ sendTo' = Nobody
    /\ UNCHANGED <<listed, vt, hasExited, killed, slot, nameVars, hpc, chan,
                   clientVars, dumpVars, historyVars>>

\* Mutant of SlowClient: the send has no timeout.
SlowClientAwaited == FALSE /\ UNCHANGED attachVars

\* The channel stayed full for CLIENT_SEND_TIMEOUT, or its receiver is gone:
\* the client is detached, by id.
SlowClient ==
    /\ loop = "sending"
    /\ ~Accepts(sendTo)
    /\ slot' = Released(sendTo)
    /\ dropped' = dropped \cup {sendTo}
    /\ loop' = "reading"
    /\ sendTo' = Nobody
    /\ UNCHANGED <<listed, vt, hasExited, killed, nameVars, hpc, chan,
                   clientVars, dumpVars, latest>>

\* Mutant of Eof: the end of the pty is acted on by another task, while a chunk
\* is still being sent.
EofAnyTime ==
    /\ loop \in {"reading", "sending"}
    /\ loop' = "waiting"
    /\ sendTo' = Nobody
    /\ UNCHANGED <<listed, vt, hasExited, killed, slot, nameVars, hpc, chan,
                   clientVars, dumpVars, historyVars>>

\* EOF or EIO: the loop is left and reap() waits for the child.
Eof ==
    /\ loop = "reading"
    /\ loop' = "waiting"
    /\ UNCHANGED <<listed, vt, sendTo, hasExited, killed, slot, nameVars, hpc,
                   chan, clientVars, dumpVars, historyVars>>

ReapExited ==
    /\ loop = "waiting"
    /\ hasExited' = TRUE
    /\ loop' = "taking"
    /\ UNCHANGED <<listed, vt, sendTo, killed, slot, nameVars, hpc, chan,
                   clientVars, dumpVars, historyVars>>

\* The client is taken out of the slot, so that its channel closes after Exit.
ReapTake ==
    /\ loop = "taking"
    /\ sendTo' = slot
    /\ slot' = Nobody
    /\ loop' = IF slot = Nobody THEN "removing" ELSE "telling"
    /\ UNCHANGED <<listed, vt, hasExited, killed, nameVars, hpc, chan,
                   clientVars, dumpVars, historyVars>>

\* Mutant of ReapTell: the Exit send has no timeout.
ReapTellAwaited ==
    /\ loop = "telling"
    /\ Accepts(sendTo)
    /\ chan' = [chan EXCEPT ![sendTo] = Append(@, Msg("exit", Sent(sendTo)))]
    /\ loop' = "removing"
    /\ sendTo' = Nobody
    /\ UNCHANGED <<listed, vt, hasExited, killed, slot, nameVars, hpc,
                   clientVars, dumpVars, historyVars>>

\* Exit is queued, or the bounded send gave up.
ReapTell ==
    /\ loop = "telling"
    /\ \/ /\ Accepts(sendTo)
          /\ chan' = [chan EXCEPT ![sendTo] =
                         Append(@, Msg("exit", Sent(sendTo)))]
       \/ /\ ~Accepts(sendTo)
          /\ UNCHANGED chan
    /\ loop' = "removing"
    /\ sendTo' = Nobody
    /\ UNCHANGED <<listed, vt, hasExited, killed, slot, nameVars, hpc,
                   clientVars, dumpVars, historyVars>>

ReapUnlist ==
    /\ loop = "removing"
    /\ listed' = FALSE
    /\ loop' = "done"
    /\ UNCHANGED <<vt, sendTo, hasExited, killed, slot, nameVars, hpc, chan,
                   clientVars, dumpVars, historyVars>>

-----------------------------------------------------------------------------
(* Kills and foreground reports *)

\* kill(), or the expiry of a close: the session leaves the table first.
Kill ==
    /\ listed
    /\ killed = "no"
    /\ listed' = FALSE
    /\ killed' = "pending"
    /\ UNCHANGED <<readVars, hasExited, slot, nameVars, hpc, chan, clientVars,
                   dumpVars, historyVars>>

\* kill_session(): the client is dropped without an Exit event.
KillSession ==
    /\ killed = "pending"
    /\ slot' = Nobody
    /\ hasExited' = TRUE
    /\ killed' = "done"
    /\ UNCHANGED <<listed, readVars, nameVars, hpc, chan, clientVars, dumpVars,
                   historyVars>>

\* A settled evaluation read a new foreground name (schedule_agent), and
\* tell_foreground resolves the client it is for.
NameRead ==
    /\ ~hasExited
    /\ nameTo = Nobody
    /\ foreground' = TRUE
    /\ nameTo' = slot
    /\ UNCHANGED <<listed, readVars, hasExited, killed, slot, hpc, chan,
                   clientVars, dumpVars, historyVars>>

NameSend ==
    /\ nameTo # Nobody
    /\ \/ /\ Accepts(nameTo)
          /\ chan' = [chan EXCEPT ![nameTo] =
                         Append(@, Msg("name", Sent(nameTo)))]
          /\ UNCHANGED <<slot, dropped>>
       \/ /\ ~Accepts(nameTo)
          /\ slot' = Released(nameTo)
          /\ dropped' = dropped \cup {nameTo}
          /\ UNCHANGED chan
    /\ nameTo' = Nobody
    /\ UNCHANGED <<listed, readVars, hasExited, killed, foreground, hpc,
                   clientVars, dumpVars, latest>>

-----------------------------------------------------------------------------
ReadLoop == \/ ReadChunk \/ SendChunk \/ SlowClient \/ Eof
Reap     == \/ ReapExited \/ ReapTake \/ ReapTell \/ ReapUnlist
Handler(c) == \/ Acquire(c) \/ AttachOn(c) \/ Forward(c) \/ ChannelEnd(c)
              \/ Disconnect(c) \/ Resize(c) \/ RedumpTarget(c) \/ RedumpSend(c)

AttachNext ==
    \/ ReadLoop \/ Reap \/ Kill \/ KillSession \/ NameRead \/ NameSend
    \/ \E c \in Client : Handler(c)

AttachSpec == AttachInit /\ [][AttachNext]_attachVars

(***************************************************************************)
(* The daemon's tasks are polled and its bounded sends end.  Nothing is    *)
(* assumed of the shell, of requests, or of clients reading their sockets. *)
(***************************************************************************)
DaemonFairness ==
    /\ WF_attachVars(SendChunk \/ SlowClient)
    /\ WF_attachVars(Reap)
    /\ WF_attachVars(KillSession)
    /\ WF_attachVars(NameSend)

DaemonSpec == AttachSpec /\ DaemonFairness

\* In addition every client reads its socket, so that forward makes progress,
\* and the handlers' own awaits are polled.
ReaderFairness ==
    \A c \in Client :
        /\ WF_attachVars(Forward(c))
        /\ WF_attachVars(ChannelEnd(c))
        /\ WF_attachVars(RedumpTarget(c) \/ RedumpSend(c))

-----------------------------------------------------------------------------
(* Properties *)

\* The chunk the read loop has fed but not yet queued for c.
InFlight(c) == IF loop = "sending" /\ sendTo = c THEN 1 ELSE 0

\* The clients that get the live stream alone.  A re-dump repaints the screen of
\* the others with what may be older than what they have (NothingLost below).
Plain == Client \ redumped

\* "Every chunk is either in the dump or delivered" (manager.rs): what the
\* attached client has been shown, what is queued for it and the chunk in the
\* read loop's hand add up to the VT, through attaches, steals and slow peers.
InSync == \A c \in Plain : slot = c => Sent(c) + InFlight(c) = vt

\* No client, evicted ones included, is ever shown a chunk out of order, twice
\* or after a gap: a connection that loses the pty has seen a prefix.
NoGap == \A c \in Plain : ~torn[c]

\* "The client always sees all output BEFORE the exit event" (read_loop).
ExitComesLast == \A c \in Plain : told[c] => got[c] = vt

\* The last client to attach keeps the pty until it leaves, is too slow, or the
\* pty ends: no teardown of an evicted handler, and no timeout decided on an
\* evicted client, takes the slot from it (ClientId).
LatestKeepsSlot ==
    \A c \in Client :
        /\ c = latest
        /\ hpc[c] = "attached"
        /\ c \notin dropped
        /\ killed # "done"
        /\ loop \in {"reading", "sending", "waiting", "taking"}
        => slot = c

\* A client that stops reading never stalls the pty: each chunk's send ends.
PtyIsDrained == loop = "sending" ~> loop # "sending"

\* Once the shell has closed its terminal the name is freed, whatever the
\* attached client does (the bounded Exit send of reap).
EndedIsUnlisted == loop = "waiting" ~> ~listed

\* A client that stops reading holds nothing up: neither output nor an exit.
SlowHoldsNothing == PtyIsDrained /\ EndedIsUnlisted

\* A handler that lost the slot, by eviction, slowness, kill or exit, ends once
\* clients read their sockets.
LoserEnds ==
    ReaderFairness =>
        \A c \in Client : hpc[c] = "attached" /\ slot # c ~> hpc[c] = "ended"

\* With nothing queued for the attached client, and nothing on its way, it
\* shows all the output there is: "every chunk is either in the dump or
\* delivered" (manager.rs), as the client sees it, early resizes included.
NothingLost ==
    \A c \in Client :
        /\ slot = c
        /\ chan[c] = <<>>
        /\ loop # "sending"
        /\ \A h \in Client : redump[h] = Nobody
        => got[c] = vt
=============================================================================
