----------------------------- MODULE AudioMedia ------------------------------
(***************************************************************************)
(* What travels on an open audio route (crates/muxd/src/audio.rs,          *)
(* audio/linux.rs, audio/mac.rs, crates/mux-proto/src/audio.rs).           *)
(*                                                                         *)
(*   devices --events--> serve_route --ctl (reliable)--> bridge --> helper *)
(*                           |  --down (datagrams)-->      |               *)
(*                           |  <--up (datagrams)--        | <-- frames    *)
(*                                                                         *)
(* Datagrams are lost, repeated and reordered: one that was sent may       *)
(* arrive never, once or again at any time.  A packet of samples is its    *)
(* epoch and its place in it; a captured one also remembers the recording  *)
(* the host was in when it was captured.                                   *)
(***************************************************************************)
EXTENDS Integers, Sequences, FiniteSets

CONSTANTS
    Recorder,    \* capture devices
    Player,      \* playback devices
    EventCap,    \* capacity of the route's event channel
    MaxStarts,   \* bound on the times devices start
    MaxPackets,  \* bound on the datagrams sent
    None

Device == Recorder \cup Player

ASSUME AudioMediaAssumption ==
    /\ Recorder \cap Player = {}
    /\ EventCap \in Nat \ {0}
    /\ MaxStarts \in Nat
    /\ MaxPackets \in Nat
    /\ None \notin Device

VARIABLES
    dpc,      \* each device's task
    owner,    \* Route.playback_owner
    offs,     \* devices whose last "off" waits for the channel
    events,   \* Route.events
    starts,
    clients,  \* serve_route's set of running devices
    st,       \* its State
    pos,      \* its playback position
    heard,    \* its Sequence: the packet it gave the recorders last
    ctl,      \* States on the route's stream
    down,     \* datagrams to the Mac
    up,       \* datagrams to the host
    latest,   \* bridge: the last State
    bpos,     \* its capture position
    passed,   \* its Sequence: the packet it let through last
    held,     \* that packet, while it waits for the writer
    lane,     \* its frames to the helper, in order
    frames,   \* the helper's captured frames to it
    hst,      \* the helper's State: the microphone is on if it says so
    played    \* the packet it gave the speaker last

deviceVars == <<dpc, owner, offs, starts>>
routeVars  == <<clients, st, pos>>
bridgeVars == <<latest, bpos, passed, held>>
helperVars == <<hst, played>>
vars == <<dpc, owner, offs, events, starts, clients, st, pos, heard, ctl, down,
          up, latest, bpos, passed, held, lane, frames, hst, played>>

\* Numbers of 64 bits, which do not wrap in a daemon's time.
Epoch == Nat
Place == Nat

State  == [capture : BOOLEAN, playback : BOOLEAN,
           capture_epoch : Epoch, playback_epoch : Epoch]
Off    == [capture |-> FALSE, playback |-> FALSE,
           capture_epoch |-> 0, playback_epoch |-> 0]
Packet == [epoch : Epoch, place : Place]
Sample == [epoch : Epoch, place : Place, born : Epoch]
Frame  == [epoch : Epoch, born : Epoch]

\* Event::Playback
Pcm == [device |-> None, running |-> TRUE]

\* Sequence::default(): every packet comes after it.
Nothing == [epoch |-> 0, place |-> -1]

TypeOK ==
    /\ dpc \in [Device -> {"stopped", "starting", "running", "stopping", "closed"}]
    /\ owner \in Player \cup {None}
    /\ offs \subseteq Device
    /\ events \in Seq([device : Device \cup {None}, running : BOOLEAN])
    /\ Len(events) <= EventCap
    /\ starts \in 0..MaxStarts
    /\ clients \subseteq Device
    /\ st \in State
    /\ pos \in Place
    /\ heard \in Sample \cup {Nothing}
    /\ ctl \in Seq(State)
    /\ down \subseteq Packet
    /\ up \subseteq Sample
    /\ latest \in State
    /\ bpos \in Place
    /\ passed \in Packet \cup {Nothing}
    /\ held \in Packet \cup {Nothing}
    /\ lane \in Seq(State \cup Packet)
    /\ frames \in Seq(Frame) /\ Len(frames) <= 1
    /\ hst \in State
    /\ played \in Packet \cup {Nothing}

Init ==
    /\ dpc = [d \in Device |-> "stopped"]
    /\ owner = None
    /\ offs = {}
    /\ events = <<>>
    /\ starts = 0
    /\ clients = {}
    /\ st = Off
    /\ pos = 0
    /\ heard = Nothing
    /\ ctl = <<>>
    /\ down = {}
    /\ up = {}
    /\ latest = Off
    /\ bpos = 0
    /\ passed = Nothing
    /\ held = Nothing
    /\ lane = <<>>
    /\ frames = <<>>
    /\ hst = Off
    /\ played = Nothing

-----------------------------------------------------------------------------
(* device, of linux.rs *)

Room == Len(events) < EventCap

Running(d, on) == events' = Append(events, [device |-> d, running |-> on])

Disown(d) == owner' = IF owner = d THEN None ELSE owner

\* Mutant of Start: the speaker is taken from another player.
StartTakes(d) ==
    /\ dpc[d] = "stopped"
    /\ starts < MaxStarts
    /\ starts' = starts + 1
    /\ owner' = IF d \in Player THEN d ELSE owner
    /\ dpc' = [dpc EXCEPT ![d] = "starting"]
    /\ UNCHANGED <<offs, events, routeVars, heard, ctl, down, up,
                   bridgeVars, lane, frames, helperVars>>

\* The program starts: one player at a time.
Start(d) ==
    /\ dpc[d] = "stopped"
    /\ starts < MaxStarts
    /\ starts' = starts + 1
    /\ d \in Player => owner \in {None, d}
    /\ owner' = IF d \in Player THEN d ELSE owner
    /\ dpc' = [dpc EXCEPT ![d] = "starting"]
    /\ UNCHANGED <<offs, events, routeVars, heard, ctl, down, up,
                   bridgeVars, lane, frames, helperVars>>

Stop(d) ==
    /\ dpc[d] = "running"
    /\ dpc' = [dpc EXCEPT ![d] = "stopping"]
    /\ Disown(d)
    /\ UNCHANGED <<offs, starts, events, routeVars, heard, ctl, down, up,
                   bridgeVars, lane, frames, helperVars>>

\* Its task waits until the event is in the channel.
Tell(d) ==
    /\ dpc[d] \in {"starting", "stopping"}
    /\ Room
    /\ Running(d, dpc[d] = "starting")
    /\ dpc' = [dpc EXCEPT ![d] = IF @ = "starting" THEN "running" ELSE "stopped"]
    /\ UNCHANGED <<owner, offs, starts, routeVars, heard, ctl, down, up,
                   bridgeVars, lane, frames, helperVars>>

\* Running::drop, whether the program stopped before or not.
Close(d) ==
    /\ dpc[d] \in {"stopped", "running"}
    /\ dpc' = [dpc EXCEPT ![d] = "closed"]
    /\ Disown(d)
    /\ offs' = offs \cup {d}
    /\ UNCHANGED <<starts, events, routeVars, heard, ctl, down, up,
                   bridgeVars, lane, frames, helperVars>>

\* Mutant of LastOff: the event is dropped when the channel is full.
LastOffTries(d) ==
    /\ d \in offs
    /\ offs' = offs \ {d}
    /\ IF Room THEN Running(d, FALSE) ELSE UNCHANGED events
    /\ UNCHANGED <<dpc, owner, starts, routeVars, heard, ctl, down, up,
                   bridgeVars, lane, frames, helperVars>>

\* The task it spawned waits for room.
LastOff(d) ==
    /\ d \in offs
    /\ Room
    /\ offs' = offs \ {d}
    /\ Running(d, FALSE)
    /\ UNCHANGED <<dpc, owner, starts, routeVars, heard, ctl, down, up,
                   bridgeVars, lane, frames, helperVars>>

\* Mutant of Play: nothing is dropped.
PlayUnbounded(d) ==
    /\ d \in Player
    /\ dpc[d] = "running"
    /\ events' = Append(events, Pcm)
    /\ UNCHANGED <<deviceVars, routeVars, heard, ctl, down, up, bridgeVars,
                   lane, frames, helperVars>>

\* Media never waits.
Play(d) ==
    /\ d \in Player
    /\ dpc[d] = "running"
    /\ Room
    /\ events' = Append(events, Pcm)
    /\ UNCHANGED <<deviceVars, routeVars, heard, ctl, down, up, bridgeVars,
                   lane, frames, helperVars>>

-----------------------------------------------------------------------------
(* serve_route, on the host *)

\* An epoch is a time without a break in which some device runs.
Follow(now, capture, playback) ==
    [capture |-> capture, playback |-> playback,
     capture_epoch  |-> now.capture_epoch + IF capture /\ ~now.capture THEN 1 ELSE 0,
     playback_epoch |-> now.playback_epoch + IF playback /\ ~now.playback THEN 1 ELSE 0]

HandleRunning ==
    /\ events # <<>>
    /\ Head(events) # Pcm
    /\ LET e   == Head(events)
           cs  == IF e.running THEN clients \cup {e.device} ELSE clients \ {e.device}
           new == Follow(st, cs \cap Recorder # {}, cs \cap Player # {})
       IN  /\ clients' = cs
           /\ st' = new
           /\ pos' = IF new.playback_epoch # st.playback_epoch THEN 0 ELSE pos
           /\ ctl' = IF new # st THEN Append(ctl, new) ELSE ctl
    /\ events' = Tail(events)
    /\ UNCHANGED <<deviceVars, heard, down, up, bridgeVars, lane, frames,
                   helperVars>>

Sends == Cardinality(up) + Cardinality(down) < MaxPackets

HandlePlayback ==
    /\ events # <<>>
    /\ Head(events) = Pcm
    /\ events' = Tail(events)
    /\ IF Sends
       THEN /\ pos' = pos + 1
            /\ down' = down \cup {[epoch |-> st.playback_epoch, place |-> pos]}
       ELSE UNCHANGED <<pos, down>>
    /\ UNCHANGED <<deviceVars, clients, st, heard, ctl, up, bridgeVars,
                   lane, frames, helperVars>>

\* Mutant of Accept: what was accepted last is accepted again.
AcceptAgain(last, p) ==
    p.epoch >= last.epoch /\ (p.epoch = last.epoch => p.place >= last.place)

\* Sequence::accept: not before the end of the packet accepted last.
Accept(last, p) ==
    p.epoch >= last.epoch /\ (p.epoch = last.epoch => p.place >= last.place + 1)

\* Mutant of Hear: the Sequence tells old epochs from new ones.
HearAnyEpoch(p) ==
    /\ p \in up
    /\ heard' = IF st.capture /\ Accept(heard, p) THEN p ELSE heard
    /\ UNCHANGED <<deviceVars, events, routeVars, ctl, down, up, bridgeVars,
                   lane, frames, helperVars>>

\* A datagram arrives.
Hear(p) ==
    /\ p \in up
    /\ heard' = IF st.capture /\ p.epoch = st.capture_epoch /\ Accept(heard, p)
                THEN p ELSE heard
    /\ UNCHANGED <<deviceVars, events, routeVars, ctl, down, up, bridgeVars,
                   lane, frames, helperVars>>

-----------------------------------------------------------------------------
(* bridge, in the Mac's daemon *)

Control ==
    /\ ctl # <<>>
    /\ latest' = Head(ctl)
    /\ lane' = Append(lane, Head(ctl))
    /\ ctl' = Tail(ctl)
    /\ UNCHANGED <<deviceVars, events, routeVars, heard, down, up, bpos,
                   passed, held, frames, helperVars>>

\* A frame of another recording is dropped.
Upload ==
    /\ frames # <<>>
    /\ frames' = Tail(frames)
    /\ LET f == Head(frames)
       IN  IF latest.capture /\ f.epoch = latest.capture_epoch /\ Sends
           THEN /\ bpos' = bpos + 1
                /\ up' = up \cup {[epoch |-> f.epoch, place |-> bpos, born |-> f.born]}
           ELSE UNCHANGED <<bpos, up>>
    /\ UNCHANGED <<deviceVars, events, routeVars, heard, ctl, down, latest,
                   passed, held, lane, helperVars>>

\* Other packets are dropped, and the next is read when this one is written.
Download(p) ==
    /\ held = Nothing
    /\ p \in down
    /\ p.epoch = latest.playback_epoch
    /\ Accept(passed, p)
    /\ passed' = p
    /\ held' = p
    /\ UNCHANGED <<deviceVars, events, routeVars, heard, ctl, down, up,
                   latest, bpos, lane, frames, helperVars>>

\* It may have waited for the writer while States went by.
DownloadWrite ==
    /\ held # Nothing
    /\ lane' = Append(lane, held)
    /\ held' = Nothing
    /\ UNCHANGED <<deviceVars, events, routeVars, heard, ctl, down, up,
                   latest, bpos, passed, frames, helperVars>>

-----------------------------------------------------------------------------
(* run_ready, in the helper *)

IsState(m) == "capture" \in DOMAIN m

OnState ==
    /\ lane # <<>>
    /\ IsState(Head(lane))
    /\ lane' = Tail(lane)
    /\ hst' = Head(lane)
    /\ UNCHANGED <<deviceVars, events, routeVars, heard, ctl, down, up,
                   bridgeVars, frames, played>>

\* A packet of this epoch is played, for 200 ms after its end too.
OnPlayback ==
    /\ lane # <<>>
    /\ ~IsState(Head(lane))
    /\ lane' = Tail(lane)
    /\ \/ Head(lane).epoch = hst.playback_epoch /\ played' = Head(lane)
       \/ /\ ~hst.playback \/ Head(lane).epoch # hst.playback_epoch
          /\ UNCHANGED played
    /\ UNCHANGED <<deviceVars, events, routeVars, heard, ctl, down, up,
                   bridgeVars, frames, hst>>

\* The capture callback: the queue runs while the State says so.
Capture ==
    /\ hst.capture
    /\ frames = <<>>
    /\ frames' = <<[epoch |-> hst.capture_epoch, born |-> st.capture_epoch]>>
    /\ UNCHANGED <<deviceVars, events, routeVars, heard, ctl, down, up,
                   bridgeVars, lane, helperVars>>

-----------------------------------------------------------------------------

Next ==
    \/ \E d \in Device :
          Start(d) \/ Stop(d) \/ Tell(d) \/ Close(d) \/ LastOff(d) \/ Play(d)
    \/ HandleRunning
    \/ HandlePlayback
    \/ \E p \in up : Hear(p)
    \/ Control
    \/ Upload
    \/ \E p \in down : Download(p)
    \/ DownloadWrite
    \/ OnState
    \/ OnPlayback
    \/ Capture

\* Tasks run and the reliable streams deliver.  Those who wait for the channel
\* get their turn before media that does not wait (tokio's senders queue),
\* hence SF; devices start a bounded number of times, so one SF is enough.
Fairness ==
    /\ SF_vars(\E d \in Device : Tell(d) \/ LastOff(d))
    /\ WF_vars(HandleRunning \/ HandlePlayback)
    /\ WF_vars(Control)
    /\ WF_vars(OnState \/ OnPlayback)

Spec     == Init /\ [][Next]_vars
FairSpec == Spec /\ Fairness

-----------------------------------------------------------------------------
Later(p, q) ==
    \/ p.epoch > q.epoch
    \/ p.epoch = q.epoch /\ p.place > q.place

(* "A gap is loss, never a reason to replay audio" (mux-proto audio.rs):    *)
(* whatever datagrams are lost, repeated or reordered, the speaker is given *)
(* packets in the order in which they were made, each at most once, across  *)
(* restarts of the devices.                                                 *)
NeverReplays ==
    [][lane # <<>> /\ lane' = Tail(lane) /\ played' = Head(lane)
          => Later(played', played)]_<<lane, played>>

(* A recorder is given only what was captured after the host's recording    *)
(* began: nothing the microphone picked up for an earlier one, however late *)
(* the Mac learns of an end and a new start, or the packet arrives.         *)
FreshCapture ==
    [][heard' # heard => heard'.born = st.capture_epoch]_heard

(* "Microphone-off" is a reliable transition (linux.rs, Running::drop):     *)
(* once no program records any more the Mac's microphone goes off for good, *)
(* and while one goes on recording it stays on, media filling the channel   *)
(* or not.                                                                  *)
MicrophoneFollows ==
    /\ <>[](\A r \in Recorder : dpc[r] \in {"stopped", "closed"}) => <>[]~hst.capture
    /\ <>[](\E r \in Recorder : dpc[r] = "running") => <>[]hst.capture

(* A program runs from the moment its device has told the route until the   *)
(* device tells it of the end.                                              *)
Sounding(d) == dpc[d] \in {"running", "stopping"}

(* One player has the speaker, from its start until it stops or is gone     *)
(* (Route.playback_owner).                                                  *)
PlayerIsOwner ==
    \A d \in Player : dpc[d] \in {"starting", "running"} <=> owner = d

(* The safety behind "a reliable transition": when no event waits in the    *)
(* channel or for it, serve_route's State is what the programs do, and when *)
(* no State is on its way it is the Mac's, so a microphone that is on       *)
(* without a recorder, or off with one, is about to be told.                *)
MicrophoneIsTold ==
    /\ events = <<>> /\ offs = {} =>
          /\ st.capture  <=> \E r \in Recorder : Sounding(r)
          /\ st.playback <=> \E p \in Player : Sounding(p)
    /\ ctl = <<>> /\ (\A i \in 1..Len(lane) : ~IsState(lane[i])) => hst = st

(* What each end of a route knows, its channels within their sizes.         *)
RouteIsTold == TypeOK /\ PlayerIsOwner /\ MicrophoneIsTold

(* Sound is neither repeated nor taken from another recording, both ways.   *)
SoundIsFresh == NeverReplays /\ FreshCapture
=============================================================================
