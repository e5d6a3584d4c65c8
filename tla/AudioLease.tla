----------------------------- MODULE AudioLease ------------------------------
(***************************************************************************)
(* Who has the Mac's microphone and speaker (crates/muxd/src/audio.rs and  *)
(* audio/): a device a program opens on the host acquires a route to the   *)
(* Mac through the provider the Mac's helper registered on its connection. *)
(*                                                                         *)
(*   device --acquire--> provider --request--> helper                      *)
(*     ^                                          | AudioAcquire           *)
(*     +-- joins --  route (serve_route)  <-------+                        *)
(*                                                                         *)
(* A request, its permit and the route that is opened with it share a      *)
(* number, which is used again once nobody refers to it.  A Permit is      *)
(* valid as long as its device waits for the answer.  Deadlines (the       *)
(* two of ACQUIRE_TIMEOUT, the 300 ms of idle expiry, the helper's 750 ms) *)
(* may pass at any time.                                                   *)
(***************************************************************************)
EXTENDS Naturals, Sequences, SequencesExt

CONSTANTS
    Pane,      \* terminals on the host
    Device,    \* ALSA devices their programs open
    MaxIds,    \* bound on the requests and routes there are at once
    MaxAtt,    \* bound on attachments
    MaxRegs    \* bound on registrations of the provider

Id == 1..MaxIds
No == 0

ASSUME AudioLeaseAssumption == MaxIds \in Nat /\ MaxAtt \in Nat /\ MaxRegs \in Nat

VARIABLES
    client,    \* PtySession.client of each pane: its id (or No), and whether
               \* it came over the provider's connection
    atts,      \* attachments so far
    dpc,       \* where each device is
    dev,       \* what its acquire has read: pane, attachment, registration;
               \* the permit it waits for or the route it is on; and the
               \* answer on its oneshot channel
    prov,      \* Provider::serve: "off", "recv", or "sent" and awaiting Ready
    reg,       \* the registration it is
    chan,      \* acquisitions queued for it
    cur,       \* the one it forwarded
    pending,   \* Provider.pending
    toMac,     \* requests on the provider's stream
    fromMac,   \* Ready replies on it
    helper,    \* the helper on the Mac
    wanted,    \* the request it serves
    next,      \* one that arrived meanwhile, and waits
    route,     \* every route: its state, what it is for, whether its permit
               \* is claimed, whether it is ready and whether it looks idle
    table,     \* Registry.routes: each pane's latest route
    lease,     \* the route that has the connection's datagrams
    media      \* routes whose helper end is still open

clientVars == <<client, atts>>
deviceVars == <<dpc, dev>>
provVars   == <<prov, reg, chan, cur, pending>>
wireVars   == <<toMac, fromMac>>
helperVars == <<helper, wanted, next>>
routeVars  == <<route, table, lease, media>>
vars == <<client, atts, dpc, dev, prov, reg, chan, cur, pending, toMac,
          fromMac, helper, wanted, next, route, table, lease, media>>

NoDevice == [pane |-> No, att |-> No, reg |-> No, on |-> No, answer |-> "none"]
NoRoute  == [pane |-> No, att |-> No, reg |-> No, state |-> "gone",
             claimed |-> FALSE, ready |-> FALSE, idle |-> FALSE]

TypeOK ==
    /\ client \in [Pane -> [id : 0..MaxAtt, own : BOOLEAN]]
    /\ atts \in 0..MaxAtt
    /\ dpc \in [Device -> {"closed", "gate", "wait", "open"}]
    /\ dev \in [Device -> [pane : Pane \cup {No}, att : 0..MaxAtt,
                           reg : 0..MaxRegs, on : Id \cup {No},
                           answer : {"none", "ok", "error"}]]
    /\ prov \in {"off", "recv", "sent"}
    /\ reg \in 0..MaxRegs
    /\ chan \in Seq(Id)
    /\ cur \in Id \cup {No}
    /\ pending \in Id \cup {No}
    /\ toMac \in Seq(Id)
    /\ fromMac \in Seq([id : Id, ok : BOOLEAN])
    /\ helper \in {"away", "idle", "dial", "opened", "up", "grace"}
    /\ wanted \in Id \cup {No}
    /\ next \in Id \cup {No}
    /\ route \in [Id -> [state : {"live", "expired", "ended", "gone"},
                         pane : Pane \cup {No}, att : 0..MaxAtt,
                         reg : 0..MaxRegs, claimed : BOOLEAN,
                         ready : BOOLEAN, idle : BOOLEAN]]
    /\ table \in [Pane -> Id \cup {No}]
    /\ lease \in Id \cup {No}
    /\ media \subseteq Id
    /\ lease # No <=> \E i \in Id : route[i].state # "gone"

Init ==
    /\ client = [n \in Pane |-> [id |-> No, own |-> FALSE]]
    /\ atts = 0
    /\ dpc = [d \in Device |-> "closed"]
    /\ dev = [d \in Device |-> NoDevice]
    /\ prov = "off"
    /\ reg = 0
    /\ chan = <<>>
    /\ cur = No
    /\ pending = No
    /\ toMac = <<>>
    /\ fromMac = <<>>
    /\ helper = "away"
    /\ wanted = No
    /\ next = No
    /\ route = [i \in Id |-> NoRoute]
    /\ table = [n \in Pane |-> No]
    /\ lease = No
    /\ media = {}

-----------------------------------------------------------------------------
(* Clients of the panes *)

Attach(n, own) ==
    /\ atts < MaxAtt
    /\ atts' = atts + 1
    /\ client' = [client EXCEPT ![n] = [id |-> atts + 1, own |-> own]]
    /\ UNCHANGED <<deviceVars, provVars, wireVars, helperVars, routeVars>>

\* It detaches, or its terminal exits.
Detach(n) ==
    /\ client[n].id # No
    /\ client' = [client EXCEPT ![n] = [id |-> No, own |-> FALSE]]
    /\ UNCHANGED <<atts, deviceVars, provVars, wireVars, helperVars,
                   routeVars>>

-----------------------------------------------------------------------------
(* Devices *)

Users(i) == {d \in Device : dpc[d] = "open" /\ dev[d].on = i}

Connected(r) == r = reg /\ prov # "off"

\* Registry::join; the route is alive for this attachment, and one that is
\* not ready yet is for the acquisition that asked for it.
Joins(n, a, activate) ==
    LET i == table[n]
    IN  /\ i # No
        /\ route[i].state = "live"
        /\ route[i].att = a
        /\ activate \/ route[i].ready

Opens(d, rec, i) ==
    /\ dpc' = [dpc EXCEPT ![d] = "open"]
    /\ dev' = [dev EXCEPT ![d] = [rec EXCEPT !.on = i, !.answer = "none"]]

Closes(d) ==
    /\ dpc' = [dpc EXCEPT ![d] = "closed"]
    /\ dev' = [dev EXCEPT ![d] = NoDevice]

\* acquire, up to its gate: a program opens the device in its pane.
Acquire(d, n) ==
    /\ dpc[d] = "closed"
    /\ LET a   == client[n].id
           rec == [NoDevice EXCEPT !.pane = n, !.att = a, !.reg = reg]
       IN  /\ a # No
           /\ IF Joins(n, a, FALSE) THEN Opens(d, rec, table[n])
              ELSE /\ client[n].own
                   /\ prov # "off"
                   /\ dpc' = [dpc EXCEPT ![d] = "gate"]
                   /\ dev' = [dev EXCEPT ![d] = rec]
    /\ UNCHANGED <<clientVars, provVars, wireVars, helperVars, routeVars>>

Attached(d) == client[dev[d].pane] = [id |-> dev[d].att, own |-> TRUE]

Referred(i) ==
    \/ route[i].state # "gone"
    \/ \E d \in Device : dev[d].on = i
    \/ i \in ToSet(chan) \cup ToSet(toMac) \cup {cur, wanted, next}
    \/ \E k \in 1..Len(fromMac) : fromMac[k].id = i

\* Behind the gate: one acquisition of a provider at a time.
Gate(d) ==
    /\ dpc[d] = "gate"
    /\ \A e \in Device : dpc[e] = "wait" => dev[e].reg # dev[d].reg
    /\ IF ~Attached(d) THEN Closes(d) /\ UNCHANGED <<chan, pending>>
       ELSE IF Joins(dev[d].pane, dev[d].att, FALSE)
       THEN Opens(d, dev[d], table[dev[d].pane]) /\ UNCHANGED <<chan, pending>>
       ELSE IF ~Connected(dev[d].reg)
       THEN Closes(d) /\ UNCHANGED <<chan, pending>>
       ELSE \E i \in Id :
               /\ ~Referred(i)
               /\ \A j \in Id : j < i => Referred(j)
               /\ pending' = i
               /\ chan' = Append(chan, i)
               /\ dpc' = [dpc EXCEPT ![d] = "wait"]
               /\ dev' = [dev EXCEPT ![d].on = i]
    /\ UNCHANGED <<clientVars, prov, reg, cur, wireVars, helperVars, routeVars>>

Waiting(i) == {d \in Device : dpc[d] = "wait" /\ dev[d].on = i}

\* Permit.valid, and the oneshot channel's receiver is there.
Valid(i) == Waiting(i) # {}

\* The answer to every request of I, if its device still waits for one.
Answer(I, with) ==
    dev' = [d \in Device |->
              IF (\E i \in I : d \in Waiting(i)) /\ dev[d].answer = "none"
              THEN [dev[d] EXCEPT !.answer = with] ELSE dev[d]]

\* Mutant of Answered: an error is an answer too.
AnsweredAnyhow(d) ==
    /\ dpc[d] = "wait"
    /\ dev[d].answer # "none"
    /\ LET n == dev[d].pane
       IN  IF /\ Attached(d)
              /\ Connected(dev[d].reg)
              /\ Joins(n, dev[d].att, TRUE)
           THEN /\ Opens(d, dev[d], table[n])
                /\ route' = [route EXCEPT ![table[n]].ready = TRUE,
                                          ![dev[d].on].claimed = TRUE]
           ELSE Closes(d) /\ UNCHANGED route
    /\ UNCHANGED <<clientVars, provVars, wireVars, helperVars, table, lease, media>>

\* The provider answered, or is gone.  What was true before the wait is
\* checked again, and the route joined whatever it is.
Answered(d) ==
    /\ dpc[d] = "wait"
    /\ dev[d].answer # "none"
    /\ LET n == dev[d].pane
       IN  IF /\ dev[d].answer = "ok"
              /\ Attached(d)
              /\ Connected(dev[d].reg)
              /\ Joins(n, dev[d].att, TRUE)
           THEN /\ Opens(d, dev[d], table[n])
                /\ route' = [route EXCEPT ![table[n]].ready = TRUE,
                                          ![dev[d].on].claimed = TRUE]
           ELSE Closes(d) /\ UNCHANGED route
    /\ UNCHANGED <<clientVars, provVars, wireVars, helperVars, table, lease, media>>

\* ACQUIRE_TIMEOUT of the device, or its program goes away.
Cancel(d) ==
    /\ dpc[d] \in {"gate", "wait"}
    /\ Closes(d)
    /\ UNCHANGED <<clientVars, provVars, wireVars, helperVars, routeVars>>

CloseDevice(d) ==
    /\ dpc[d] = "open"
    /\ route[dev[d].on].state = "live"
    /\ Closes(d)
    /\ UNCHANGED <<clientVars, provVars, wireVars, helperVars, routeVars>>

\* Its route's event channel is closed.
LoseDevice(d) ==
    /\ dpc[d] = "open"
    /\ route[dev[d].on].state \in {"ended", "gone"}
    /\ Closes(d)
    /\ UNCHANGED <<clientVars, provVars, wireVars, helperVars, routeVars>>

-----------------------------------------------------------------------------
(* Provider::serve, on the host *)

\* The helper connects; a device that still waits on the last registration
\* keeps it in the way.
Register ==
    /\ helper = "away"
    /\ prov = "off"
    /\ reg < MaxRegs
    /\ \A d \in Device : dpc[d] \in {"gate", "wait"} => dev[d].reg # reg
    /\ reg' = reg + 1
    /\ prov' = "recv"
    /\ pending' = No
    /\ helper' = "idle"
    /\ toMac' = <<>>
    /\ fromMac' = <<>>
    /\ UNCHANGED <<clientVars, deviceVars, chan, cur, wanted, next,
                   routeVars>>

\* An acquisition whose device has given up is skipped.
Forward ==
    /\ prov = "recv"
    /\ chan # <<>>
    /\ chan' = Tail(chan)
    /\ IF Valid(Head(chan))
       THEN /\ toMac' = Append(toMac, Head(chan))
            /\ cur' = Head(chan)
            /\ prov' = "sent"
       ELSE UNCHANGED <<toMac, cur, prov>>
    /\ UNCHANGED <<clientVars, deviceVars, reg, pending, fromMac,
                   helperVars, routeVars>>

\* The registration ends, and with it every acquisition it has.
Unregister ==
    /\ prov' = "off"
    /\ chan' = <<>>
    /\ cur' = No
    /\ Answer(ToSet(chan) \cup {cur}, "error")
    /\ UNCHANGED <<clientVars, dpc, reg, pending, wireVars, helperVars,
                   routeVars>>

TakeReady ==
    /\ prov = "sent"
    /\ fromMac # <<>>
    /\ Head(fromMac).id = cur
    /\ Answer({cur}, IF Head(fromMac).ok THEN "ok" ELSE "error")
    /\ fromMac' = Tail(fromMac)
    /\ cur' = No
    /\ prov' = "recv"
    /\ UNCHANGED <<clientVars, dpc, reg, chan, pending, toMac,
                   helperVars, routeVars>>

\* Mutant of ProviderTimeout: the registration goes on.
ProviderTimeoutGoesOn ==
    /\ prov = "sent"
    /\ prov' = "recv"
    /\ cur' = No
    /\ Answer({cur}, "error")
    /\ UNCHANGED <<clientVars, dpc, reg, chan, pending, wireVars,
                   helperVars, routeVars>>

\* ACQUIRE_TIMEOUT of the provider.
ProviderTimeout == prov = "sent" /\ Unregister

\* The helper hung up, or said something nobody asked for.
ProviderEof ==
    /\ \/ prov = "recv" /\ (helper = "away" \/ fromMac # <<>>)
       \/ prov = "sent" /\ helper = "away" /\ fromMac = <<>>
    /\ Unregister

-----------------------------------------------------------------------------
(* The helper on the Mac (automatic.rs) *)

Ready(i, ok) ==
    fromMac' = IF prov = "off" THEN fromMac
               ELSE Append(fromMac, [id |-> i, ok |-> ok])

Take ==
    /\ helper = "idle"
    /\ toMac # <<>>
    /\ helper' = "dial"
    /\ wanted' = Head(toMac)
    /\ toMac' = Tail(toMac)
    /\ UNCHANGED <<clientVars, deviceVars, provVars, fromMac, next,
                   routeVars>>

\* serve_auto and the start of serve_route, on the host: the permit is the
\* pending one and its device still waits, the pane's client is still the
\* one it was issued for, and neither the connection nor the pane has a route.
Admits(d, i) ==
    /\ pending = i
    /\ d \in Waiting(i)
    /\ Connected(dev[d].reg)
    /\ Attached(d)
    /\ lease = No
    /\ table[dev[d].pane] = No

Dial ==
    /\ helper = "dial"
    /\ \E d \in Device :
          /\ Admits(d, wanted)
          /\ route' = [route EXCEPT ![wanted] =
                         [NoRoute EXCEPT !.state = "live", !.pane = dev[d].pane,
                                         !.att = dev[d].att, !.reg = dev[d].reg]]
          /\ table' = [table EXCEPT ![dev[d].pane] = wanted]
    /\ helper' = "opened"
    /\ lease' = wanted
    /\ media' = media \cup {wanted}
    /\ UNCHANGED <<clientVars, deviceVars, provVars, wireVars, wanted,
                   next>>

GiveBack ==
    /\ helper' = "idle"
    /\ wanted' = No
    /\ media' = media \ {wanted}
    /\ Ready(wanted, FALSE)
    /\ UNCHANGED <<clientVars, deviceVars, provVars, toMac, next, route,
                   table, lease>>

\* The host refuses, another process has the hardware, or the stream fails.
DialFails == helper = "dial" /\ GiveBack

OpenFails == helper = "opened" /\ GiveBack

OpenHardware ==
    /\ helper = "opened"
    /\ helper' = "up"
    /\ Ready(wanted, TRUE)
    /\ UNCHANGED <<clientVars, deviceVars, provVars, toMac, wanted,
                   next, routeVars>>

\* A request while another is served waits a moment for its end.
NextArrives ==
    /\ helper = "up"
    /\ toMac # <<>>
    /\ helper' = "grace"
    /\ next' = Head(toMac)
    /\ toMac' = Tail(toMac)
    /\ UNCHANGED <<clientVars, deviceVars, provVars, fromMac, wanted,
                   routeVars>>

GraceOver ==
    /\ helper = "grace"
    /\ helper' = "up"
    /\ next' = No
    /\ Ready(next, FALSE)
    /\ UNCHANGED <<clientVars, deviceVars, provVars, toMac, wanted,
                   routeVars>>

OperationEnds ==
    /\ helper \in {"up", "grace"}
    /\ helper' = IF helper = "up" THEN "idle" ELSE "dial"
    /\ wanted' = next
    /\ next' = No
    /\ media' = media \ {wanted}
    /\ UNCHANGED <<clientVars, deviceVars, provVars, wireVars, route,
                   table, lease>>

\* The host has ended the route: its stream is finished.
RouteEof == OperationEnds /\ route[wanted].state = "gone"

\* CoreAudio stalls, or the controls stop.
HardwareFails == OperationEnds /\ route[wanted].state # "gone"

Away ==
    /\ helper' = "away"
    /\ wanted' = No
    /\ next' = No
    /\ media' = {}
    /\ toMac' = <<>>
    /\ UNCHANGED <<clientVars, deviceVars, provVars, fromMac, route,
                   table, lease>>

HelperDies == helper # "away" /\ Away

\* Its provider's stream has ended.
HelperEof == helper \in {"idle", "up"} /\ prov = "off" /\ toMac = <<>> /\ Away

-----------------------------------------------------------------------------
(* serve_route, on the host *)

EndRoute(i) ==
    /\ route' = [route EXCEPT ![i].state = "ended"]
    /\ table' = [table EXCEPT ![route[i].pane] = No]
    /\ UNCHANGED <<clientVars, deviceVars, provVars, wireVars,
                   helperVars, lease, media>>

Client(i) == client[route[i].pane].id = route[i].att

\* Mutant of CheckTick: a permit nobody claimed is not looked at.
CheckTickKeeps(i) ==
    /\ route[i].state = "live"
    /\ ~Client(i) \/ ~Connected(route[i].reg)
    /\ EndRoute(i)

\* The pane's client has changed, the provider is gone, or the device that
\* asked gave up.
CheckTick(i) ==
    /\ route[i].state = "live"
    /\ \/ ~Client(i)
       \/ ~Connected(route[i].reg)
       \/ ~Valid(i) /\ ~route[i].claimed
    /\ EndRoute(i)

\* Route::expired, before the lock: no device has it.
IdleLook(i) ==
    /\ route[i].state = "live"
    /\ route[i].claimed
    /\ route[i].idle # (Users(i) = {})
    /\ route' = [route EXCEPT ![i].idle = (Users(i) = {})]
    /\ UNCHANGED <<clientVars, deviceVars, provVars, wireVars,
                   helperVars, table, lease, media>>

\* Mutant of IdleExpire: what was seen before the lock is enough.
IdleExpireBlind(i) ==
    /\ route[i].state = "live"
    /\ route[i].idle
    /\ route' = [route EXCEPT ![i].state = "expired"]
    /\ UNCHANGED <<clientVars, deviceVars, provVars, wireVars,
                   helperVars, table, lease, media>>

\* Under the lock that join takes: admission closes.
IdleExpire(i) ==
    /\ route[i].state = "live"
    /\ route[i].idle
    /\ Users(i) = {}
    /\ route' = [route EXCEPT ![i].state = "expired"]
    /\ UNCHANGED <<clientVars, deviceVars, provVars, wireVars,
                   helperVars, table, lease, media>>

Expired(i) == route[i].state = "expired" /\ EndRoute(i)

\* The helper closed its end.
ReaderEof(i) == route[i].state = "live" /\ i \notin media /\ EndRoute(i)

\* Mutant of Gone: the connection keeps its owner.
GoneKeepsLease(i) ==
    /\ route[i].state = "ended"
    /\ route' = [route EXCEPT ![i] = NoRoute]
    /\ UNCHANGED <<clientVars, deviceVars, provVars, wireVars,
                   helperVars, table, lease, media>>

\* The connection lease is dropped, and then the stream finished.
Gone(i) ==
    /\ route[i].state = "ended"
    /\ route' = [route EXCEPT ![i] = NoRoute]
    /\ lease' = No
    /\ UNCHANGED <<clientVars, deviceVars, provVars, wireVars,
                   helperVars, table, media>>

-----------------------------------------------------------------------------

DeviceStep(d) == Gate(d) \/ Answered(d) \/ LoseDevice(d)
ProvStep      == Forward \/ TakeReady \/ ProviderEof
HelperStep    == Take \/ Dial \/ OpenHardware \/ NextArrives \/ RouteEof \/ HelperEof
RouteStep(i)  == CheckTick(i) \/ IdleLook(i) \/ IdleExpire(i) \/ Expired(i)
                    \/ ReaderEof(i) \/ Gone(i)

Next ==
    \/ \E n \in Pane : Detach(n) \/ \E own \in BOOLEAN : Attach(n, own)
    \/ \E d \in Device :
          \/ DeviceStep(d) \/ Cancel(d) \/ CloseDevice(d)
          \/ \E n \in Pane : Acquire(d, n)
    \/ Register
    \/ ProvStep
    \/ ProviderTimeout
    \/ HelperStep
    \/ DialFails
    \/ OpenFails
    \/ GraceOver
    \/ HardwareFails
    \/ HelperDies
    \/ \E i \in Id : RouteStep(i)

\* Tasks run and deadlines pass; programs, clients, the helper's failures and
\* its coming back are up to others.
Fairness ==
    /\ \A d \in Device : WF_vars(DeviceStep(d)) /\ WF_vars(Cancel(d))
    /\ WF_vars(ProvStep)
    /\ WF_vars(ProviderTimeout)
    /\ WF_vars(HelperStep)
    /\ WF_vars(RouteEof)
    /\ WF_vars(DialFails)
    /\ WF_vars(GraceOver)
    /\ \A i \in Id : WF_vars(RouteStep(i))

Spec     == Init /\ [][Next]_vars
FairSpec == Spec /\ Fairness

-----------------------------------------------------------------------------
(* Route::expired "serializes expiry with joining": no device is on a route *)
(* whose admission was closed for being idle, so an idle expiry never takes *)
(* the audio of a program that just opened its device.                      *)
IdleTakesNoDevice ==
    \A i \in Id : route[i].state = "expired" => Users(i) = {}

(* acquire joins whatever route its pane has: it is always the one opened   *)
(* with its own permit.  A route activated by another acquisition would     *)
(* have an unclaimed permit, and be ended under its devices.                *)
ReadyIsClaimed ==
    \A i \in Id : route[i].state = "live" =>
       (route[i].ready <=> route[i].claimed)

(* "Never decode its tail as a different reply after an acquisition         *)
(* deadline" (provider.rs, serve): with both ends timing out on their own,  *)
(* a Ready the provider reads is the answer to the request it forwarded.    *)
RepliesMatch ==
    prov # "off" /\ fromMac # <<>> =>
       prov = "sent" /\ Head(fromMac).id = cur

(* The Mac's devices are open only for the time of a pane's lease           *)
(* (automatic.rs:1): whatever requests are cancelled, answered late or left *)
(* by their clients, the hardware is not held for ever without a device.    *)
HardwareIsReleased ==
    []<>(helper \notin {"up", "grace"} \/ Users(wanted) # {})

(* However expiry, cancellation and late answers interleave with joining,   *)
(* a lease, its route and its request belong together.                      *)
LeaseIsAgreed ==
    TypeOK /\ IdleTakesNoDevice /\ ReadyIsClaimed /\ RepliesMatch
=============================================================================
